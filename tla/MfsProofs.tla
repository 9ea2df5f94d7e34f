----------------------------- MODULE MfsProofs ------------------------------
(***************************************************************************)
(* Theorems about Mfs, for every volume size, set of names and bound:      *)
(* types, chains that never merge and that end, the entries, and the files *)
(* of clients that write at the end. Each invariant contains one before    *)
(* it.                                                                     *)
(*                                                                         *)
(* IInv: NoMergedChains is inductive together with TypeOK, because each of *)
(* its three parts needs the others: an index that find_empty_fat_index    *)
(* returns is 0 in the FAT, so (second part) no entry continues in it and  *)
(* (third part) it is no file's head; linking it cannot give two entries   *)
(* the same successor (first part).                                        *)
(*                                                                         *)
(* A chain that does not merge with another does not merge with itself:    *)
(* were it to come back to a cluster, that cluster would continue two, or  *)
(* be a head. So a walk that goes on visits as many clusters as it takes   *)
(* steps, and as there are no more than MaxIndex, it ends (WalkEnds).      *)
(* ChainsSound also says that two heads have no cluster in common, for     *)
(* which no two entries may have the same head: CInv adds that (OwnHeads). *)
(*                                                                         *)
(* NInv, for the names: an entry lies in a cluster that is in use and is   *)
(* not in the chain of cluster 0, and a directory has no free slot before  *)
(* one of its entries, so that a name made again comes after the one a     *)
(* search finds. It needs the chains to be sound: an entry that one        *)
(* directory gets lies in the chain of no other.                           *)
(*                                                                         *)
(* LInv is for clients that look a name up before they make it: no         *)
(* directory lists a name twice.                                           *)
(*                                                                         *)
(* FInv adds to NInv that no entry lies in a file, so that a write which   *)
(* fits its cluster destroys none.                                         *)
(*                                                                         *)
(* AInv, LInv and FInv with more, is the invariant of clients that look    *)
(* names up and write at the end: a cluster that is not in use is blank,   *)
(* one that is in use belongs to some head, each entry to some directory;  *)
(* a file's chain has just as many clusters as its size takes; and cluster *)
(* 0 is given out by a full volume only. None of its three theorems is     *)
(* inductive by itself: that an append finds its cluster follows from what *)
(* the chain has room for, that a new cluster is blank from nothing having *)
(* been written outside of chains, and that only a full volume is wrecked  *)
(* from the growth of a chain being the one step that can meet cluster 0.  *)
(***************************************************************************)
EXTENDS Mfs, FiniteSetTheorems, TLAPS

-----------------------------------------------------------------------------
(* Induction on numbers, with sets of numbers in place of predicates.      *)

(* A set of numbers that is not empty has a least element.                 *)
LEMMA LeastNumber ==
  ASSUME NEW T \in SUBSET Nat, T # {}
  PROVE  \E m \in T : \A k \in T : m <= k
<1> DEFINE R == OpToRel(<, Nat)
<1>1. \A x, y \in Nat : x < y => <<x, y>> \in R
  BY DEF OpToRel
<1>2. PICK x \in T : \A y \in T : ~(<<y, x>> \in R)
  BY NatLessThanWellFounded, WFMin, Zenon
<1> HIDE DEF R
<1>3. ASSUME NEW k \in T, ~ (x <= k) PROVE FALSE
  <2>1. k < x
    BY <1>3
  <2> QED
    BY <1>1, <1>2, <2>1
<1> QED
  BY <1>3

(* Induction: a set that holds 0, and the successor of each number in it,  *)
(* holds every number.                                                     *)
LEMMA Induction ==
  ASSUME NEW T, 0 \in T, \A n \in Nat : n \in T => n + 1 \in T
  PROVE  \A n \in Nat : n \in T
<1> SUFFICES ASSUME NEW n \in Nat, n \notin T PROVE FALSE
  OBVIOUS
<1>1. PICK m \in Nat \ T : \A k \in Nat \ T : m <= k
  BY LeastNumber
<1>2. m # 0 /\ m - 1 \in Nat /\ m - 1 \in T
  BY <1>1
<1> QED
  BY <1>1, <1>2

-----------------------------------------------------------------------------
(* The walk.                                                               *)

(* There is a function that satisfies the equation that defines Walk.      *)
LEMMA WalkDef ==
  ASSUME NEW f, NEW h
  PROVE  Walk(f, h) = [k \in 0..MaxIndex |-> IF k = 0 THEN h
                                             ELSE After(f, Walk(f, h)[k - 1])]
<1> DEFINE Good(n) == \E g : g = [k \in 0..n |-> IF k = 0 THEN h ELSE After(f, g[k - 1])]
           T == {n \in Nat : Good(n)}
<1>1. 0 \in T
  <2> DEFINE g == [k \in 0..0 |-> h]
  <2>1. g = [k \in 0..0 |-> IF k = 0 THEN h ELSE After(f, g[k - 1])]
    OBVIOUS
  <2> QED
    BY <2>1
<1>2. ASSUME NEW n \in Nat, n \in T PROVE n + 1 \in T
  <2>1. PICK g : g = [k \in 0..n |-> IF k = 0 THEN h ELSE After(f, g[k - 1])]
    BY <1>2
  <2> DEFINE e == [k \in 0..(n + 1) |-> IF k <= n THEN g[k] ELSE After(f, g[n])]
  <2>2. ASSUME NEW k \in 0..(n + 1)
        PROVE  e[k] = IF k = 0 THEN h ELSE After(f, e[k - 1])
    <3>1. CASE k = 0
      BY <3>1, <2>1
    <3>2. CASE k # 0 /\ k <= n
      <4>1. k \in 0..n /\ k - 1 \in 0..(n + 1) /\ k - 1 <= n
        BY <3>2
      <4>2. g[k] = After(f, g[k - 1])
        BY <2>1, <3>2, <4>1
      <4> QED
        BY <3>2, <4>1, <4>2
    <3>3. CASE k = n + 1
      <4>1. k - 1 \in 0..(n + 1) /\ k - 1 = n /\ k # 0 /\ ~ (k <= n)
        BY <3>3
      <4> QED
        BY <4>1
    <3> QED
      BY <3>1, <3>2, <3>3
  <2>3. e = [k \in 0..(n + 1) |-> IF k = 0 THEN h ELSE After(f, e[k - 1])]
    BY <2>2
  <2>4. Good(n + 1)
    BY <2>3
  <2> QED
    BY <2>4
<1>3. Good(MaxIndex)
  <2> HIDE DEF Good
  <2>1. MaxIndex \in T
    BY <1>1, <1>2, Induction, FatAssumption
  <2> QED
    BY <2>1
<1> QED
  BY <1>3 DEF Walk

(* One step of a walk.                                                     *)
LEMMA WalkStep ==
  ASSUME NEW f, NEW h
  PROVE  /\ Walk(f, h)[0] = h
         /\ \A k \in 1..MaxIndex : Walk(f, h)[k] = After(f, Walk(f, h)[k - 1])
         /\ \A k \in 0..(MaxIndex - 1) : Walk(f, h)[k + 1] = After(f, Walk(f, h)[k])
<1> DEFINE w == Walk(f, h)
<1>1. w = [k \in 0..MaxIndex |-> IF k = 0 THEN h ELSE After(f, w[k - 1])]
  BY WalkDef
<1> HIDE DEF w
<1>2. w[0] = h
  BY <1>1, FatAssumption
<1>3. \A k \in 1..MaxIndex : w[k] = After(f, w[k - 1])
  BY <1>1, FatAssumption
<1>4. ASSUME NEW k \in 0..(MaxIndex - 1) PROVE w[k + 1] = After(f, w[k])
  <2>1. k + 1 \in 1..MaxIndex /\ (k + 1) - 1 = k
    BY FatAssumption
  <2> QED
    BY <1>3, <2>1
<1> QED
  BY <1>2, <1>3, <1>4 DEF w

(* The step from a cluster of the table, and the step past the end.        *)
LEMMA AfterCluster ==
  ASSUME NEW f
  PROVE  /\ \A c \in Cluster : After(f, c) = f[c]
         /\ After(f, EndMark) = EndMark
         /\ EndMark \notin Cluster /\ EndMark # 0 /\ EndMark \notin Index
BY FatAssumption DEF After, read_fat_index, Cluster, Index

(* A walk reads clusters of the table, or has come to the end.             *)
LEMMA WalkTyped ==
  ASSUME NEW f \in Table, NEW h \in Cluster
  PROVE  \A k \in 0..MaxIndex : Walk(f, h)[k] \in Cluster \cup {EndMark}
<1> DEFINE w == Walk(f, h)
           T == {k \in Nat : k <= MaxIndex => w[k] \in Cluster \cup {EndMark}}
<1>1. 0 \in T
  BY WalkStep
<1>2. ASSUME NEW k \in Nat, k \in T PROVE k + 1 \in T
  <2> SUFFICES ASSUME k + 1 <= MaxIndex PROVE w[k + 1] \in Cluster \cup {EndMark}
    OBVIOUS
  <2>1. k \in 0..(MaxIndex - 1) /\ w[k] \in Cluster \cup {EndMark}
    BY <1>2, FatAssumption
  <2>2. w[k + 1] = After(f, w[k])
    BY <2>1, WalkStep
  <2> QED
    BY <2>1, <2>2, AfterCluster DEF Table
<1> HIDE DEF w
<1>3. \A k \in Nat : k \in T
  BY <1>1, <1>2, Induction
<1> QED
  BY <1>3, FatAssumption DEF w

(* Once at the end, a walk stays there.                                    *)
LEMMA WalkStaysAtEnd ==
  ASSUME NEW f, NEW h, NEW j \in 0..MaxIndex, Walk(f, h)[j] = EndMark
  PROVE  \A k \in j..MaxIndex : Walk(f, h)[k] = EndMark
<1> DEFINE w == Walk(f, h)
           T == {n \in Nat : j + n <= MaxIndex => w[j + n] = EndMark}
<1>1. 0 \in T
  OBVIOUS
<1>2. ASSUME NEW n \in Nat, n \in T PROVE n + 1 \in T
  <2> SUFFICES ASSUME j + (n + 1) <= MaxIndex PROVE w[j + (n + 1)] = EndMark
    OBVIOUS
  <2>1. j + n \in 0..(MaxIndex - 1) /\ w[j + n] = EndMark /\ j + (n + 1) = (j + n) + 1
    BY <1>2, FatAssumption
  <2> QED
    BY <2>1, WalkStep, AfterCluster
<1> HIDE DEF w
<1>3. \A n \in Nat : n \in T
  BY <1>1, <1>2, Induction
<1>4. ASSUME NEW k \in j..MaxIndex PROVE w[k] = EndMark
  <2>1. k - j \in T /\ j + (k - j) = k
    BY <1>3, FatAssumption
  <2> QED
    BY <2>1, FatAssumption
<1> QED
  BY <1>4 DEF w

-----------------------------------------------------------------------------
(* Lemmas about the operators.                                             *)

(* find_empty_fat_index returns an unused index, or 0.                     *)
LEMMA FoundIsUnused ==
  ASSUME NEW f, NEW i \in find_empty_fat_index(f)
  PROVE  i \in Cluster /\ (i # 0 => i \in Index /\ f[i] = 0)
BY DEF find_empty_fat_index, Probed, Cluster, Index

(* Writing a FAT entry keeps the table a table.                            *)
LEMMA WriteKeepsTable ==
  ASSUME NEW f \in Table, NEW i, NEW v \in Cluster \cup {EndMark}
  PROVE  write_in_fat_index(f, i, v) \in Table
BY DEF write_in_fat_index, Table

(* A chain that has grown leaves the table a table.                        *)
LEMMA ExtendedIsTable ==
  ASSUME NEW f \in Table, NEW tail, NEW new \in Cluster
  PROVE  Extended(f, tail, new) \in Table
BY WriteKeepsTable DEF Extended

(* A search finds only what it looks for.                                  *)
LEMMA SearchIsSound ==
  ASSUME NEW f, NEW d, NEW S
  PROVE  FirstOnChain(f, d, S) \subseteq S
BY DEF FirstOnChain

(* A file entry found by name is a directory entry on the disk.            *)
LEMMA FoundIsEntry ==
  ASSUME TypeOK, NEW f, NEW d, NEW n, NEW a \in get_dentry(f, disk, d, n)
  PROVE  a \in Addr /\ disk[a] \in Dirents /\ a \in EntryAddrs
<1>1. a \in Named(disk, {"file"}, n)
  BY SearchIsSound DEF get_dentry
<1>2. a \in Addr /\ disk[a].attr = "file" /\ disk[a] \in Slot
  BY <1>1 DEF Named, TypeOK
<1>3. disk[a] \in Dirents
  BY <1>2 DEF Slot, Blank, Datum
<1> QED
  BY <1>2, <1>3 DEF EntryAddrs, FileOrDir

(* The length a call settles on, when it is a length, is at most that of   *)
(* the buffer.                                                             *)
LEMMA ValidLenFits ==
  ASSUME NEW len \in Nat, NEW co \in 0..(CS - 1), valid_len(len, co) >= 0
  PROVE  valid_len(len, co) \in Nat /\ valid_len(len, co) <= len
BY MfsAssumption DEF valid_len

-----------------------------------------------------------------------------
(* Type correctness.                                                       *)

(* The formatted volume has the types.                                     *)
LEMMA InitTypeOK == Init => TypeOK
BY FatAssumption DEF Init, TypeOK, FormattedFat, Table, Cluster, RootCluster, Slot

(* What a new directory entry may be, and that putting it on the disk      *)
(* keeps the types.                                                        *)
LEMMA AllocTyped ==
  ASSUME TypeOK, NEW f \in Table, NEW d, NEW de \in Dirents,
         alloc_new_dirent(f, d, de)
  PROVE  TypeOK'
<1>1. CASE /\ fat' = f
           /\ \E a \in FirstOnChain(f, d, Free(disk)) : disk' = [disk EXCEPT ![a] = de]
           /\ UNCHANGED status
  BY <1>1 DEF TypeOK, Slot
<1>2. CASE \E tail \in Cluster, new \in find_empty_fat_index(f) :
             /\ fat' = Extended(f, tail, new)
             /\ IF new = 0 THEN Wreck
                ELSE /\ disk' = [disk EXCEPT ![Base(new)] = de]
                     /\ UNCHANGED status
  <2>1. PICK tail \in Cluster, new \in find_empty_fat_index(f) :
          /\ fat' = Extended(f, tail, new)
          /\ IF new = 0 THEN Wreck
             ELSE /\ disk' = [disk EXCEPT ![Base(new)] = de]
                  /\ UNCHANGED status
    BY <1>2
  <2>2. fat' \in Table
    BY <2>1, FoundIsUnused, ExtendedIsTable
  <2> QED
    BY <2>1, <2>2 DEF TypeOK, Slot, Wreck
<1> QED
  BY <1>1, <1>2 DEF alloc_new_dirent

(* mfs_create and mfs_mkdir keep the types.                                *)
LEMMA MakeTyped ==
  ASSUME TypeOK, NEW p, NEW n \in Names, NEW attr \in FileOrDir, Make(p, n, attr)
  PROVE  TypeOK'
<1>1. PICK head \in find_empty_fat_index(fat) :
        LET f == write_in_fat_index(fat, head, EndMark)
            d == get_cluster_number(fat, disk, p)
        IN  IF d = 0 THEN fat' = f /\ Wreck
            ELSE alloc_new_dirent(f, d, Dirent(attr, n, head, 0))
  BY DEF Make
<1> DEFINE f == write_in_fat_index(fat, head, EndMark)
           d == get_cluster_number(fat, disk, p)
<1>2. f \in Table
  BY WriteKeepsTable DEF TypeOK
<1>3. Dirent(attr, n, head, 0) \in Dirents
  BY FoundIsUnused DEF Dirent, Dirents
<1>4. CASE d = 0
  BY <1>1, <1>2, <1>4 DEF TypeOK, Wreck
<1>5. CASE d # 0
  <2>1. alloc_new_dirent(f, d, Dirent(attr, n, head, 0))
    BY <1>1, <1>5
  <2> QED
    BY <2>1, <1>2, <1>3, AllocTyped
<1> QED
  BY <1>4, <1>5

(* Storing a buffer keeps the disk a function from addresses to slots.     *)
LEMMA StoreTyped ==
  ASSUME TypeOK, NEW f, NEW d, NEW de \in Dirents, NEW c \in Cluster,
         NEW co \in 0..(CS - 1), NEW buf \in Buffers, Store(f, d, de, c, co, buf)
  PROVE  disk' \in [Addr -> Slot] /\ status' \in {"ok", "wrecked"}
<1> DEFINE vlen == valid_len(Len(buf), co)
           pos == Base(c) + co
           dk == [a \in Addr |-> IF a \in pos..(pos + vlen - 1)
                                 THEN Datum(buf[a - pos + 1]) ELSE disk[a]]
           new == [de EXCEPT !.size = @ + vlen]
<1>1. CASE c = 0 \/ vlen < 0
  BY <1>1 DEF Store, Wreck, TypeOK
<1>2. CASE ~(c = 0 \/ vlen < 0)
  <2>1. PICK k \in 1..MaxLen : buf \in [1..k -> Data]
    BY DEF Buffers
  <2>2. Len(buf) = k /\ k \in Nat /\ buf \in Seq(Data)
    BY <2>1, MfsAssumption
  <2>3. vlen \in Nat /\ vlen <= k
    <3>1. vlen \in Int
      BY <2>2, MfsAssumption DEF valid_len
    <3> QED
      BY <1>2, <2>2, <3>1, ValidLenFits
  <2>4. pos \in Int
    BY MfsAssumption, FatAssumption DEF Base, Cluster, Index
  <2>5. dk \in [Addr -> Slot]
    <3>1. ASSUME NEW a \in Addr PROVE dk[a] \in Slot
      <4>1. CASE a \in pos..(pos + vlen - 1)
        <5>1. a \in Int
          BY MfsAssumption, FatAssumption DEF Addr
        <5>2. a - pos + 1 \in 1..k
          BY <4>1, <5>1, <2>3, <2>4
        <5> QED
          BY <4>1, <5>2, <2>1 DEF Slot
      <4>2. CASE a \notin pos..(pos + vlen - 1)
        BY <4>2 DEF TypeOK
      <4> QED
        BY <4>1, <4>2
    <3> QED
      BY <3>1
  <2>6. new \in Dirents
    BY <2>3 DEF Dirents
  <2>7. disk' = alloc_new_entry(f, dk, d, de.name, new) /\ UNCHANGED status
    BY <1>2 DEF Store
  <2> QED
    BY <2>5, <2>6, <2>7 DEF alloc_new_entry, TypeOK, Slot
<1> QED
  BY <1>1, <1>2

(* A write of any length at any offset keeps the types.                    *)
LEMMA WriteFileTyped ==
  ASSUME TypeOK, NEW p, NEW n \in Names, NEW off \in Nat, NEW buf \in Buffers,
         WriteFile(p, n, off, buf)
  PROVE  TypeOK'
<1> DEFINE d == get_cluster_number(fat, disk, p)
<1>1. PICK a \in get_dentry(fat, disk, d, n) :
        WriteInChain(d, disk[a], off, buf) \/ WriteExtending(d, disk[a], off, buf)
  BY DEF WriteFile, WriteEntry
<1>2. disk[a] \in Dirents
  BY FoundIsEntry
<1>3. off % CS \in 0..(CS - 1)
  BY MfsAssumption
<1>4. CASE WriteInChain(d, disk[a], off, buf)
  <2>1. PICK c \in Cluster : Store(fat, d, disk[a], c, off % CS, buf) /\ UNCHANGED fat
    BY <1>4 DEF WriteInChain
  <2> QED
    BY <2>1, <1>2, <1>3, StoreTyped DEF TypeOK
<1>5. CASE WriteExtending(d, disk[a], off, buf)
  <2>1. PICK tail \in Cluster, new \in find_empty_fat_index(fat) :
          fat' = Extended(fat, tail, new) /\ Store(fat', d, disk[a], new, off % CS, buf)
    BY <1>5 DEF WriteExtending
  <2>2. new \in Cluster
    BY FoundIsUnused
  <2>3. fat' \in Table
    BY <2>1, <2>2, ExtendedIsTable DEF TypeOK
  <2>4. disk' \in [Addr -> Slot] /\ status' \in {"ok", "wrecked"}
    BY <2>1, <2>2, <1>2, <1>3, StoreTyped
  <2> QED
    BY <2>3, <2>4 DEF TypeOK
<1> QED
  BY <1>1, <1>4, <1>5

(* So does every step.                                                     *)
LEMMA NextTyped == TypeOK /\ [Next]_vars => TypeOK'
<1> SUFFICES ASSUME TypeOK, [Next]_vars PROVE TypeOK'
  OBVIOUS
<1>1. CASE Create
  BY <1>1, MakeTyped DEF Create, mfs_create, FileOrDir
<1>2. CASE Mkdir
  BY <1>2, MakeTyped DEF Mkdir, mfs_mkdir, FileOrDir
<1>3. CASE Write
  <2>1. PICK p \in Paths, n \in Names, off \in 0..MaxSize, buf \in Buffers :
          WriteFile(p, n, off, buf)
    BY <1>3 DEF Write
  <2> QED
    BY <2>1, WriteFileTyped, MfsAssumption
<1>4. CASE UNCHANGED vars
  BY <1>4 DEF vars, TypeOK
<1> QED
  BY <1>1, <1>2, <1>3, <1>4 DEF Next

(* The FAT, the data region and the status keep their types, whatever      *)
(* offsets and lengths clients use.                                        *)
THEOREM TypeCorrect == Spec => []TypeOK
BY InitTypeOK, NextTyped, PTL DEF Spec

-----------------------------------------------------------------------------
(* Chains are never merged.  ChainsApart is the invariant as a predicate   *)
(* of a FAT and the set of head clusters; the two lemmas that follow are   *)
(* the two ways the program changes a FAT.                                 *)

ChainsApart(f, H) == LinkedOnce(f) /\ LinkedInUse(f, H) /\ HeadsInUse(f, H)

(* Marking the index found as a new chain of one, with a new head.         *)
LEMMA MarkKeepsApart ==
  ASSUME NEW f \in Table, NEW H \in SUBSET Cluster, ChainsApart(f, H),
         NEW head \in find_empty_fat_index(f)
  PROVE  ChainsApart(write_in_fat_index(f, head, EndMark), H \cup {head})
<1> DEFINE g == write_in_fat_index(f, head, EndMark)
<1>1. head \in Cluster /\ (head # 0 => head \in Index /\ f[head] = 0)
  BY FoundIsUnused
<1>2. g \in Table /\ \A i \in Cluster : g[i] = IF i = head THEN EndMark ELSE f[i]
  BY <1>1, WriteKeepsTable DEF write_in_fat_index, Table
<1>3. EndMark \notin Cluster /\ EndMark # 0 /\ 0 \notin Index
  BY FatAssumption DEF Cluster, Index
<1>4. LinkedOnce(g)
  BY <1>1, <1>2, <1>3 DEF ChainsApart, LinkedOnce, Table
<1>5. LinkedInUse(g, H \cup {head})
  <2> SUFFICES ASSUME NEW i \in Cluster, g[i] \in Index
               PROVE  g[g[i]] # 0 /\ g[i] \notin H \cup {head}
    BY DEF LinkedInUse
  <2>1. i # head /\ g[i] = f[i] /\ f[i] \in Cluster
    BY <1>2, <1>3 DEF Cluster
  <2>2. f[f[i]] # 0 /\ f[i] \notin H
    BY <2>1 DEF ChainsApart, LinkedInUse
  <2>3. f[i] # head
    BY <2>1, <2>2, <1>1, <1>3
  <2> QED
    BY <2>1, <2>2, <2>3, <1>2
<1>6. HeadsInUse(g, H \cup {head})
  BY <1>1, <1>2, <1>3 DEF ChainsApart, HeadsInUse
<1> QED
  BY <1>4, <1>5, <1>6 DEF ChainsApart

(* Appending the index found to the chain that ends in tail.               *)
LEMMA ExtendKeepsApart ==
  ASSUME NEW f \in Table, NEW H \in SUBSET Cluster, ChainsApart(f, H),
         NEW tail \in Cluster, f[tail] = EndMark,
         NEW new \in find_empty_fat_index(f), new # 0
  PROVE  ChainsApart(Extended(f, tail, new), H)
<1> DEFINE g == Extended(f, tail, new)
<1>1. new \in Index /\ new \in Cluster /\ f[new] = 0
  BY FoundIsUnused
<1>2. EndMark \notin Cluster /\ EndMark # 0 /\ 0 \notin Index /\ EndMark \notin Index
  BY FatAssumption DEF Cluster, Index
<1>3. tail # new
  BY <1>1, <1>2
<1>4. \A i \in Cluster : g[i] = IF i = new THEN EndMark
                                ELSE IF i = tail THEN new ELSE f[i]
  BY <1>1, <1>3 DEF Extended, write_in_fat_index, Table
<1>5. \A i \in Cluster : f[i] # new
  BY <1>1 DEF ChainsApart, LinkedInUse
<1>6. new \notin H
  BY <1>1 DEF ChainsApart, HeadsInUse
<1>7. LinkedOnce(g)
  BY <1>1, <1>3, <1>4, <1>5 DEF ChainsApart, LinkedOnce
<1>8. LinkedInUse(g, H)
  <2> SUFFICES ASSUME NEW i \in Cluster, g[i] \in Index
               PROVE  g[g[i]] # 0 /\ g[i] \notin H
    BY DEF LinkedInUse
  <2>1. CASE i = tail
    BY <2>1, <1>1, <1>2, <1>3, <1>4, <1>6
  <2>2. CASE i # tail
    <3>1. g[i] = f[i] /\ f[i] \in Cluster
      BY <2>2, <1>2, <1>4 DEF Cluster
    <3>2. f[f[i]] # 0 /\ f[i] \notin H
      BY <3>1 DEF ChainsApart, LinkedInUse
    <3> QED
      BY <3>1, <3>2, <1>1, <1>2, <1>4
  <2> QED
    BY <2>1, <2>2
<1>9. HeadsInUse(g, H)
  BY <1>1, <1>2, <1>4 DEF ChainsApart, HeadsInUse
<1> QED
  BY <1>7, <1>8, <1>9 DEF ChainsApart

(* Fewer heads, fewer obligations.                                         *)
LEMMA FewerHeads ==
  ASSUME NEW f, NEW H, NEW G \in SUBSET H, ChainsApart(f, H)
  PROVE  ChainsApart(f, G)
BY DEF ChainsApart, LinkedInUse, HeadsInUse

IInv == TypeOK /\ NoMergedChains
AllHeads == Heads \cup {RootCluster}

(* The heads of the entries are clusters.                                  *)
LEMMA HeadsAreClusters == TypeOK => AllHeads \in SUBSET Cluster
<1> SUFFICES ASSUME TypeOK, NEW a \in EntryAddrs PROVE disk[a].head \in Cluster
  BY FatAssumption DEF AllHeads, Heads, RootCluster, Cluster, Index
<1>1. a \in Addr /\ disk[a] \in Slot /\ disk[a].attr \in {"file", "dir"}
  BY DEF EntryAddrs, TypeOK, FileOrDir
<1>2. disk[a] \in Dirents
  BY <1>1 DEF Slot, Blank, Datum
<1> QED
  BY <1>2 DEF Dirents

(* An entry with a head that is in use and has not been linked to is       *)
(* added; its directory may grow for it.                                   *)
LEMMA AllocKeepsApart ==
  ASSUME TypeOK, status = "ok", NEW f \in Table, NEW d, NEW de \in Dirents,
         ChainsApart(f, AllHeads \cup {de.head}), alloc_new_dirent(f, d, de)
  PROVE  NoMergedChains'
<1> DEFINE H == AllHeads \cup {de.head}
<1>1. H \in SUBSET Cluster
  BY HeadsAreClusters DEF Dirents
<1>2. ASSUME NEW a, disk' = [disk EXCEPT ![a] = de]
      PROVE  AllHeads' \in SUBSET H
  BY <1>2 DEF AllHeads, Heads, EntryAddrs, TypeOK
<1>3. ASSUME status' = "ok"
      PROVE  ChainsApart(fat', H) /\ \E a : disk' = [disk EXCEPT ![a] = de]
  <2>1. CASE /\ fat' = f
             /\ \E a \in FirstOnChain(f, d, Free(disk)) : disk' = [disk EXCEPT ![a] = de]
    BY <2>1
  <2>2. CASE \E tail \in Cluster, new \in find_empty_fat_index(f) :
               /\ f[tail] = EndMark
               /\ fat' = Extended(f, tail, new)
               /\ IF new = 0 THEN Wreck
                  ELSE disk' = [disk EXCEPT ![Base(new)] = de]
    <3>1. PICK tail \in Cluster, new \in find_empty_fat_index(f) :
               /\ f[tail] = EndMark
               /\ fat' = Extended(f, tail, new)
               /\ IF new = 0 THEN Wreck
                  ELSE disk' = [disk EXCEPT ![Base(new)] = de]
      BY <2>2
    <3>2. new # 0
      BY <3>1, <1>3 DEF Wreck
    <3> QED
      BY <3>1, <3>2, <1>1, ExtendKeepsApart
  <2> QED
    BY <2>1, <2>2 DEF alloc_new_dirent
<1>4. status' = "ok" => ChainsApart(fat', AllHeads')
  BY <1>2, <1>3, FewerHeads
<1> QED
  BY <1>4 DEF NoMergedChains, ChainsApart, AllHeads

(* mfs_create and mfs_mkdir merge no chains.                               *)
LEMMA MakeKeepsApart ==
  ASSUME IInv, status = "ok", NEW p, NEW n \in Names, NEW attr \in FileOrDir,
         Make(p, n, attr)
  PROVE  NoMergedChains'
<1>1. PICK head \in find_empty_fat_index(fat) :
        LET f == write_in_fat_index(fat, head, EndMark)
            d == get_cluster_number(fat, disk, p)
        IN  IF d = 0 THEN fat' = f /\ Wreck
            ELSE alloc_new_dirent(f, d, Dirent(attr, n, head, 0))
  BY DEF Make
<1> DEFINE f == write_in_fat_index(fat, head, EndMark)
           d == get_cluster_number(fat, disk, p)
           de == Dirent(attr, n, head, 0)
<1>2. f \in Table /\ de \in Dirents /\ de.head = head
  BY WriteKeepsTable, FoundIsUnused DEF IInv, TypeOK, Dirent, Dirents
<1>3. ChainsApart(f, AllHeads \cup {head})
  <2>1. ChainsApart(fat, AllHeads)
    BY DEF IInv, NoMergedChains, ChainsApart, AllHeads
  <2> QED
    BY <2>1, MarkKeepsApart, HeadsAreClusters DEF IInv, TypeOK
<1>4. CASE d = 0
  BY <1>1, <1>4 DEF Wreck, NoMergedChains
<1>5. CASE d # 0
  <2>1. alloc_new_dirent(f, d, de)
    BY <1>1, <1>5
  <2> QED
    BY <2>1, <1>2, <1>3, AllocKeepsApart DEF IInv
<1> QED
  BY <1>4, <1>5

(* A write adds no head: the entry it updates keeps its own.               *)
LEMMA StoreAddsNoHead ==
  ASSUME TypeOK, NEW f, NEW d, NEW b \in EntryAddrs, NEW c, NEW co, NEW buf,
         Store(f, d, disk[b], c, co, buf)
  PROVE  AllHeads' \in SUBSET AllHeads
<1> DEFINE de == disk[b]
           vlen == valid_len(Len(buf), co)
           pos == Base(c) + co
           dk == [a \in Addr |-> IF a \in pos..(pos + vlen - 1)
                                 THEN Datum(buf[a - pos + 1]) ELSE disk[a]]
           new == [de EXCEPT !.size = @ + vlen]
<1>1. CASE c = 0 \/ vlen < 0
  BY <1>1 DEF Store, Wreck, AllHeads, Heads, EntryAddrs
<1>2. CASE ~(c = 0 \/ vlen < 0)
  <2>1. disk' = alloc_new_entry(f, dk, d, de.name, new)
    BY <1>2 DEF Store
  <2>2. new.head = de.head
    <3>1. de \in Dirents
      BY DEF EntryAddrs, TypeOK, FileOrDir, Slot, Blank, Datum
    <3> QED
      BY <3>1 DEF Dirents
  <2>3. ASSUME NEW a \in Addr
        PROVE  disk'[a] \in {new, disk[a]} \/ disk'[a].attr = "data"
    BY <2>1 DEF alloc_new_entry, Datum
  <2>4. ASSUME NEW a \in Addr, disk'[a].attr \in FileOrDir
        PROVE  disk'[a].head \in Heads
    BY <2>2, <2>3, <2>4 DEF Heads, EntryAddrs, FileOrDir
  <2> QED
    BY <2>4 DEF AllHeads, Heads, EntryAddrs
<1> QED
  BY <1>1, <1>2

(* A write of any length at any offset merges no chains.                   *)
LEMMA WriteFileKeepsApart ==
  ASSUME IInv, NEW p, NEW n, NEW off, NEW buf, WriteFile(p, n, off, buf)
  PROVE  NoMergedChains'
<1> DEFINE d == get_cluster_number(fat, disk, p)
<1>1. PICK a \in get_dentry(fat, disk, d, n) :
        WriteInChain(d, disk[a], off, buf) \/ WriteExtending(d, disk[a], off, buf)
  BY DEF WriteFile, WriteEntry
<1>2. a \in EntryAddrs
  BY FoundIsEntry DEF IInv
<1>3. ChainsApart(fat, AllHeads)
  BY DEF IInv, NoMergedChains, ChainsApart, AllHeads, WriteFile, WriteEntry
<1>4. CASE WriteInChain(d, disk[a], off, buf)
  <2>1. AllHeads' \in SUBSET AllHeads /\ UNCHANGED fat
    BY <1>2, <1>4, StoreAddsNoHead DEF WriteInChain, IInv
  <2> QED
    BY <2>1, <1>3, FewerHeads DEF NoMergedChains, ChainsApart, AllHeads
<1>5. CASE WriteExtending(d, disk[a], off, buf)
  <2>1. PICK tail \in Cluster, new \in find_empty_fat_index(fat) :
          /\ fat[tail] = EndMark
          /\ fat' = Extended(fat, tail, new)
          /\ Store(fat', d, disk[a], new, off % CS, buf)
    BY <1>5 DEF WriteExtending
  <2>2. AllHeads' \in SUBSET AllHeads
    BY <2>1, <1>2, StoreAddsNoHead DEF IInv
  <2>3. ASSUME status' = "ok" PROVE ChainsApart(fat', AllHeads)
    <3>1. new # 0
      BY <2>1, <2>3 DEF Store, Wreck
    <3> QED
      BY <2>1, <3>1, <1>3, ExtendKeepsApart, HeadsAreClusters DEF IInv, TypeOK
  <2> QED
    BY <2>2, <2>3, FewerHeads DEF NoMergedChains, ChainsApart, AllHeads
<1> QED
  BY <1>1, <1>4, <1>5

(* The formatted volume satisfies the invariant.                           *)
LEMMA InitIInv == Init => IInv
<1> SUFFICES ASSUME Init PROVE NoMergedChains
  BY InitTypeOK DEF IInv
<1>1. Heads = {}
  BY DEF Init, Heads, EntryAddrs, Blank, FileOrDir
<1>2. RootCluster \in Cluster /\ EndMark # 0 /\ EndMark \notin Index
  BY FatAssumption DEF RootCluster, Cluster, Index
<1> QED
  BY <1>1, <1>2 DEF Init, NoMergedChains, LinkedOnce, LinkedInUse, HeadsInUse,
                   FormattedFat, Index

(* Every step keeps it.                                                    *)
LEMMA NextIInv == IInv /\ [Next]_vars => IInv'
<1> SUFFICES ASSUME IInv, [Next]_vars PROVE NoMergedChains'
  BY NextTyped DEF IInv
<1>1. CASE Create
  BY <1>1, MakeKeepsApart DEF Create, mfs_create, FileOrDir
<1>2. CASE Mkdir
  BY <1>2, MakeKeepsApart DEF Mkdir, mfs_mkdir, FileOrDir
<1>3. CASE Write
  BY <1>3, WriteFileKeepsApart DEF Write
<1>4. CASE UNCHANGED vars
  BY <1>4 DEF vars, IInv, NoMergedChains, Heads, EntryAddrs
<1> QED
  BY <1>1, <1>2, <1>3, <1>4 DEF Next

(* Chains are never merged: on a volume of any size, for clients that seek *)
(* anywhere and write any length, and also while it fills up.              *)
THEOREM ChainsNeverMerge == Spec => []NoMergedChains
BY InitIInv, NextIInv, PTL DEF Spec, IInv

-----------------------------------------------------------------------------
(* Clients that write at the end of their files are clients.               *)

(* A step of a client that looks its names up is a step of any client.     *)
LEMMA LookedUpIsNext == [NextLookedUp]_vars => [Next]_vars
BY DEF NextLookedUp, Next, CreateNew, MkdirNew, Create, Mkdir

(* A write at the end of a file is a write.                                *)
LEMMA AppendIsWrite ==
  ASSUME TypeOK, NEW p, NEW n, NEW buf \in Buffers, AppendFile(p, n, buf)
  PROVE  \E off \in 0..MaxSize : WriteFile(p, n, off, buf)
<1> DEFINE d == get_cluster_number(fat, disk, p)
<1>1. PICK a \in get_dentry(fat, disk, d, n) :
        status = "ok" /\ IsDir(fat, disk, p) /\ WriteEntry(d, a, disk[a].size, buf)
  BY DEF AppendFile
<1>2. disk[a].size \in 0..MaxSize
  <2>1. disk[a].size \in Nat
    BY FoundIsEntry DEF Dirents
  <2>2. Len(buf) \in Nat
    BY MfsAssumption DEF Buffers
  <2> QED
    BY <1>1, <2>1, <2>2, MfsAssumption DEF WriteEntry
<1>3. WriteFile(p, n, disk[a].size, buf)
  BY <1>1 DEF WriteFile
<1> QED
  BY <1>2, <1>3

(* So a client that writes at the end is one that writes anywhere.         *)
LEMMA AtEndIsLookedUp == TypeOK /\ [NextAtEnd]_vars => [NextLookedUp]_vars
BY AppendIsWrite DEF NextAtEnd, NextLookedUp, WriteAtEnd, Write

(* And so each of its steps is a step of any client.                       *)
LEMMA AtEndIsNext == TypeOK /\ [NextAtEnd]_vars => [Next]_vars
BY AtEndIsLookedUp, LookedUpIsNext

(* Everything proved of Spec holds for them too.                           *)
THEOREM AtEndIsAllowed == SpecAtEnd => Spec
BY InitTypeOK, NextTyped, AtEndIsNext, PTL DEF SpecAtEnd, Spec

-----------------------------------------------------------------------------
(* Chains of a FAT in which no two are merged.                             *)

(* The end mark and 0 are told from the indices.                           *)
LEMMA NotAnIndex == EndMark \notin Cluster /\ 0 \notin Index /\ EndMark \notin Index
BY FatAssumption DEF Index, Cluster

(* A walk that starts at a cluster in use passes over clusters in use.     *)
LEMMA WalkInUse ==
  ASSUME NEW f \in Table, NEW H, LinkedInUse(f, H), NEW h \in Cluster, f[h] # 0
  PROVE  \A k \in 0..MaxIndex :
           LET c == Walk(f, h)[k] IN
           c # EndMark => c \in Cluster /\ f[c] # 0 /\ (k # 0 => c \in Index)
<1> DEFINE w == Walk(f, h)
           Good(k) == w[k] # EndMark =>
                        w[k] \in Cluster /\ f[w[k]] # 0 /\ (k # 0 => w[k] \in Index)
           T == {k \in Nat : k <= MaxIndex => Good(k)}
<1>1. 0 \in T
  BY WalkStep
<1>2. ASSUME NEW k \in Nat, k \in T PROVE k + 1 \in T
  <2> SUFFICES ASSUME k + 1 <= MaxIndex, w[k + 1] # EndMark
               PROVE  w[k + 1] \in Index /\ f[w[k + 1]] # 0
    BY DEF Cluster
  <2>1. k \in 0..(MaxIndex - 1) /\ Good(k)
    BY <1>2, FatAssumption
  <2>2. w[k + 1] = After(f, w[k])
    BY <2>1, WalkStep
  <2> HIDE DEF w
  <2>3. w[k] # EndMark /\ w[k] \in Cluster /\ f[w[k]] # 0
    BY <2>1, <2>2, AfterCluster
  <2>4. w[k + 1] = f[w[k]] /\ f[w[k]] \in Cluster
    BY <2>2, <2>3, AfterCluster DEF Table
  <2>5. f[w[k]] \in Index
    BY <2>3, <2>4 DEF Cluster
  <2> QED
    BY <2>3, <2>4, <2>5 DEF LinkedInUse
<1> HIDE DEF w, Good
<1>3. \A k \in Nat : k \in T
  BY <1>1, <1>2, Induction
<1> QED
  BY <1>3, FatAssumption DEF w, Good

(* The step of such a walk to a cluster comes from the entry of another.   *)
LEMMA WalkBack ==
  ASSUME NEW f \in Table, NEW H, LinkedInUse(f, H), NEW h \in Cluster, f[h] # 0,
         NEW k \in 1..MaxIndex, Walk(f, h)[k] # EndMark
  PROVE  LET b == Walk(f, h)[k - 1] IN
         /\ b \in Cluster /\ b # EndMark
         /\ Walk(f, h)[k] = f[b] /\ f[b] \in Index
<1> DEFINE w == Walk(f, h)
<1>1. k - 1 \in 0..MaxIndex /\ k \in 0..MaxIndex /\ k # 0
  BY FatAssumption
<1>2. w[k] = After(f, w[k - 1])
  BY WalkStep
<1>3. w[k - 1] # EndMark
  BY <1>2, AfterCluster
<1>4. w[k - 1] \in Cluster
  BY <1>1, <1>3, WalkTyped
<1>5. w[k] \in Index
  BY <1>1, WalkInUse
<1> QED
  BY <1>2, <1>3, <1>4, <1>5, AfterCluster

(* A walk from a head meets no cluster twice.                              *)
LEMMA NoRepeat ==
  ASSUME NEW f \in Table, NEW H \in SUBSET Cluster, ChainsApart(f, H), NEW h \in H
  PROVE  \A j, k \in 0..MaxIndex :
           j < k /\ Walk(f, h)[j] = Walk(f, h)[k] => Walk(f, h)[j] = EndMark
<1> DEFINE w == Walk(f, h)
           Good(j) == \A k \in 0..MaxIndex : j < k /\ w[j] = w[k] => w[j] = EndMark
           T == {j \in Nat : Good(j)}
<1>1. LinkedInUse(f, H) /\ LinkedOnce(f) /\ h \in Cluster /\ f[h] # 0
  BY DEF ChainsApart, HeadsInUse
<1>2. ASSUME NEW k \in 1..MaxIndex, w[k] # EndMark
      PROVE  /\ w[k - 1] \in Cluster /\ w[k - 1] # EndMark
             /\ w[k] = f[w[k - 1]] /\ f[w[k - 1]] \in Index
  BY <1>1, <1>2, WalkBack
<1>3. w[0] = h
  BY WalkStep
<1> HIDE DEF w
<1>4. 0 \in T
  <2> SUFFICES ASSUME NEW k \in 0..MaxIndex, 0 < k, w[0] = w[k], w[k] # EndMark
               PROVE  FALSE
    OBVIOUS
  <2>1. k \in 1..MaxIndex
    OBVIOUS
  <2>2. w[k - 1] \in Cluster /\ w[k] = f[w[k - 1]] /\ f[w[k - 1]] \in Index
    BY <1>2, <2>1
  <2> QED
    BY <2>2, <1>1, <1>3 DEF LinkedInUse
<1>5. ASSUME NEW j \in Nat, j \in T PROVE j + 1 \in T
  <2> SUFFICES ASSUME NEW k \in 0..MaxIndex, j + 1 < k, w[j + 1] = w[k],
                      w[j + 1] # EndMark
               PROVE  FALSE
    OBVIOUS
  <2>1. j + 1 \in 1..MaxIndex /\ (j + 1) - 1 = j /\ k \in 1..MaxIndex
    BY FatAssumption
  <2>2. w[j] \in Cluster /\ w[j] # EndMark /\ w[j + 1] = f[w[j]] /\ f[w[j]] \in Index
    BY <1>2, <2>1
  <2>3. w[k - 1] \in Cluster /\ w[k] = f[w[k - 1]]
    BY <1>2, <2>1
  <2>4. w[j] = w[k - 1]
    <3>1. f[w[j]] = f[w[k - 1]] /\ f[w[j]] \notin {0, EndMark}
      BY <2>2, <2>3, NotAnIndex
    <3> QED
      BY <2>2, <2>3, <3>1, <1>1 DEF LinkedOnce
  <2>5. k - 1 \in 0..MaxIndex /\ j < k - 1
    BY <2>1, FatAssumption
  <2> QED
    BY <1>5, <2>2, <2>4, <2>5
<1> HIDE DEF Good
<1>6. \A j \in Nat : j \in T
  BY <1>4, <1>5, Induction
<1> QED
  BY <1>6, FatAssumption DEF Good, w

(* There are fewer clusters than steps in a walk, so it comes to its end.  *)
LEMMA WalkEnds ==
  ASSUME NEW f \in Table, NEW H \in SUBSET Cluster, ChainsApart(f, H), NEW h \in H
  PROVE  Ends(f, h)
<1> DEFINE w == Walk(f, h)
<1> SUFFICES ASSUME w[MaxIndex] # EndMark PROVE FALSE
  BY DEF Ends
<1>1. ASSUME NEW k \in 0..MaxIndex PROVE w[k] # EndMark
  BY WalkStaysAtEnd, FatAssumption
<1>2. \A k \in 0..MaxIndex : w[k] \in Cluster
  BY <1>1, WalkTyped
<1>3. \A j, k \in 0..MaxIndex : j < k /\ w[j] = w[k] => w[j] = EndMark
  BY NoRepeat
<1> HIDE DEF w
<1> DEFINE g == [k \in 0..MaxIndex |-> w[k]]
<1>4. g \in [0..MaxIndex -> Cluster]
  BY <1>2
<1>5. IsFiniteSet(0..MaxIndex) /\ Cardinality(0..MaxIndex) = MaxIndex + 1
  BY FS_Interval, FatAssumption
<1>6. IsFiniteSet(Cluster) /\ Cardinality(Cluster) = MaxIndex
  <2>1. IsFiniteSet(Index) /\ Cardinality(Index) = MaxIndex - 1
    BY FS_Interval, FatAssumption DEF Index
  <2>2. Cluster = Index \cup {0} /\ 0 \notin Index
    BY DEF Cluster, Index
  <2> QED
    BY <2>1, <2>2, FS_AddElement, FatAssumption
<1>7. Cardinality(Cluster) < Cardinality(0..MaxIndex)
  BY <1>5, <1>6, FatAssumption
<1> HIDE DEF g
<1>8. PICK x, y \in 0..MaxIndex : x # y /\ g[x] = g[y]
  <2> DEFINE S == 0..MaxIndex
  <2> HIDE DEF S
  <2>1. g \in [S -> Cluster] /\ IsFiniteSet(S) /\ Cardinality(Cluster) < Cardinality(S)
    BY <1>4, <1>5, <1>7 DEF S
  <2>2. \E x, y \in S : x # y /\ g[x] = g[y]
    BY <2>1, <1>6, FS_PigeonHole
  <2> QED
    BY <2>2 DEF S
<1> USE DEF g
<1>9. x < y \/ y < x
  BY <1>8, FatAssumption
<1> QED
  BY <1>1, <1>3, <1>8, <1>9

(* Walks from two heads have no cluster in common.                         *)
LEMMA HeadsApart ==
  ASSUME NEW f \in Table, NEW H \in SUBSET Cluster, ChainsApart(f, H),
         NEW h \in H, NEW g \in H, h # g
  PROVE  Chain(f, h) \cap Chain(f, g) = {}
<1> DEFINE v == Walk(f, h)
           w == Walk(f, g)
           Good(j) == \A k \in 0..MaxIndex : v[j] = w[k] => w[k] = EndMark
           T == {j \in Nat : j <= MaxIndex => Good(j)}
<1>1. LinkedInUse(f, H) /\ LinkedOnce(f) /\ h \in Cluster /\ g \in Cluster
      /\ f[h] # 0 /\ f[g] # 0
  BY DEF ChainsApart, HeadsInUse
<1>2. ASSUME NEW k \in 1..MaxIndex, v[k] # EndMark
      PROVE  /\ v[k - 1] \in Cluster /\ v[k - 1] # EndMark
             /\ v[k] = f[v[k - 1]] /\ f[v[k - 1]] \in Index
  BY <1>1, <1>2, WalkBack
<1>3. ASSUME NEW k \in 1..MaxIndex, w[k] # EndMark
      PROVE  /\ w[k - 1] \in Cluster /\ w[k - 1] # EndMark
             /\ w[k] = f[w[k - 1]] /\ f[w[k - 1]] \in Index
  BY <1>1, <1>3, WalkBack
<1>4. v[0] = h /\ w[0] = g
  BY WalkStep
<1>5. Chain(f, h) = {v[k] : k \in 0..MaxIndex} \ {EndMark}
      /\ Chain(f, g) = {w[k] : k \in 0..MaxIndex} \ {EndMark}
  BY DEF Chain
<1> HIDE DEF v, w
<1>6. 0 \in T
  <2> SUFFICES ASSUME NEW k \in 0..MaxIndex, h = w[k], w[k] # EndMark PROVE FALSE
    BY <1>4
  <2>1. k \in 1..MaxIndex
    BY <1>4
  <2>2. w[k - 1] \in Cluster /\ h = f[w[k - 1]] /\ h \in Index
    BY <1>3, <2>1
  <2> QED
    BY <2>2, <1>1 DEF LinkedInUse
<1>7. ASSUME NEW j \in Nat, j \in T PROVE j + 1 \in T
  <2> SUFFICES ASSUME j + 1 <= MaxIndex, NEW k \in 0..MaxIndex,
                      v[j + 1] = w[k], w[k] # EndMark
               PROVE  FALSE
    OBVIOUS
  <2>1. j + 1 \in 1..MaxIndex /\ (j + 1) - 1 = j /\ j <= MaxIndex
    BY FatAssumption
  <2>2. v[j] \in Cluster /\ v[j] # EndMark /\ v[j + 1] = f[v[j]] /\ f[v[j]] \in Index
    BY <1>2, <2>1
  <2>3. CASE k = 0
    BY <2>2, <2>3, <1>1, <1>4 DEF LinkedInUse
  <2>4. CASE k # 0
    <3>1. k \in 1..MaxIndex /\ k - 1 \in 0..MaxIndex
      BY <2>4, FatAssumption
    <3>2. w[k - 1] \in Cluster /\ w[k] = f[w[k - 1]] /\ w[k - 1] # EndMark
      BY <1>3, <3>1
    <3>3. v[j] = w[k - 1]
      <4>1. f[v[j]] = f[w[k - 1]] /\ f[v[j]] \notin {0, EndMark}
        BY <2>2, <3>2, NotAnIndex
      <4> QED
        BY <2>2, <3>2, <4>1, <1>1 DEF LinkedOnce
    <3> QED
      BY <1>7, <2>1, <3>1, <3>2, <3>3
  <2> QED
    BY <2>3, <2>4
<1> HIDE DEF Good
<1>8. \A j \in Nat : j \in T
  BY <1>6, <1>7, Induction
<1>9. \A j, k \in 0..MaxIndex : v[j] = w[k] => w[k] = EndMark
  BY <1>8, FatAssumption DEF Good
<1> QED
  BY <1>5, <1>9

-----------------------------------------------------------------------------
(* Positions: k counts the slots of a directory along its chain.           *)

(* Offsets: the cluster of a chain and the slot in it.                     *)
LEMMA DivMod ==
  ASSUME NEW k \in Nat
  PROVE  /\ k \div CS \in Nat /\ k % CS \in 0..(CS - 1)
         /\ k = CS * (k \div CS) + (k % CS)
BY MfsAssumption

(* An offset has one cluster and one slot.                                 *)
LEMMA DivUnique ==
  ASSUME NEW q \in Nat, NEW r \in 0..(CS - 1)
  PROVE  (q * CS + r) \div CS = q /\ (q * CS + r) % CS = r
BY MfsAssumption

(* A later offset lies in no earlier cluster.                              *)
LEMMA DivMonotone ==
  ASSUME NEW j \in Nat, NEW k \in Nat, j <= k
  PROVE  j \div CS <= k \div CS
BY MfsAssumption

Positions == 0..(MaxIndex * CS - 1)

(* The positions a search looks at lie within MaxIndex clusters.           *)
LEMMA PositionTyped ==
  ASSUME NEW k \in Positions
  PROVE  /\ k \in Nat /\ k \div CS \in 0..(MaxIndex - 1) /\ k \div CS \in 0..MaxIndex
         /\ k % CS \in 0..(CS - 1)
<1>1. k \in Nat /\ k < MaxIndex * CS
  BY MfsAssumption, FatAssumption DEF Positions
<1> QED
  BY <1>1, MfsAssumption, FatAssumption

(* The cluster of a slot and its place in the cluster.                     *)
LEMMA SlotOfCluster ==
  ASSUME NEW c \in Index, NEW r \in 0..(CS - 1)
  PROVE  /\ Base(c) + r \in Addr
         /\ (Base(c) + r) \div CS + 2 = c /\ (Base(c) + r) % CS = r
<1>1. c - 2 \in Nat /\ c - 2 <= MaxIndex - 2 /\ c = (c - 2) + 2
  BY FatAssumption DEF Index
<1>2. (c - 2) * CS <= (MaxIndex - 2) * CS /\ (c - 2) * CS >= 0
  BY <1>1, MfsAssumption, FatAssumption
<1>3. (MaxIndex - 2) * CS + CS <= MaxIndex * CS
  BY MfsAssumption, FatAssumption
<1>4. (c - 2) * CS \in Nat /\ (MaxIndex - 2) * CS \in Nat /\ MaxIndex * CS \in Nat
  BY <1>1, MfsAssumption, FatAssumption
<1>5. (c - 2) * CS + r \in 0..(MaxIndex * CS - 1)
  BY <1>2, <1>3, <1>4, MfsAssumption
<1> QED
  BY <1>1, <1>5, DivUnique DEF Base, Addr

(* Each address of the data region lies in one cluster, which has it in    *)
(* the range its base begins.                                              *)
LEMMA ClusterOfSlot ==
  ASSUME NEW a \in Addr
  PROVE  /\ a \in Nat /\ a \div CS + 2 \in Nat \ {0} /\ a % CS \in 0..(CS - 1)
         /\ a = Base(a \div CS + 2) + (a % CS)
<1>1. a \in Nat
  BY MfsAssumption, FatAssumption DEF Addr
<1>2. a \div CS \in Nat /\ a % CS \in 0..(CS - 1) /\ a = CS * (a \div CS) + (a % CS)
  BY <1>1, DivMod
<1>3. a = (a \div CS + 2 - 2) * CS + (a % CS)
  BY <1>2, MfsAssumption
<1> QED
  BY <1>1, <1>2, <1>3 DEF Base

-----------------------------------------------------------------------------
(* Searches.                                                               *)

SlotAt(f, d, k) == Base(Walk(f, d)[k \div CS]) + (k % CS)
HitsOn(f, d, S) ==
  {k \in Positions : Walk(f, d)[k \div CS] \notin {0, EndMark} /\ SlotAt(f, d, k) \in S}

(* A search returns the slot of the least position that is a hit.          *)
LEMMA SearchDef ==
  ASSUME NEW f, NEW d, NEW S
  PROVE  FirstOnChain(f, d, S) =
           {SlotAt(f, d, k) : k \in {h \in HitsOn(f, d, S) : \A j \in HitsOn(f, d, S) : h <= j}}
BY DEF FirstOnChain, SlotAt, HitsOn, Positions

(* A search returns what the least hit stands for.                         *)
LEMMA SearchResult ==
  ASSUME NEW f, NEW d, NEW S, NEW a \in FirstOnChain(f, d, S)
  PROVE  \E k \in HitsOn(f, d, S) :
           a = SlotAt(f, d, k) /\ \A j \in HitsOn(f, d, S) : k <= j
BY SearchDef

(* A search has one result at most.                                        *)
LEMMA SearchFindsOne ==
  ASSUME NEW f, NEW d, NEW S, NEW a \in FirstOnChain(f, d, S),
         NEW b \in FirstOnChain(f, d, S)
  PROVE  a = b
<1>1. PICK j \in HitsOn(f, d, S) : a = SlotAt(f, d, j) /\ \A i \in HitsOn(f, d, S) : j <= i
  BY SearchResult
<1>2. PICK k \in HitsOn(f, d, S) : b = SlotAt(f, d, k) /\ \A i \in HitsOn(f, d, S) : k <= i
  BY SearchResult
<1>3. j \in Nat /\ k \in Nat
  BY PositionTyped DEF HitsOn
<1> QED
  BY <1>1, <1>2, <1>3

(* When there is a hit, the search finds one.                              *)
LEMMA SearchFinds ==
  ASSUME NEW f, NEW d, NEW S, HitsOn(f, d, S) # {}
  PROVE  FirstOnChain(f, d, S) # {}
<1>1. HitsOn(f, d, S) \in SUBSET Nat
  BY PositionTyped DEF HitsOn
<1>2. PICK k \in HitsOn(f, d, S) : \A j \in HitsOn(f, d, S) : k <= j
  BY <1>1, LeastNumber
<1> QED
  BY <1>2, SearchDef

(* It finds slots of the chain only, ...                                   *)
LEMMA SearchOnChain ==
  ASSUME NEW f \in Table, NEW d \in Cluster, NEW S, NEW a \in FirstOnChain(f, d, S)
  PROVE  a \in Addr /\ a \div CS + 2 \in Index /\ a \div CS + 2 \in Chain(f, d)
<1>1. PICK k \in HitsOn(f, d, S) : a = SlotAt(f, d, k)
  BY SearchResult
<1> DEFINE c == Walk(f, d)[k \div CS]
<1>2. k \div CS \in 0..MaxIndex /\ k % CS \in 0..(CS - 1)
  BY PositionTyped DEF HitsOn
<1>3. c \in Index /\ c # EndMark
  <2>1. c \in Cluster \cup {EndMark}
    BY <1>2, WalkTyped
  <2> QED
    BY <2>1 DEF HitsOn, Cluster
<1>4. a \in Addr /\ a \div CS + 2 = c
  BY <1>1, <1>2, <1>3, SlotOfCluster DEF SlotAt
<1> QED
  BY <1>2, <1>3, <1>4 DEF Chain

(* ... and, in a chain that ends, none of them escapes it.                 *)
LEMMA SearchComplete ==
  ASSUME NEW f, NEW d, Ends(f, d), NEW S, NEW a \in Addr \cap S,
         a \div CS + 2 \in Chain(f, d)
  PROVE  FirstOnChain(f, d, S) # {}
<1>1. PICK k \in 0..MaxIndex : Walk(f, d)[k] = a \div CS + 2
  BY DEF Chain
<1>2. k # MaxIndex
  BY <1>1 DEF Ends, Chain
<1>3. k \in Nat /\ a % CS \in 0..(CS - 1)
  BY ClusterOfSlot
<1> DEFINE m == k * CS + (a % CS)
<1>4. m \in Positions
  <2>1. k <= MaxIndex - 1
    BY <1>2, FatAssumption
  <2>2. k * CS <= (MaxIndex - 1) * CS /\ k * CS >= 0
    BY <2>1, <1>3, MfsAssumption, FatAssumption
  <2> QED
    BY <2>2, <1>3, MfsAssumption, FatAssumption DEF Positions
<1>5. m \div CS = k /\ m % CS = a % CS
  BY <1>3, DivUnique
<1> HIDE DEF m
<1>6. SlotAt(f, d, m) = a
  BY <1>1, <1>5, ClusterOfSlot DEF SlotAt
<1>7. a \div CS + 2 # 0 /\ a \div CS + 2 # EndMark
  BY ClusterOfSlot DEF Chain
<1>8. m \in HitsOn(f, d, S)
  BY <1>1, <1>4, <1>5, <1>6, <1>7 DEF HitsOn
<1> QED
  BY <1>8, SearchFinds

(* What a search found it finds again in a smaller set that still has it,  *)
(* as long as the chain goes on the way it did.                            *)
KeepsWalk(f, g, d) ==
  \A k \in 0..MaxIndex : Walk(f, d)[k] # EndMark => Walk(g, d)[k] = Walk(f, d)[k]

(* What was found is found again, on a chain that has not lost a cluster,  *)
(* by a search for less.                                                   *)
LEMMA SearchAgain ==
  ASSUME NEW f, NEW g, NEW d, KeepsWalk(f, g, d),
         NEW S, NEW R \in SUBSET S, NEW a \in FirstOnChain(f, d, S), a \in R
  PROVE  FirstOnChain(g, d, R) = {a}
<1>1. PICK k \in HitsOn(f, d, S) : a = SlotAt(f, d, k) /\ \A j \in HitsOn(f, d, S) : k <= j
  BY SearchResult
<1>2. k \in Nat /\ k \in Positions /\ k \div CS \in 0..MaxIndex
  BY PositionTyped DEF HitsOn
<1>3. Walk(f, d)[k \div CS] # EndMark /\ Walk(f, d)[k \div CS] # 0
  BY DEF HitsOn
<1>4. k \in HitsOn(g, d, R) /\ a = SlotAt(g, d, k)
  BY <1>1, <1>2, <1>3 DEF HitsOn, SlotAt, KeepsWalk
<1>5. ASSUME NEW j \in HitsOn(g, d, R), j < k PROVE FALSE
  <2>1. j \in Nat /\ j \in Positions /\ j \div CS \in 0..MaxIndex
    BY PositionTyped DEF HitsOn
  <2>2. j \div CS <= k \div CS
    BY <2>1, <1>2, <1>5, DivMonotone
  <2>3. Walk(f, d)[j \div CS] # EndMark
    <3> SUFFICES ASSUME Walk(f, d)[j \div CS] = EndMark PROVE FALSE
      OBVIOUS
    <3>1. k \div CS \in (j \div CS)..MaxIndex
      BY <2>1, <2>2, <1>2, FatAssumption
    <3> QED
      BY <2>1, <3>1, <1>3, WalkStaysAtEnd
  <2>4. Walk(g, d)[j \div CS] = Walk(f, d)[j \div CS]
    BY <2>1, <2>3 DEF KeepsWalk
  <2>5. j \in HitsOn(f, d, S)
    BY <2>4 DEF HitsOn, SlotAt
  <2> QED
    BY <2>1, <2>5, <1>1, <1>2, <1>5
<1>6. \A j \in HitsOn(g, d, R) : k <= j
  <2>1. \A j \in HitsOn(g, d, R) : j \in Nat
    BY PositionTyped DEF HitsOn
  <2> QED
    BY <1>2, <1>5, <2>1
<1>7. a \in FirstOnChain(g, d, R)
  BY <1>4, <1>6, SearchDef
<1> QED
  BY <1>7, SearchFindsOne

(* A FAT that has not changed has the same walks.                          *)
LEMMA SameWalk == ASSUME NEW f, NEW d PROVE KeepsWalk(f, f, d)
BY DEF KeepsWalk

(* A search looks at nothing of the FAT but the walk.                      *)
LEMMA SameSearch ==
  ASSUME NEW f, NEW g, NEW d, Walk(f, d) = Walk(g, d), NEW S
  PROVE  FirstOnChain(f, d, S) = FirstOnChain(g, d, S)
BY DEF FirstOnChain

(* What is found among S and among T comes first in both of them.          *)
LEMMA SearchUnion ==
  ASSUME NEW f, NEW d, NEW S, NEW T, NEW a \in FirstOnChain(f, d, S),
         a \in FirstOnChain(f, d, T)
  PROVE  FirstOnChain(f, d, S \cup T) = {a}
<1>1. PICK j \in HitsOn(f, d, S) : a = SlotAt(f, d, j) /\ \A i \in HitsOn(f, d, S) : j <= i
  BY SearchResult
<1>2. PICK k \in HitsOn(f, d, T) : a = SlotAt(f, d, k) /\ \A i \in HitsOn(f, d, T) : k <= i
  BY SearchResult
<1>3. HitsOn(f, d, S \cup T) = HitsOn(f, d, S) \cup HitsOn(f, d, T)
  BY DEF HitsOn
<1>4. j \in HitsOn(f, d, T) /\ k \in HitsOn(f, d, S)
  BY <1>1, <1>2, SearchIsSound DEF HitsOn
<1>5. j \in Nat /\ k \in Nat
  BY PositionTyped DEF HitsOn
<1>6. j = k
  BY <1>1, <1>2, <1>4, <1>5
<1>7. a \in FirstOnChain(f, d, S \cup T)
  BY <1>1, <1>2, <1>3, <1>6, SearchDef
<1> QED
  BY <1>7, SearchFindsOne

ClusterOf(a) == a \div CS + 2

(* A slot that does not lie on the chain does not change what is found.    *)
LEMMA SearchIgnores ==
  ASSUME NEW f \in Table, NEW d \in Cluster, Ends(f, d), NEW S \in SUBSET Addr,
         NEW x \in Addr, ClusterOf(x) \notin Chain(f, d), NEW a \in FirstOnChain(f, d, S)
  PROVE  FirstOnChain(f, d, S \cup {x}) = {a}
<1>1. a \in Addr \cap (S \cup {x}) /\ a \div CS + 2 \in Chain(f, d)
  BY SearchOnChain, SearchIsSound
<1>2. PICK b : b \in FirstOnChain(f, d, S \cup {x})
  BY <1>1, SearchComplete
<1>3. b \in S \cup {x} /\ b \div CS + 2 \in Chain(f, d)
  BY <1>2, SearchOnChain, SearchIsSound
<1>4. b \in S
  BY <1>3 DEF ClusterOf
<1>5. FirstOnChain(f, d, S) = {b}
  <2>1. S \in SUBSET (S \cup {x}) /\ KeepsWalk(f, f, d)
    BY SameWalk
  <2> QED
    BY <1>2, <1>4, <2>1, SearchAgain
<1> QED
  BY <1>2, <1>5, SearchFindsOne

(* When the first slot of a cluster is among those looked for, no other    *)
(* slot of the cluster is found.                                           *)
LEMMA FirstInCluster ==
  ASSUME NEW f \in Table, NEW d \in Cluster, NEW S, NEW a \in FirstOnChain(f, d, S),
         Base(a \div CS + 2) \in S
  PROVE  a = Base(a \div CS + 2)
<1>1. PICK k \in HitsOn(f, d, S) : a = SlotAt(f, d, k) /\ \A j \in HitsOn(f, d, S) : k <= j
  BY SearchResult
<1> DEFINE q == k \div CS
           r == k % CS
           c == Walk(f, d)[q]
           m == q * CS + 0
<1>2. /\ k \in Nat /\ q \in 0..(MaxIndex - 1) /\ q \in 0..MaxIndex /\ r \in 0..(CS - 1)
      /\ k \in Positions /\ k = CS * q + r
  BY PositionTyped, DivMod DEF HitsOn
<1>3. c \in Index
  <2>1. c \in Cluster \cup {EndMark}
    BY <1>2, WalkTyped
  <2> QED
    BY <2>1 DEF HitsOn, Cluster
<1>4. a \div CS + 2 = c
  BY <1>1, <1>2, <1>3, SlotOfCluster DEF SlotAt
<1>5. m \in Nat /\ m <= k /\ m = k - r
  <2> HIDE DEF q, r
  <2> QED
    BY <1>2, MfsAssumption DEF m
<1>6. m \div CS = q /\ m % CS = 0
  <2>1. q \in Nat /\ 0 \in 0..(CS - 1)
    BY <1>2, MfsAssumption
  <2> HIDE DEF q
  <2> QED
    BY <2>1, DivUnique
<1>7. m \in Positions
  <2> HIDE DEF m, q, r
  <2>1. MaxIndex * CS \in Nat
    BY MfsAssumption, FatAssumption
  <2> QED
    BY <1>2, <1>5, <2>1 DEF Positions
<1>8. SlotAt(f, d, m) = Base(c) + 0 /\ Base(c) \in Int
  <2> HIDE DEF m
  <2>1. Walk(f, d)[m \div CS] = c
    BY <1>6
  <2>2. Base(c) \in Int
    BY <1>3, MfsAssumption, FatAssumption DEF Base, Index
  <2> HIDE DEF c, q
  <2> QED
    BY <1>6, <2>1, <2>2 DEF SlotAt
<1>9. m \in HitsOn(f, d, S)
  <2> HIDE DEF m
  <2>1. Walk(f, d)[m \div CS] = c
    BY <1>6
  <2>2. SlotAt(f, d, m) \in S
    BY <1>4, <1>8
  <2> QED
    BY <1>3, <1>7, <2>1, <2>2, NotAnIndex DEF HitsOn
<1>10. r = 0
  <2> HIDE DEF m, q, r
  <2> QED
    BY <1>1, <1>2, <1>5, <1>9, MfsAssumption
<1> QED
  <2>1. a = Base(c) + 0
    BY <1>1, <1>10 DEF SlotAt
  <2> HIDE DEF c
  <2> QED
    BY <2>1, <1>4, <1>8

-----------------------------------------------------------------------------
(* Walks after a change of the FAT.                                        *)

(* A chain goes on the way it did when the entries that change are at its  *)
(* end or not on it, ...                                                   *)
LEMMA WalkKept ==
  ASSUME NEW f \in Table, NEW g, NEW h \in Cluster,
         \A k \in 0..MaxIndex :
           LET c == Walk(f, h)[k] IN
           c \in Cluster /\ f[c] # EndMark => g[c] = f[c]
  PROVE  KeepsWalk(f, g, h)
<1> DEFINE w == Walk(f, h)
           v == Walk(g, h)
           Good(k) == w[k] # EndMark => v[k] = w[k]
           T == {k \in Nat : k <= MaxIndex => Good(k)}
<1>1. 0 \in T
  BY WalkStep
<1>2. ASSUME NEW k \in Nat, k \in T PROVE k + 1 \in T
  <2> SUFFICES ASSUME k + 1 <= MaxIndex, w[k + 1] # EndMark PROVE v[k + 1] = w[k + 1]
    OBVIOUS
  <2>1. k \in 0..(MaxIndex - 1) /\ k \in 0..MaxIndex /\ Good(k)
    BY <1>2, FatAssumption
  <2>2. w[k + 1] = After(f, w[k]) /\ v[k + 1] = After(g, v[k])
    BY <2>1, WalkStep
  <2>3. w[k] \in Cluster \cup {EndMark}
    BY <2>1, WalkTyped
  <2>4. w[k] \in Cluster => (f[w[k]] # EndMark => g[w[k]] = f[w[k]])
    BY <2>1
  <2> HIDE DEF v, w
  <2>5. w[k] \in Cluster /\ w[k] # EndMark /\ w[k + 1] = f[w[k]]
    BY <2>2, <2>3, AfterCluster
  <2> QED
    BY <2>1, <2>2, <2>4, <2>5, AfterCluster
<1> HIDE DEF v, w, Good
<1>3. \A k \in Nat : k \in T
  BY <1>1, <1>2, Induction
<1> QED
  BY <1>3, FatAssumption DEF KeepsWalk, v, w, Good

(* ... and is the chain it was when they are not on it.                    *)
LEMMA ChainKept ==
  ASSUME NEW f \in Table, NEW g, NEW h \in Cluster,
         \A c \in Chain(f, h) : g[c] = f[c]
  PROVE  Walk(g, h) = Walk(f, h) /\ Chain(g, h) = Chain(f, h)
<1> DEFINE w == Walk(f, h)
           v == Walk(g, h)
           T == {k \in Nat : k <= MaxIndex => v[k] = w[k]}
<1>1. 0 \in T
  BY WalkStep
<1>2. ASSUME NEW k \in Nat, k \in T PROVE k + 1 \in T
  <2> SUFFICES ASSUME k + 1 <= MaxIndex PROVE v[k + 1] = w[k + 1]
    OBVIOUS
  <2>1. k \in 0..(MaxIndex - 1) /\ k \in 0..MaxIndex /\ v[k] = w[k]
    BY <1>2, FatAssumption
  <2>2. w[k + 1] = After(f, w[k]) /\ v[k + 1] = After(g, v[k])
    BY <2>1, WalkStep
  <2>3. w[k] \in Cluster \cup {EndMark}
    BY <2>1, WalkTyped
  <2>4. w[k] # EndMark => g[w[k]] = f[w[k]]
    BY <2>1 DEF Chain
  <2> HIDE DEF v, w
  <2> QED
    BY <2>1, <2>2, <2>3, <2>4, AfterCluster
<1>3. v = [k \in 0..MaxIndex |-> v[k]] /\ w = [k \in 0..MaxIndex |-> w[k]]
  <2>1. v = [k \in 0..MaxIndex |-> IF k = 0 THEN h ELSE After(g, v[k - 1])]
    BY WalkDef
  <2>2. w = [k \in 0..MaxIndex |-> IF k = 0 THEN h ELSE After(f, w[k - 1])]
    BY WalkDef
  <2> HIDE DEF v, w
  <2> QED
    BY <2>1, <2>2
<1>4. v = w
  <2> HIDE DEF v, w
  <2>1. \A k \in Nat : k \in T
    BY <1>1, <1>2, Induction
  <2>2. \A k \in 0..MaxIndex : v[k] = w[k]
    BY <2>1, FatAssumption
  <2> QED
    BY <1>3, <2>2
<1> QED
  BY <1>4 DEF Chain

(* The clusters of a head's chain are in use, and no other head or         *)
(* unused cluster is among them.                                           *)
LEMMA ChainInUse ==
  ASSUME NEW f \in Table, NEW H \in SUBSET Cluster, ChainsApart(f, H), NEW h \in H
  PROVE  /\ h \in Chain(f, h)
         /\ \A c \in Chain(f, h) :
              /\ c \in Cluster /\ c # EndMark /\ f[c] # 0
              /\ c # h => c \in Index /\ c \notin H
<1> DEFINE w == Walk(f, h)
<1>1. LinkedInUse(f, H) /\ h \in Cluster /\ f[h] # 0
  BY DEF ChainsApart, HeadsInUse
<1>2. w[0] = h /\ h # EndMark /\ 0 \in 0..MaxIndex
  BY WalkStep, AfterCluster, FatAssumption
<1>3. h \in Chain(f, h)
  BY <1>2 DEF Chain
<1>4. ASSUME NEW c \in Chain(f, h)
      PROVE  /\ c \in Cluster /\ c # EndMark /\ f[c] # 0
             /\ c # h => c \in Index /\ c \notin H
  <2>1. PICK k \in 0..MaxIndex : w[k] = c /\ c # EndMark
    BY DEF Chain
  <2>2. c \in Cluster /\ f[c] # 0
    BY <2>1, <1>1, WalkInUse
  <2>3. ASSUME c # h PROVE c \in Index /\ c \notin H
    <3>1. k \in 1..MaxIndex
      BY <2>1, <2>3, <1>2, FatAssumption
    <3>2. w[k - 1] \in Cluster /\ c = f[w[k - 1]] /\ f[w[k - 1]] \in Index
      BY <2>1, <3>1, <1>1, WalkBack
    <3> QED
      BY <3>2, <1>1 DEF LinkedInUse
  <2> QED
    BY <2>1, <2>2, <2>3
<1> QED
  BY <1>3, <1>4

(* The shape of a head's chain: e clusters, all different, then the end.   *)
LEMMA ChainShape ==
  ASSUME NEW f \in Table, NEW H \in SUBSET Cluster, ChainsApart(f, H), NEW h \in H
  PROVE  \E e \in 1..MaxIndex :
           /\ \A k \in 0..(e - 1) : Walk(f, h)[k] \in Cluster
           /\ \A k \in e..MaxIndex : Walk(f, h)[k] = EndMark
           /\ Chain(f, h) = {Walk(f, h)[k] : k \in 0..(e - 1)}
           /\ f[Walk(f, h)[e - 1]] = EndMark
           /\ \A k \in 0..(e - 2) : f[Walk(f, h)[k]] # EndMark
           /\ \A j, k \in 0..(e - 1) : Walk(f, h)[j] = Walk(f, h)[k] => j = k
<1> DEFINE w == Walk(f, h)
           T == {k \in 0..MaxIndex : w[k] = EndMark}
<1>1. T \in SUBSET Nat /\ MaxIndex \in T
  BY WalkEnds, FatAssumption DEF Ends
<1>2. PICK e \in T : \A k \in T : e <= k
  BY <1>1, LeastNumber
<1>3. e \in 1..MaxIndex /\ w[e] = EndMark
  <2>1. w[0] # EndMark
    BY WalkStep, AfterCluster
  <2> QED
    BY <1>2, <2>1, FatAssumption
<1>4. \A k \in 0..(e - 1) : k \in 0..MaxIndex /\ w[k] # EndMark
  BY <1>2, <1>3, FatAssumption
<1>5. \A k \in 0..(e - 1) : w[k] \in Cluster
  BY <1>4, WalkTyped
<1>6. \A k \in e..MaxIndex : w[k] = EndMark
  BY <1>3, WalkStaysAtEnd, FatAssumption
<1>7. Chain(f, h) = {w[k] : k \in 0..(e - 1)}
  <2>1. Chain(f, h) = {w[k] : k \in 0..MaxIndex} \ {EndMark}
    BY DEF Chain
  <2>2. \A k \in 0..MaxIndex : k \in 0..(e - 1) \/ k \in e..MaxIndex
    BY <1>3, FatAssumption
  <2> HIDE DEF w
  <2> QED
    BY <2>1, <2>2, <1>4, <1>6
<1>8. \A k \in 0..(e - 1) : w[k + 1] = f[w[k]]
  <2> SUFFICES ASSUME NEW k \in 0..(e - 1) PROVE w[k + 1] = f[w[k]]
    OBVIOUS
  <2>1. k \in 0..(MaxIndex - 1)
    BY <1>3, FatAssumption
  <2>2. w[k + 1] = After(f, w[k])
    BY <2>1, WalkStep
  <2> HIDE DEF w
  <2> QED
    BY <2>2, <1>5, AfterCluster
<1>9. ASSUME NEW j \in 0..(e - 1), NEW k \in 0..(e - 1), w[j] = w[k] PROVE j = k
  <2>1. j \in 0..MaxIndex /\ k \in 0..MaxIndex /\ w[j] # EndMark /\ w[k] # EndMark
    BY <1>4
  <2>2. ~(j < k) /\ ~(k < j)
    BY <1>9, <2>1, NoRepeat
  <2> QED
    BY <2>2, <1>3
<1> HIDE DEF w
<1>10. f[w[e - 1]] = EndMark
  <2>1. e - 1 \in 0..(e - 1) /\ (e - 1) + 1 = e
    BY <1>3
  <2> QED
    BY <2>1, <1>3, <1>8
<1>11. ASSUME NEW k \in 0..(e - 2) PROVE f[w[k]] # EndMark
  <2>1. k \in 0..(e - 1) /\ k + 1 \in 0..(e - 1)
    BY <1>3
  <2> QED
    BY <2>1, <1>4, <1>8
<1>12. /\ \A k \in 0..(e - 1) : w[k] \in Cluster
       /\ \A k \in e..MaxIndex : w[k] = EndMark
       /\ Chain(f, h) = {w[k] : k \in 0..(e - 1)}
       /\ f[w[e - 1]] = EndMark
       /\ \A k \in 0..(e - 2) : f[w[k]] # EndMark
       /\ \A j, k \in 0..(e - 1) : w[j] = w[k] => j = k
  BY <1>5, <1>6, <1>7, <1>9, <1>10, <1>11
<1> QED
  BY <1>3, <1>12 DEF w

(* A chain whose end is linked to an unused cluster has that cluster too;  *)
(* the other chains stay as they are.                                      *)
LEMMA ExtendedFat ==
  ASSUME NEW f \in Table, NEW tail \in Cluster, f[tail] = EndMark,
         NEW new \in Index, f[new] = 0
  PROVE  /\ tail # new
         /\ \A i \in Cluster : Extended(f, tail, new)[i] =
              IF i = new THEN EndMark ELSE IF i = tail THEN new ELSE f[i]
<1>1. new \in Cluster /\ EndMark # 0
  BY FatAssumption DEF Cluster
<1> QED
  BY <1>1 DEF Extended, write_in_fat_index, Table

(* Growing one chain keeps every walk up to its end: only what comes after *)
(* the tail is new.                                                        *)
LEMMA ExtendedWalk ==
  ASSUME NEW f \in Table, NEW H \in SUBSET Cluster, ChainsApart(f, H), NEW h \in H,
         NEW tail \in Cluster, f[tail] = EndMark, NEW new \in Index, f[new] = 0
  PROVE  KeepsWalk(f, Extended(f, tail, new), h)
<1> DEFINE g == Extended(f, tail, new)
<1>1. ASSUME NEW k \in 0..MaxIndex, Walk(f, h)[k] \in Cluster,
             f[Walk(f, h)[k]] # EndMark
      PROVE  g[Walk(f, h)[k]] = f[Walk(f, h)[k]]
  <2> DEFINE c == Walk(f, h)[k]
  <2>1. c \in Chain(f, h)
    BY <1>1, NotAnIndex DEF Chain
  <2>2. f[c] # 0
    BY <2>1, ChainInUse
  <2> QED
    BY <1>1, <2>2, ExtendedFat
<1> QED
  BY <1>1, WalkKept

(* The chain that grows has the new cluster at its end, the others stay.   *)
LEMMA ExtendedChain ==
  ASSUME NEW f \in Table, NEW H \in SUBSET Cluster, ChainsApart(f, H), NEW h \in H,
         NEW tail \in Cluster, f[tail] = EndMark, NEW new \in Index, f[new] = 0
  PROVE  /\ new \notin Chain(f, h)
         /\ Chain(Extended(f, tail, new), h) =
              IF tail \in Chain(f, h) THEN Chain(f, h) \cup {new} ELSE Chain(f, h)
<1> DEFINE g == Extended(f, tail, new)
           w == Walk(f, h)
           v == Walk(g, h)
<1>1. new \notin Chain(f, h)
  BY ChainInUse
<1>2. CASE tail \notin Chain(f, h)
  <2>1. \A c \in Chain(f, h) : g[c] = f[c]
    BY <1>1, <1>2, ChainInUse, ExtendedFat
  <2>2. Chain(g, h) = Chain(f, h)
    BY <2>1, ChainKept
  <2> QED
    BY <1>1, <1>2, <2>2
<1>3. CASE tail \in Chain(f, h)
  <2>1. PICK e \in 1..MaxIndex :
           /\ \A k \in 0..(e - 1) : w[k] \in Cluster
           /\ \A k \in e..MaxIndex : w[k] = EndMark
           /\ Chain(f, h) = {w[k] : k \in 0..(e - 1)}
           /\ f[w[e - 1]] = EndMark
           /\ \A k \in 0..(e - 2) : f[w[k]] # EndMark
           /\ \A j, k \in 0..(e - 1) : w[j] = w[k] => j = k
    BY ChainShape
  <2>2. w[e - 1] = tail
    <3>1. PICK k \in 0..(e - 1) : w[k] = tail
      BY <1>3, <2>1
    <3>2. k \notin 0..(e - 2)
      BY <2>1, <3>1
    <3>3. k = e - 1
      BY <3>2
    <3> QED
      BY <3>1, <3>3
  <2>3. \A k \in 0..(e - 1) : v[k] = w[k]
    <3>1. \A k \in 0..(e - 1) : k \in 0..MaxIndex /\ w[k] # EndMark
      BY <2>1, NotAnIndex, FatAssumption
    <3> QED
      BY <3>1, ExtendedWalk DEF KeepsWalk
  <2>4. v[e] = new
    <3>1. e - 1 \in 0..(MaxIndex - 1) /\ (e - 1) + 1 = e /\ e - 1 \in 0..(e - 1)
      BY FatAssumption
    <3>2. v[e] = After(g, v[e - 1])
      BY <3>1, WalkStep
    <3>3. g[tail] = new
      BY ExtendedFat
    <3> HIDE DEF v, w, g
    <3> QED
      BY <2>2, <2>3, <3>1, <3>2, <3>3, AfterCluster
  <2>5. \A k \in (e + 1)..MaxIndex : v[k] = EndMark
    <3> SUFFICES ASSUME e + 1 <= MaxIndex PROVE \A k \in (e + 1)..MaxIndex : v[k] = EndMark
      BY FatAssumption
    <3>1. e \in 0..(MaxIndex - 1) /\ e + 1 \in 0..MaxIndex
      BY FatAssumption
    <3>2. v[e + 1] = After(g, v[e])
      BY <3>1, WalkStep
    <3>3. new \in Cluster
      BY DEF Cluster
    <3>4. g[new] = EndMark
      BY <3>3, ExtendedFat
    <3>5. v[e + 1] = EndMark
      <4> HIDE DEF v, g
      <4> QED
        BY <2>4, <3>2, <3>3, <3>4, AfterCluster
    <3> QED
      BY <3>1, <3>5, WalkStaysAtEnd
  <2>6. Chain(g, h) = {v[k] : k \in 0..MaxIndex} \ {EndMark}
    BY DEF Chain
  <2>7. \A k \in 0..MaxIndex : k \in 0..(e - 1) \/ k = e \/ k \in (e + 1)..MaxIndex
    BY FatAssumption
  <2>8. \A k \in 0..e : k \in 0..MaxIndex
    BY FatAssumption
  <2> HIDE DEF v, w, g
  <2>9. new # EndMark /\ \A k \in 0..(e - 1) : w[k] # EndMark
    BY <2>1, NotAnIndex
  <2>10. Chain(g, h) = Chain(f, h) \cup {new}
    <3>1. ASSUME NEW c \in Chain(g, h) PROVE c \in Chain(f, h) \cup {new}
      BY <3>1, <2>1, <2>3, <2>4, <2>5, <2>6, <2>7
    <3>2. ASSUME NEW c \in Chain(f, h) PROVE c \in Chain(g, h)
      <4>1. PICK k \in 0..(e - 1) : c = w[k]
        BY <2>1
      <4>2. k \in 0..MaxIndex /\ v[k] = c /\ c # EndMark
        BY <4>1, <2>3, <2>8, <2>9
      <4> QED
        BY <4>2, <2>6
    <3>3. new \in Chain(g, h)
      BY <2>4, <2>6, <2>9, FatAssumption
    <3> QED
      BY <3>1, <3>2, <3>3
  <2> QED
    BY <1>1, <1>3, <2>10 DEF g
<1> QED
  BY <1>2, <1>3

(* Marking an unused cluster, or the cluster 0, as a chain of one leaves   *)
(* the chains of the heads as they are.                                    *)
LEMMA MarkedChain ==
  ASSUME NEW f \in Table, NEW H \in SUBSET Cluster, ChainsApart(f, H), NEW h \in H,
         NEW c \in find_empty_fat_index(f), h = 0 => c # 0
  PROVE  Walk(write_in_fat_index(f, c, EndMark), h) = Walk(f, h)
         /\ Chain(write_in_fat_index(f, c, EndMark), h) = Chain(f, h)
<1>1. c \in Cluster /\ (c # 0 => f[c] = 0)
  BY FoundIsUnused
<1>2. \A x \in Chain(f, h) : x \in Cluster /\ f[x] # 0 /\ (x # h => x # 0)
  BY ChainInUse, NotAnIndex
<1>3. \A x \in Chain(f, h) : x # c
  BY <1>1, <1>2
<1>4. \A x \in Chain(f, h) : write_in_fat_index(f, c, EndMark)[x] = f[x]
  BY <1>2, <1>3 DEF write_in_fat_index, Table
<1> QED
  BY <1>4, ChainKept

(* A cluster marked as the end is a chain of one, and so is one that is    *)
(* 0 in the FAT when it is the cluster 0.                                  *)
LEMMA ChainOfOne ==
  ASSUME NEW f \in Table, NEW c \in Cluster, f[c] = EndMark \/ (c = 0 /\ f[c] = 0)
  PROVE  Chain(f, c) = {c}
<1> DEFINE w == Walk(f, c)
           T == {k \in Nat : k <= MaxIndex => w[k] \in {c, EndMark}}
<1>1. 0 \in T
  BY WalkStep
<1>2. ASSUME NEW k \in Nat, k \in T PROVE k + 1 \in T
  <2> SUFFICES ASSUME k + 1 <= MaxIndex PROVE w[k + 1] \in {c, EndMark}
    OBVIOUS
  <2>1. k \in 0..(MaxIndex - 1) /\ w[k] \in {c, EndMark}
    BY <1>2, FatAssumption
  <2>2. w[k + 1] = After(f, w[k])
    BY <2>1, WalkStep
  <2> HIDE DEF w
  <2> QED
    BY <2>1, <2>2, AfterCluster
<1>3. w[0] = c /\ c # EndMark
  BY WalkStep, NotAnIndex
<1>4. Chain(f, c) = {w[k] : k \in 0..MaxIndex} \ {EndMark}
  BY DEF Chain
<1> HIDE DEF w
<1>5. \A k \in Nat : k \in T
  BY <1>1, <1>2, Induction
<1>6. \A k \in 0..MaxIndex : w[k] \in {c, EndMark}
  BY <1>5, FatAssumption
<1>7. 0 \in 0..MaxIndex
  BY FatAssumption
<1> QED
  BY <1>3, <1>4, <1>6, <1>7

-----------------------------------------------------------------------------
(* Routes.  Route(f, dk, p)[k] is the cluster the first k names of path p  *)
(* lead to.                                                                *)

StepTo(f, dk, d, n) ==
  LET S == FirstOnChain(f, d, Named(dk, {"dir"}, n))
  IN  IF S = {} THEN 0 ELSE dk[CHOOSE a \in S : TRUE].head
Route(f, dk, p) ==
  CHOOSE c : c = [k \in 0..Len(p) |-> IF k = 0 THEN RootCluster
                                      ELSE StepTo(f, dk, c[k - 1], p[k])]

(* There is a function that satisfies the equation that defines Route.     *)
LEMMA RouteDef ==
  ASSUME NEW f, NEW dk, NEW p, Len(p) \in Nat
  PROVE  Route(f, dk, p) = [k \in 0..Len(p) |-> IF k = 0 THEN RootCluster
                              ELSE StepTo(f, dk, Route(f, dk, p)[k - 1], p[k])]
<1> DEFINE Good(n) == \E g : g = [k \in 0..n |-> IF k = 0 THEN RootCluster
                                                 ELSE StepTo(f, dk, g[k - 1], p[k])]
           T == {n \in Nat : Good(n)}
<1>1. 0 \in T
  <2> DEFINE g == [k \in 0..0 |-> RootCluster]
  <2>1. g = [k \in 0..0 |-> IF k = 0 THEN RootCluster
                            ELSE StepTo(f, dk, g[k - 1], p[k])]
    OBVIOUS
  <2> QED
    BY <2>1
<1>2. ASSUME NEW n \in Nat, n \in T PROVE n + 1 \in T
  <2>1. PICK g : g = [k \in 0..n |-> IF k = 0 THEN RootCluster
                                     ELSE StepTo(f, dk, g[k - 1], p[k])]
    BY <1>2
  <2> DEFINE e == [k \in 0..(n + 1) |-> IF k <= n THEN g[k]
                                        ELSE StepTo(f, dk, g[n], p[k])]
  <2>2. ASSUME NEW k \in 0..(n + 1)
        PROVE  e[k] = IF k = 0 THEN RootCluster ELSE StepTo(f, dk, e[k - 1], p[k])
    <3>1. CASE k = 0
      BY <3>1, <2>1
    <3>2. CASE k # 0 /\ k <= n
      <4>1. k \in 0..n /\ k - 1 \in 0..(n + 1) /\ k - 1 <= n
        BY <3>2
      <4>2. g[k] = StepTo(f, dk, g[k - 1], p[k])
        BY <2>1, <3>2, <4>1
      <4> QED
        BY <3>2, <4>1, <4>2
    <3>3. CASE k = n + 1
      <4>1. k - 1 \in 0..(n + 1) /\ k - 1 = n /\ k # 0 /\ ~ (k <= n)
        BY <3>3
      <4> QED
        BY <4>1
    <3> QED
      BY <3>1, <3>2, <3>3
  <2>3. e = [k \in 0..(n + 1) |-> IF k = 0 THEN RootCluster
                                  ELSE StepTo(f, dk, e[k - 1], p[k])]
    BY <2>2
  <2>4. Good(n + 1)
    BY <2>3
  <2> QED
    BY <2>4
<1>3. Good(Len(p))
  <2> HIDE DEF Good
  <2>1. Len(p) \in T
    BY <1>1, <1>2, Induction
  <2> QED
    BY <2>1
<1> QED
  BY <1>3 DEF Route

(* get_cluster_number is where the route ends.                             *)
LEMMA PathIsRoute ==
  ASSUME NEW f, NEW dk, NEW p
  PROVE  get_cluster_number(f, dk, p) = Route(f, dk, p)[Len(p)]
BY DEF get_cluster_number, Route, StepTo

(* A path and its prefixes.                                                *)
LEMMA PathTyped ==
  ASSUME NEW p \in Paths
  PROVE  /\ p \in Seq(Names) /\ Len(p) \in 0..MaxDepth /\ Len(p) \in Nat
         /\ \A k \in 1..Len(p) : p[k] \in Names
         /\ Prefix(p, Len(p)) = p
         /\ \A k \in 0..Len(p) :
              /\ Prefix(p, k) \in Paths /\ Len(Prefix(p, k)) = k
              /\ \A j \in 1..k : Prefix(p, k)[j] = p[j]
<1>1. PICK m \in 0..MaxDepth : p \in [1..m -> Names]
  BY DEF Paths
<1>2. m \in Nat /\ Len(p) = m /\ p \in Seq(Names)
  BY <1>1, MfsAssumption
<1>3. ASSUME NEW k \in 0..m
      PROVE  /\ Prefix(p, k) \in [1..k -> Names] /\ Len(Prefix(p, k)) = k
             /\ \A j \in 1..k : Prefix(p, k)[j] = p[j]
  <2>1. Prefix(p, k) = [j \in 1..k |-> p[j]]
    BY <1>1, <1>2 DEF Prefix
  <2>2. k \in Nat /\ \A j \in 1..k : j \in 1..m
    BY <1>2
  <2> QED
    BY <2>1, <2>2, <1>1
<1>4. ASSUME NEW k \in 0..m PROVE Prefix(p, k) \in Paths
  <2>1. k \in 0..MaxDepth
    BY <1>1, MfsAssumption
  <2> QED
    BY <2>1, <1>3 DEF Paths
<1>5. Prefix(p, m) = p
  <2>1. Prefix(p, m) = [j \in 1..m |-> p[j]]
    BY <1>1, <1>2 DEF Prefix
  <2> QED
    BY <2>1, <1>1
<1> QED
  BY <1>1, <1>2, <1>3, <1>4, <1>5

(* The directories above a path lie on its route.                          *)
LEMMA RoutePrefix ==
  ASSUME NEW f, NEW dk, NEW p \in Paths, NEW k \in 0..Len(p)
  PROVE  get_cluster_number(f, dk, Prefix(p, k)) = Route(f, dk, p)[k]
<1> DEFINE q == Prefix(p, k)
           r == Route(f, dk, p)
           s == Route(f, dk, q)
           T == {j \in Nat : j <= k => s[j] = r[j]}
<1>1. Len(p) \in Nat /\ k \in Nat /\ Len(q) = k /\ \A j \in 1..k : q[j] = p[j]
  BY PathTyped
<1>2. r = [j \in 0..Len(p) |-> IF j = 0 THEN RootCluster
                                ELSE StepTo(f, dk, r[j - 1], p[j])]
  BY <1>1, RouteDef
<1>3. s = [j \in 0..k |-> IF j = 0 THEN RootCluster
                          ELSE StepTo(f, dk, s[j - 1], q[j])]
  <2>1. s = [j \in 0..Len(q) |-> IF j = 0 THEN RootCluster
                                 ELSE StepTo(f, dk, s[j - 1], q[j])]
    BY <1>1, RouteDef
  <2> HIDE DEF s, q
  <2> QED
    BY <1>1, <2>1
<1>4. get_cluster_number(f, dk, q) = s[k]
  BY <1>1, PathIsRoute
<1> HIDE DEF q, r, s
<1>5. 0 \in T
  BY <1>1, <1>2, <1>3
<1>6. ASSUME NEW j \in Nat, j \in T PROVE j + 1 \in T
  <2> SUFFICES ASSUME j + 1 <= k PROVE s[j + 1] = r[j + 1]
    OBVIOUS
  <2>1. s[j] = r[j] /\ j + 1 \in 0..k /\ j + 1 \in 0..Len(p) /\ j + 1 # 0
        /\ (j + 1) - 1 = j /\ j + 1 \in 1..k
    BY <1>1, <1>6
  <2>2. s[j + 1] = StepTo(f, dk, s[j], q[j + 1])
    BY <2>1, <1>3
  <2>3. r[j + 1] = StepTo(f, dk, r[j], p[j + 1])
    BY <2>1, <1>2
  <2> QED
    BY <2>1, <2>2, <2>3, <1>1
<1>7. \A j \in Nat : j \in T
  BY <1>5, <1>6, Induction
<1> QED
  BY <1>1, <1>4, <1>7 DEF q, r

(* Path resolution, one name at a time.                                    *)
LEMMA PathStep ==
  ASSUME NEW f, NEW dk, NEW p \in Paths
  PROVE  /\ get_cluster_number(f, dk, Prefix(p, 0)) = RootCluster
         /\ \A k \in 1..Len(p) :
              get_cluster_number(f, dk, Prefix(p, k)) =
                StepTo(f, dk, get_cluster_number(f, dk, Prefix(p, k - 1)), p[k])
<1>1. Len(p) \in Nat
  BY PathTyped
<1>2. \A k \in 0..Len(p) : get_cluster_number(f, dk, Prefix(p, k)) = Route(f, dk, p)[k]
  BY RoutePrefix
<1> DEFINE r == Route(f, dk, p)
<1>3. r = [j \in 0..Len(p) |-> IF j = 0 THEN RootCluster
                                ELSE StepTo(f, dk, r[j - 1], p[j])]
  BY <1>1, RouteDef
<1> HIDE DEF r
<1>4. r[0] = RootCluster
  BY <1>1, <1>3
<1>5. ASSUME NEW k \in 1..Len(p) PROVE r[k] = StepTo(f, dk, r[k - 1], p[k])
  <2>1. k \in 0..Len(p) /\ k # 0
    BY <1>1
  <2> QED
    BY <2>1, <1>3
<1>6. \A k \in 1..Len(p) : k \in 0..Len(p) /\ k - 1 \in 0..Len(p)
  BY <1>1
<1>7. 0 \in 0..Len(p)
  BY <1>1
<1> QED
  BY <1>2, <1>4, <1>5, <1>6, <1>7 DEF r

(* What is in the entries.                                                 *)
LEMMA EntryTyped ==
  ASSUME TypeOK, NEW a \in EntryAddrs
  PROVE  a \in Addr /\ disk[a] \in Dirents /\ disk[a].attr \in FileOrDir
         /\ disk[a].head \in Cluster /\ disk[a].name \in Names /\ disk[a].size \in Nat
<1>1. a \in Addr /\ disk[a] \in Slot /\ disk[a].attr \in {"file", "dir"}
  BY DEF EntryAddrs, TypeOK, FileOrDir
<1>2. disk[a] \in Dirents
  BY <1>1 DEF Slot, Blank, Datum
<1> QED
  BY <1>1, <1>2 DEF Dirents, FileOrDir

(* A directory's first cluster is the root or some entry's head.           *)
LEMMA DirHeadsAreHeads == DirHeads \subseteq AllHeads
BY DEF DirHeads, AllHeads, Heads

(* A directory's entry leads to its head.                                  *)
LEMMA StepToFound ==
  ASSUME NEW f, NEW dk, NEW d, NEW n, NEW a \in FirstOnChain(f, d, Named(dk, FileOrDir, n)),
         dk[a].attr = "dir"
  PROVE  StepTo(f, dk, d, n) = dk[a].head
<1>1. Named(dk, {"dir"}, n) \in SUBSET Named(dk, FileOrDir, n)
  BY DEF Named, FileOrDir
<1>2. a \in Named(dk, {"dir"}, n)
  BY SearchIsSound DEF Named
<1>3. FirstOnChain(f, d, Named(dk, {"dir"}, n)) = {a}
  BY <1>1, <1>2, SameWalk, SearchAgain
<1> QED
  BY <1>3 DEF StepTo

(* A path of directories leads, name by name, from directory to directory. *)
LEMMA DirStep ==
  ASSUME NEW f, NEW p \in Paths, IsDir(f, disk, p), NEW k \in 1..Len(p)
  PROVE  \E a \in EntryAddrs :
           /\ a \in FirstOnChain(f, get_cluster_number(f, disk, Prefix(p, k - 1)),
                                 Named(disk, FileOrDir, p[k]))
           /\ disk[a].attr = "dir"
           /\ get_cluster_number(f, disk, Prefix(p, k)) = disk[a].head
<1> DEFINE d == get_cluster_number(f, disk, Prefix(p, k - 1))
<1>1. PICK a \in FirstOnChain(f, d, Named(disk, FileOrDir, p[k])) : disk[a].attr = "dir"
  BY DEF IsDir, Find, mfs_lookup
<1>2. a \in EntryAddrs
  BY SearchIsSound DEF Named, EntryAddrs
<1>3. get_cluster_number(f, disk, Prefix(p, k)) = StepTo(f, disk, d, p[k])
  BY PathStep
<1> QED
  BY <1>1, <1>2, <1>3, StepToFound

(* A path of directories leads to the head of a directory.                 *)
LEMMA DirLeadsToHead ==
  ASSUME NEW f, NEW p \in Paths, IsDir(f, disk, p)
  PROVE  /\ get_cluster_number(f, disk, p) \in DirHeads
         /\ \A k \in 0..Len(p) : get_cluster_number(f, disk, Prefix(p, k)) \in DirHeads
<1>1. Len(p) \in Nat /\ Prefix(p, Len(p)) = p /\ Len(p) \in 0..Len(p)
  BY PathTyped
<1>2. ASSUME NEW k \in 0..Len(p)
      PROVE  get_cluster_number(f, disk, Prefix(p, k)) \in DirHeads
  <2>1. CASE k = 0
    BY <2>1, PathStep DEF DirHeads
  <2>2. CASE k # 0
    <3>1. k \in 1..Len(p)
      BY <2>2, <1>1
    <3> QED
      BY <3>1, DirStep DEF DirHeads
  <2> QED
    BY <2>1, <2>2
<1> QED
  BY <1>1, <1>2

-----------------------------------------------------------------------------
(* Every file and directory has a head of its own.                         *)

OwnHeads ==
  status = "ok" =>
    /\ \A a, b \in EntryAddrs : a # b /\ disk[a].head = disk[b].head => disk[a].head = 0
    /\ \A a \in EntryAddrs : disk[a].head # RootCluster

(* A new entry whose head is nobody's keeps heads apart.                   *)
LEMMA AllocKeepsOwn ==
  ASSUME TypeOK, OwnHeads, status = "ok", NEW f, NEW d, NEW de,
         de.head # RootCluster,
         \A a \in EntryAddrs : disk[a].head = de.head => de.head = 0,
         alloc_new_dirent(f, d, de)
  PROVE  OwnHeads'
<1> SUFFICES ASSUME status' = "ok" PROVE OwnHeads'
  BY DEF OwnHeads
<1>1. PICK x : disk' = [disk EXCEPT ![x] = de]
  BY DEF alloc_new_dirent, Wreck
<1>2. ASSUME NEW a \in EntryAddrs'
      PROVE  a \in Addr /\ ((a = x /\ disk'[a] = de) \/ (a # x /\ disk'[a] = disk[a] /\ a \in EntryAddrs))
  BY <1>1 DEF TypeOK, EntryAddrs
<1> QED
  BY <1>2 DEF OwnHeads

(* mfs_create and mfs_mkdir give a file or directory a head of its own.    *)
LEMMA MakeKeepsOwn ==
  ASSUME IInv, OwnHeads, status = "ok", NEW p, NEW n, NEW attr, Make(p, n, attr)
  PROVE  OwnHeads'
<1>1. PICK head \in find_empty_fat_index(fat) :
        LET f == write_in_fat_index(fat, head, EndMark)
            d == get_cluster_number(fat, disk, p)
        IN  IF d = 0 THEN fat' = f /\ Wreck
            ELSE alloc_new_dirent(f, d, Dirent(attr, n, head, 0))
  BY DEF Make
<1> DEFINE f == write_in_fat_index(fat, head, EndMark)
           d == get_cluster_number(fat, disk, p)
           de == Dirent(attr, n, head, 0)
<1>2. de.head = head
  BY DEF Dirent
<1>3. head # RootCluster /\ \A a \in EntryAddrs : disk[a].head = head => head = 0
  BY FoundIsUnused DEF IInv, NoMergedChains, HeadsInUse, Heads, RootCluster
<1>4. CASE d = 0
  BY <1>1, <1>4 DEF Wreck, OwnHeads
<1>5. CASE d # 0
  <2>1. alloc_new_dirent(f, d, de)
    BY <1>1, <1>5
  <2> HIDE DEF de, f, d
  <2> QED
    BY <2>1, <1>2, <1>3, AllocKeepsOwn DEF IInv
<1> QED
  BY <1>4, <1>5

Grown(new, old, by) ==
  /\ new.attr = old.attr /\ new.name = old.name /\ new.head = old.head
  /\ new.size = old.size + by

Updated(f, d, b, n, by) ==
  \E s \in EntryAddrs :
    /\ s = b \/ b \notin EntryAddrs'
    /\ s = b \/ s \in EntryAddrs'
    /\ s \in EntryAddrs' => \E S \in SUBSET Addr : s \in FirstOnChain(f, d, S)
    /\ \A a \in Addr : disk'[a] = Blank => disk[a] = Blank
    /\ disk[s].name = n /\ disk[s].attr = "file"
    /\ s \in EntryAddrs' => Grown(disk'[s], disk[b], by)
    /\ \A a \in EntryAddrs' : a # s => a \in EntryAddrs /\ disk'[a] = disk[a]

(* A data write updates the entry it started from, or, when it has itself  *)
(* written over that entry, another of the same name, which takes its      *)
(* place; no other entry changes.                                          *)
LEMMA StoreChanges ==
  ASSUME TypeOK, NEW f, NEW d, KeepsWalk(fat, f, d), NEW n,
         NEW b \in get_dentry(fat, disk, d, n),
         NEW c, NEW co, NEW buf, Store(f, d, disk[b], c, co, buf), status' = "ok"
  PROVE  Updated(f, d, b, n, valid_len(Len(buf), co))
<1> DEFINE de == disk[b]
           vlen == valid_len(Len(buf), co)
           pos == Base(c) + co
           dk == [a \in Addr |-> IF a \in pos..(pos + vlen - 1)
                                 THEN Datum(buf[a - pos + 1]) ELSE disk[a]]
           new == [de EXCEPT !.size = @ + vlen]
           S == get_dentry(f, dk, d, de.name)
<1>1. b \in EntryAddrs /\ b \in Addr /\ de \in Dirents
  BY FoundIsEntry
<1>2. de.name = n /\ de.attr = "file"
  <2>1. b \in Named(disk, {"file"}, n)
    BY SearchIsSound DEF get_dentry
  <2> QED
    BY <2>1 DEF Named
<1>3. disk' = [a \in Addr |-> IF a \in S THEN new ELSE dk[a]]
  BY DEF Store, Wreck, alloc_new_entry
<1>4. \A a \in Addr : dk[a] = disk[a] \/ dk[a].attr = "data"
  BY DEF Datum
<1>5. Named(dk, {"file"}, n) \in SUBSET Named(disk, {"file"}, n)
  <2> HIDE DEF dk
  <2> QED
    BY <1>4 DEF Named
<1>6. S \subseteq Named(dk, {"file"}, n)
  BY <1>2, SearchIsSound DEF get_dentry
<1>7. dk[b] = disk[b] => S = {b}
  <2> SUFFICES ASSUME dk[b] = disk[b] PROVE S = {b}
    OBVIOUS
  <2>1. b \in Named(dk, {"file"}, n)
    <3> HIDE DEF dk
    <3> QED
      BY <1>1, <1>2 DEF Named
  <2>2. b \in FirstOnChain(fat, d, Named(disk, {"file"}, n))
    BY DEF get_dentry
  <2>3. FirstOnChain(f, d, Named(dk, {"file"}, n)) = {b}
    <3> HIDE DEF dk
    <3> QED
      BY <1>5, <2>1, <2>2, SearchAgain
  <2> QED
    BY <1>2, <2>3 DEF get_dentry
<1>8. \A s, t \in S : s = t
  BY SearchFindsOne DEF get_dentry
<1>9. new.attr = "file" /\ new.name = n /\ Grown(new, de, vlen)
  BY <1>1, <1>2 DEF Dirents, Grown
<1>10. S \subseteq EntryAddrs /\ \A s \in S : disk[s].name = n /\ disk[s].attr = "file"
  BY <1>5, <1>6 DEF Named, EntryAddrs, FileOrDir
<1>10a. \A s \in S : \E T \in SUBSET Addr : s \in FirstOnChain(f, d, T)
  <2>1. Named(dk, {"file"}, n) \in SUBSET Addr
    BY DEF Named
  <2> QED
    BY <1>2, <2>1 DEF get_dentry
<1> HIDE DEF dk, S
<1>11. \A a \in EntryAddrs' : a \in Addr
  BY DEF EntryAddrs
<1>12. \A a \in EntryAddrs' : a \notin S => disk'[a] = disk[a] /\ a \in EntryAddrs
  BY <1>3, <1>4, <1>11 DEF EntryAddrs, FileOrDir
<1>12a. \A a \in Addr : disk'[a] = Blank => disk[a] = Blank
  BY <1>3, <1>4, <1>9 DEF Blank
<1>13. CASE b \in S
  <2>1. \A a \in EntryAddrs' : a # b => a \in EntryAddrs /\ disk'[a] = disk[a]
    BY <1>8, <1>12, <1>13
  <2>2. disk'[b] = new
    BY <1>1, <1>3, <1>13
  <2> HIDE DEF new, vlen
  <2> QED
    BY <1>1, <1>2, <1>9, <1>10a, <1>12a, <1>13, <2>1, <2>2 DEF vlen, Updated
<1>14. CASE b \notin S
  <2>1. dk[b].attr = "data" /\ disk'[b] = dk[b]
    BY <1>1, <1>3, <1>4, <1>7, <1>14
  <2>2. b \notin EntryAddrs'
    BY <2>1 DEF EntryAddrs, FileOrDir
  <2>3. CASE S = {}
    <3>1. \A a \in EntryAddrs' : a # b => a \in EntryAddrs /\ disk'[a] = disk[a]
      BY <1>12, <2>3
    <3> QED
      BY <1>1, <1>2, <1>12a, <2>2, <3>1 DEF Updated
  <2>4. CASE S # {}
    <3>1. PICK s \in S : TRUE
      BY <2>4
    <3>2. s \in EntryAddrs /\ disk[s].name = n /\ disk[s].attr = "file" /\ s \in Addr
      BY <1>10, <3>1 DEF EntryAddrs
    <3>3. \A a \in EntryAddrs' : a # s => a \in EntryAddrs /\ disk'[a] = disk[a]
      BY <1>8, <1>12, <3>1
    <3>4. disk'[s] = new
      BY <1>3, <3>1, <3>2
    <3>5. s \in EntryAddrs'
      BY <3>2, <3>4, <1>9 DEF EntryAddrs, FileOrDir
    <3> HIDE DEF new, vlen
    <3> QED
      BY <1>9, <1>10a, <1>12a, <2>2, <3>1, <3>2, <3>3, <3>4, <3>5 DEF vlen, Updated
  <2> QED
    BY <2>3, <2>4
<1> QED
  BY <1>13, <1>14

(* The two ways a write goes, with what the proofs need of each: the       *)
(* directory d the file is in, the entry b found there, the FAT after it.  *)
WriteShape(d, n, off, buf) ==
  \E b \in get_dentry(fat, disk, d, n) :
    /\ d \in DirHeads
    /\ KeepsWalk(fat, fat', d)
    /\ \E c \in Cluster : Store(fat', d, disk[b], c, off % CS, buf)
    /\ \/ fat' = fat
       \/ \E tail \in Chain(fat, disk[b].head) \cap Cluster, new \in Index :
            fat[tail] = EndMark /\ fat[new] = 0 /\ fat' = Extended(fat, tail, new)

(* A write that does not wreck the volume has the shape described.         *)
LEMMA WriteCases ==
  ASSUME IInv, NEW p \in Paths, NEW n, NEW off \in 0..MaxSize, NEW buf,
         WriteFile(p, n, off, buf), status' = "ok"
  PROVE  WriteShape(get_cluster_number(fat, disk, p), n, off, buf)
<1> DEFINE d == get_cluster_number(fat, disk, p)
<1>1. PICK b \in get_dentry(fat, disk, d, n) :
        /\ status = "ok"
        /\ disk[b].size + Len(buf) <= MaxSize
        /\ WriteInChain(d, disk[b], off, buf) \/ WriteExtending(d, disk[b], off, buf)
  BY DEF WriteFile, WriteEntry
<1>2. d \in DirHeads /\ d \in AllHeads
  BY DirLeadsToHead, DirHeadsAreHeads DEF WriteFile
<1>3. CASE WriteInChain(d, disk[b], off, buf)
  <2>1. fat' = fat /\ \E c \in Cluster : Store(fat', d, disk[b], c, off % CS, buf)
    BY <1>3 DEF WriteInChain
  <2> QED
    BY <1>2, <2>1, SameWalk DEF WriteShape
<1>4. CASE WriteExtending(d, disk[b], off, buf)
  <2>1. PICK tail \in Cluster, new \in find_empty_fat_index(fat) :
          /\ \E k \in 0..(off \div CS - 1) : Walk(fat, disk[b].head)[k] = tail
          /\ fat[tail] = EndMark
          /\ fat' = Extended(fat, tail, new)
          /\ Store(fat', d, disk[b], new, off % CS, buf)
    BY <1>4 DEF WriteExtending
  <2>2. new # 0 /\ new \in Index /\ fat[new] = 0 /\ new \in Cluster
    <3>1. new # 0
      BY <2>1, <1>1 DEF Store, Wreck
    <3> QED
      BY <3>1, FoundIsUnused
  <2>3. ChainsApart(fat, AllHeads) /\ AllHeads \in SUBSET Cluster /\ fat \in Table
    BY <1>1, HeadsAreClusters DEF IInv, NoMergedChains, ChainsApart, AllHeads, TypeOK
  <2>4. KeepsWalk(fat, fat', d)
    BY <1>2, <2>1, <2>2, <2>3, ExtendedWalk
  <2>5. tail \in Chain(fat, disk[b].head)
    <3>1. off \in Nat /\ off <= CS * MaxIndex
      BY MfsAssumption, FatAssumption
    <3>2. off \div CS \in Nat /\ off \div CS <= MaxIndex
      BY <3>1, MfsAssumption, FatAssumption
    <3>3. \A k \in 0..(off \div CS - 1) : k \in 0..MaxIndex
      BY <3>2, FatAssumption
    <3>4. tail # EndMark
      BY NotAnIndex
    <3> QED
      BY <2>1, <3>3, <3>4 DEF Chain
  <2> QED
    BY <1>2, <2>1, <2>2, <2>4, <2>5 DEF WriteShape
<1> QED
  BY <1>1, <1>3, <1>4

(* A write of any length at any offset gives no entry another's head.      *)
LEMMA WriteKeepsOwn ==
  ASSUME IInv, OwnHeads, NEW p \in Paths, NEW n, NEW off \in 0..MaxSize, NEW buf,
         WriteFile(p, n, off, buf)
  PROVE  OwnHeads'
<1> SUFFICES ASSUME status' = "ok" PROVE OwnHeads'
  BY DEF OwnHeads
<1> DEFINE d == get_cluster_number(fat, disk, p)
<1>1. PICK b \in get_dentry(fat, disk, d, n), c \in Cluster :
        KeepsWalk(fat, fat', d) /\ Store(fat', d, disk[b], c, off % CS, buf)
  BY WriteCases DEF WriteShape
<1>2. b \in EntryAddrs /\ disk[b] \in Dirents /\ status = "ok" /\ TypeOK
  BY FoundIsEntry DEF IInv, WriteFile, WriteEntry
<1>3. PICK s \in EntryAddrs :
        /\ s = b \/ b \notin EntryAddrs'
        /\ s \in EntryAddrs' => Grown(disk'[s], disk[b], valid_len(Len(buf), off % CS))
        /\ \A a \in EntryAddrs' : a # s => a \in EntryAddrs /\ disk'[a] = disk[a]
  <2> DEFINE g == fat'
  <2>1. KeepsWalk(fat, g, d) /\ Store(g, d, disk[b], c, off % CS, buf)
    BY <1>1
  <2> HIDE DEF d, g
  <2>2. Updated(g, d, b, n, valid_len(Len(buf), off % CS))
    BY <1>2, <2>1, StoreChanges
  <2> QED
    BY <2>2 DEF Updated
<1>4. s \in EntryAddrs' => disk'[s].head = disk[b].head
  BY <1>3 DEF Grown
<1>5. \A a \in EntryAddrs' : a # s => a # b
  BY <1>3
<1> QED
  BY <1>2, <1>3, <1>4, <1>5 DEF OwnHeads

CInv == IInv /\ OwnHeads

(* The formatted volume satisfies the invariant.                           *)
LEMMA InitCInv == Init => CInv
<1> SUFFICES ASSUME Init PROVE OwnHeads
  BY InitIInv DEF CInv
<1>1. EntryAddrs = {}
  BY DEF Init, EntryAddrs, Blank, FileOrDir
<1> QED
  BY <1>1 DEF OwnHeads

(* Every step keeps it.                                                    *)
LEMMA NextCInv == CInv /\ [Next]_vars => CInv'
<1> SUFFICES ASSUME CInv, [Next]_vars PROVE OwnHeads'
  BY NextIInv DEF CInv
<1>1. CASE Create
  BY <1>1, MakeKeepsOwn DEF Create, mfs_create, CInv
<1>2. CASE Mkdir
  BY <1>2, MakeKeepsOwn DEF Mkdir, mfs_mkdir, CInv
<1>3. CASE Write
  BY <1>3, WriteKeepsOwn DEF Write, CInv
<1>4. CASE UNCHANGED vars
  BY <1>4 DEF vars, CInv, OwnHeads, EntryAddrs
<1> QED
  BY <1>1, <1>2, <1>3, <1>4 DEF Next

(* It says what the property does.                                         *)
LEMMA CInvIsSound == CInv => ChainsSound
<1> SUFFICES ASSUME CInv, status = "ok" PROVE ChainsSound
  BY DEF ChainsSound, ChainsDisjoint, EveryChainEnds
<1>1. ChainsApart(fat, AllHeads) /\ AllHeads \in SUBSET Cluster /\ fat \in Table
  BY HeadsAreClusters DEF CInv, IInv, NoMergedChains, ChainsApart, AllHeads, TypeOK
<1>2. ASSUME NEW a \in EntryAddrs, NEW b \in EntryAddrs, a # b,
             {disk[a].head, disk[b].head} # {0}
      PROVE  Chain(fat, disk[a].head) \cap Chain(fat, disk[b].head) = {}
  <2>1. disk[a].head # disk[b].head
    BY <1>2 DEF CInv, OwnHeads
  <2>2. disk[a].head \in AllHeads /\ disk[b].head \in AllHeads
    BY DEF AllHeads, Heads
  <2> QED
    BY <1>1, <2>1, <2>2, HeadsApart
<1>3. \A h \in AllHeads : Ends(fat, h)
  BY <1>1, WalkEnds
<1> QED
  BY <1>2, <1>3 DEF ChainsSound, ChainsDisjoint, EveryChainEnds, AllHeads

(* On a volume of any size, whatever clients write and also while it fills *)
(* up, the chains of two files or directories have no cluster in common,   *)
(* and every chain comes to its end: the loops of entry.c, dir.c and       *)
(* file.c that follow one terminate.                                       *)
THEOREM ChainsAlwaysSound == Spec => []ChainsSound
BY InitCInv, NextCInv, CInvIsSound, PTL DEF Spec

-----------------------------------------------------------------------------
(* The chains are apart while the volume is not wrecked.                   *)
LEMMA ApartNow ==
  IInv /\ status = "ok" =>
    ChainsApart(fat, AllHeads) /\ AllHeads \in SUBSET Cluster /\ fat \in Table
BY HeadsAreClusters DEF IInv, NoMergedChains, ChainsApart, AllHeads, TypeOK

(* The cluster 0, which a full volume hands out, is the start of a chain   *)
(* too; nothing is ever linked to it.                                      *)
LEMMA ZeroIsApart ==
  ASSUME NEW f \in Table, NEW H \in SUBSET Cluster, ChainsApart(f, H), f[0] # 0
  PROVE  ChainsApart(f, H \cup {0}) /\ H \cup {0} \in SUBSET Cluster
BY NotAnIndex DEF ChainsApart, LinkedInUse, HeadsInUse, Cluster

(* What starts at cluster 0 is apart from the chains of the indices.       *)
LEMMA ZeroChain ==
  ASSUME NEW f \in Table, NEW H \in SUBSET Cluster, ChainsApart(f, H)
  PROVE  /\ 0 \in Chain(f, 0)
         /\ \A c \in Chain(f, 0) : c \in Cluster /\ (c # 0 => c \in Index /\ f[c] # 0 /\ c \notin H)
         /\ \A d \in H \ {0} : Chain(f, d) \cap Chain(f, 0) = {}
<1>0. 0 \in Cluster
  BY DEF Cluster
<1>1. CASE f[0] # 0
  <2> DEFINE G == H \cup {0}
  <2>1. ChainsApart(f, G) /\ G \in SUBSET Cluster /\ 0 \in G
    BY <1>1, ZeroIsApart
  <2>2. \A d \in H \ {0} : Chain(f, d) \cap Chain(f, 0) = {}
    <3> HIDE DEF G
    <3> SUFFICES ASSUME NEW d \in H \ {0} PROVE Chain(f, d) \cap Chain(f, 0) = {}
      OBVIOUS
    <3>1. d \in G
      BY DEF G
    <3> QED
      BY <2>1, <3>1, HeadsApart
  <2>3. /\ 0 \in Chain(f, 0)
        /\ \A c \in Chain(f, 0) : /\ c \in Cluster /\ c # EndMark /\ f[c] # 0
                                  /\ c # 0 => c \in Index /\ c \notin G
    <3> HIDE DEF G
    <3> QED
      BY <2>1, ChainInUse
  <2> QED
    BY <2>2, <2>3
<1>2. CASE f[0] = 0
  <2>1. Chain(f, 0) = {0}
    BY <1>0, <1>2, ChainOfOne
  <2>2. \A d \in H \ {0} : 0 \notin Chain(f, d)
    BY ChainInUse, NotAnIndex
  <2> QED
    BY <1>0, <2>1, <2>2
<1> QED
  BY <1>1, <1>2

(* Handing out a cluster does not make the chain of 0 longer ...           *)
LEMMA ZeroMarked ==
  ASSUME NEW f \in Table, NEW H \in SUBSET Cluster, ChainsApart(f, H),
         NEW c \in find_empty_fat_index(f)
  PROVE  Chain(write_in_fat_index(f, c, EndMark), 0) \subseteq Chain(f, 0)
<1> DEFINE g == write_in_fat_index(f, c, EndMark)
<1>1. c \in Cluster /\ 0 \in Cluster /\ g \in Table
  BY FoundIsUnused, WriteKeepsTable DEF Cluster
<1>2. 0 \in Chain(f, 0)
  BY ZeroChain
<1>3. CASE c = 0
  <2>1. g[0] = EndMark
    BY <1>1, <1>3 DEF write_in_fat_index, Table
  <2> QED
    BY <1>1, <1>2, <2>1, ChainOfOne
<1>4. CASE c # 0 /\ f[0] = 0
  <2>1. g[0] = 0
    BY <1>1, <1>4 DEF write_in_fat_index, Table
  <2> QED
    BY <1>1, <1>2, <2>1, ChainOfOne
<1>5. CASE c # 0 /\ f[0] # 0
  <2> DEFINE G == H \cup {0}
  <2>1. ChainsApart(f, G) /\ G \in SUBSET Cluster /\ 0 \in G
    BY <1>5, ZeroIsApart
  <2> HIDE DEF G
  <2> QED
    BY <1>5, <2>1, MarkedChain
<1> QED
  BY <1>3, <1>4, <1>5

(* ... and growing a chain only if it is this one that grows.              *)
LEMMA ZeroExtended ==
  ASSUME NEW f \in Table, NEW H \in SUBSET Cluster, ChainsApart(f, H),
         NEW tail \in Cluster, f[tail] = EndMark, NEW new \in Index, f[new] = 0
  PROVE  /\ new \notin Chain(f, 0)
         /\ Chain(Extended(f, tail, new), 0) \subseteq Chain(f, 0) \cup {new}
         /\ tail \notin Chain(f, 0) => Chain(Extended(f, tail, new), 0) \subseteq Chain(f, 0)
<1> DEFINE g == Extended(f, tail, new)
<1>1. 0 \in Cluster /\ new \in Cluster /\ g \in Table
  BY ExtendedIsTable DEF Cluster
<1>2. 0 \in Chain(f, 0) /\ new \notin Chain(f, 0)
  BY ZeroChain, NotAnIndex
<1>3. CASE f[0] = 0
  <2>1. g[0] = 0
    BY <1>1, <1>3, ExtendedFat, NotAnIndex, FatAssumption
  <2>2. Chain(g, 0) = {0}
    BY <1>1, <2>1, ChainOfOne
  <2> QED
    BY <1>2, <2>2
<1>4. CASE f[0] # 0
  <2> DEFINE G == H \cup {0}
  <2>1. ChainsApart(f, G) /\ G \in SUBSET Cluster /\ 0 \in G
    BY <1>4, ZeroIsApart
  <2> HIDE DEF G
  <2> QED
    BY <1>2, <2>1, ExtendedChain
<1> QED
  BY <1>3, <1>4

-----------------------------------------------------------------------------
(* What a call that makes a file or directory does: x is the slot of the   *)
(* new entry, in a cluster of directory d.                                 *)
MadeAt(d, n, attr, head, x) ==
  /\ head \in Cluster /\ (head # 0 => head \in Index /\ fat[head] = 0)
  /\ x \in Addr /\ disk' = [disk EXCEPT ![x] = Dirent(attr, n, head, 0)]
  /\ ClusterOf(x) \in Index \cap Chain(fat', d) /\ fat'[ClusterOf(x)] # 0
  /\ ClusterOf(x) # head
  /\ \A i \in Cluster : fat[i] # 0 => fat'[i] # 0
  /\ \A i \in Cluster : fat'[i] # 0 => fat[i] # 0 \/ i = head \/ i \in Chain(fat', d)
  /\ \A e \in AllHeads \ {0} : /\ KeepsWalk(fat, fat', e)
                               /\ e # d => Chain(fat', e) = Chain(fat, e)
  /\ \/ /\ disk[x] = Blank /\ Chain(fat', d) = Chain(fat, d)
        /\ x \in FirstOnChain(fat, d, Free(disk))
     \/ /\ fat[ClusterOf(x)] = 0 /\ Chain(fat', d) = Chain(fat, d) \cup {ClusterOf(x)}
        /\ x = Base(ClusterOf(x)) /\ FirstOnChain(fat, d, Free(disk)) = {}
  /\ Chain(fat', head) = {head}
  /\ Chain(fat', 0) \subseteq Chain(fat, 0)
  /\ ClusterOf(x) \notin Chain(fat', 0)

(* What mfs_create and mfs_mkdir do to a volume that they do not wreck.    *)
LEMMA MakeEffects ==
  ASSUME IInv, status = "ok", NEW p, NEW n, NEW attr, Make(p, n, attr), status' = "ok",
         get_cluster_number(fat, disk, p) \in AllHeads
  PROVE  LET d == get_cluster_number(fat, disk, p) IN
         d # 0 /\ \E head \in find_empty_fat_index(fat), x \in Addr : MadeAt(d, n, attr, head, x)
<1> DEFINE d == get_cluster_number(fat, disk, p)
<1>1. PICK head \in find_empty_fat_index(fat) :
        LET f == write_in_fat_index(fat, head, EndMark)
        IN  IF d = 0 THEN fat' = f /\ Wreck
            ELSE alloc_new_dirent(f, d, Dirent(attr, n, head, 0))
  BY DEF Make
<1> DEFINE f == write_in_fat_index(fat, head, EndMark)
           de == Dirent(attr, n, head, 0)
<1>2. d # 0 /\ alloc_new_dirent(f, d, de)
  BY <1>1 DEF Wreck
<1>3. ChainsApart(fat, AllHeads) /\ AllHeads \in SUBSET Cluster /\ fat \in Table /\ TypeOK
  BY ApartNow DEF IInv
<1>4. head \in Cluster /\ (head # 0 => head \in Index /\ fat[head] = 0)
  BY FoundIsUnused
<1>5. f \in Table /\ f[head] = EndMark /\ \A i \in Cluster : i # head => f[i] = fat[i]
  BY <1>3, <1>4, WriteKeepsTable DEF write_in_fat_index, Table
<1>6. ChainsApart(f, AllHeads) /\ ChainsApart(f, AllHeads \cup {head})
  <2>1. ChainsApart(f, AllHeads \cup {head})
    BY <1>3, MarkKeepsApart
  <2> QED
    BY <2>1, FewerHeads
<1>7. \A e \in AllHeads \ {0} : Chain(f, e) = Chain(fat, e) /\ Walk(f, e) = Walk(fat, e)
  BY <1>3, MarkedChain
<1>8. Chain(f, head) = {head} /\ Chain(f, 0) \subseteq Chain(fat, 0)
  BY <1>3, <1>4, <1>5, ChainOfOne, ZeroMarked
<1>9. head \notin Chain(fat, d)
  BY <1>2, <1>3, <1>4, ChainInUse, NotAnIndex
<1>10. Chain(f, d) \cap Chain(f, 0) = {}
  BY <1>2, <1>3, <1>5, <1>6, ZeroChain
<1>11. d \in AllHeads \ {0} /\ d \in Cluster /\ Chain(f, d) = Chain(fat, d)
  BY <1>2, <1>3, <1>7
<1>12. EndMark # 0
  BY FatAssumption
<1>12a. FirstOnChain(f, d, Free(disk)) = FirstOnChain(fat, d, Free(disk))
  BY <1>7, <1>11, SameSearch
<1>13. CASE /\ fat' = f
            /\ \E x \in FirstOnChain(f, d, Free(disk)) : disk' = [disk EXCEPT ![x] = de]
  <2>1. PICK x \in FirstOnChain(f, d, Free(disk)) : disk' = [disk EXCEPT ![x] = de]
    BY <1>13
  <2>2. x \in Addr /\ ClusterOf(x) \in Index /\ ClusterOf(x) \in Chain(f, d)
    BY <1>5, <1>11, SearchOnChain DEF ClusterOf
  <2>3. disk[x] = Blank
    BY SearchIsSound DEF Free
  <2>4. f[ClusterOf(x)] # 0
    BY <1>5, <1>6, <1>3, <2>2, ChainInUse
  <2>5. ClusterOf(x) # head /\ ClusterOf(x) \notin Chain(f, 0)
    BY <1>9, <1>10, <1>11, <2>2
  <2> HIDE DEF d, f, de
  <2>6. MadeAt(d, n, attr, head, x)
    BY <1>4, <1>5, <1>7, <1>8, <1>11, <1>12, <1>12a, <1>13, <2>1, <2>2, <2>3, <2>4, <2>5
       DEF MadeAt, KeepsWalk, de
  <2> QED
    BY <1>2, <2>2, <2>6 DEF d
<1>14. CASE /\ FirstOnChain(f, d, Free(disk)) = {}
            /\ \E tail \in Cluster, new \in find_empty_fat_index(f) :
               /\ tail \in Chain(f, d)
               /\ f[tail] = EndMark
               /\ fat' = Extended(f, tail, new)
               /\ IF new = 0 THEN Wreck
                  ELSE /\ disk' = [disk EXCEPT ![Base(new)] = de]
                       /\ UNCHANGED status
  <2>1. PICK tail \in Cluster, new \in find_empty_fat_index(f) :
               /\ tail \in Chain(f, d)
               /\ f[tail] = EndMark
               /\ fat' = Extended(f, tail, new)
               /\ new # 0
               /\ disk' = [disk EXCEPT ![Base(new)] = de]
    BY <1>14 DEF Wreck
  <2>2. new \in Index /\ f[new] = 0 /\ new \in Cluster
    BY <2>1, FoundIsUnused
  <2>3. new # head /\ fat[new] = 0
    BY <1>5, <1>12, <2>2
  <2> DEFINE g == Extended(f, tail, new)
             x == Base(new)
  <2>4. /\ tail # new
        /\ \A i \in Cluster : g[i] = IF i = new THEN EndMark ELSE IF i = tail THEN new ELSE f[i]
    BY <1>5, <2>1, <2>2, ExtendedFat
  <2>5. x \in Addr /\ ClusterOf(x) = new
    <3>1. 0 \in 0..(CS - 1)
      BY MfsAssumption
    <3>2. Base(new) \in Int
      BY <2>2, MfsAssumption, FatAssumption DEF Base, Index
    <3>3. Base(new) + 0 \in Addr /\ (Base(new) + 0) \div CS + 2 = new
      BY <2>2, <3>1, SlotOfCluster
    <3> QED
      BY <3>2, <3>3 DEF ClusterOf
  <2>5a. x = Base(ClusterOf(x))
    BY <2>5
  <2>6. Chain(g, d) = Chain(fat, d) \cup {new}
    BY <1>3, <1>5, <1>6, <1>11, <2>1, <2>2, ExtendedChain
  <2>7. \A e \in AllHeads \ {0} : e # d => Chain(g, e) = Chain(fat, e)
    <3> SUFFICES ASSUME NEW e \in AllHeads \ {0}, e # d PROVE Chain(g, e) = Chain(fat, e)
      OBVIOUS
    <3>1. tail \notin Chain(f, e)
      BY <1>3, <1>5, <1>6, <1>11, <2>1, HeadsApart
    <3>2. Chain(g, e) = Chain(f, e)
      BY <3>1, <1>3, <1>5, <1>6, <2>1, <2>2, ExtendedChain
    <3> QED
      BY <3>2, <1>7
  <2>7a. \A e \in AllHeads \ {0} : KeepsWalk(fat, g, e)
    <3>1. \A e \in AllHeads : KeepsWalk(f, g, e)
      BY <1>3, <1>5, <1>6, <2>1, <2>2, ExtendedWalk
    <3> QED
      BY <3>1, <1>7 DEF KeepsWalk
  <2>8. Chain(g, head) = {head}
    <3>1. head \in AllHeads \cup {head} /\ AllHeads \cup {head} \in SUBSET Cluster
      BY <1>3, <1>4
    <3>2. tail \notin Chain(f, head)
      BY <1>8, <1>9, <1>11, <2>1
    <3> DEFINE G == AllHeads \cup {head}
    <3> HIDE DEF G
    <3>3. ChainsApart(f, G) /\ head \in G /\ G \in SUBSET Cluster
      BY <1>6, <3>1 DEF G
    <3>4. Chain(g, head) = Chain(f, head)
      BY <3>2, <3>3, <1>5, <2>1, <2>2, ExtendedChain
    <3> QED
      BY <3>4, <1>8
  <2>9. Chain(g, 0) \subseteq Chain(fat, 0) /\ new \notin Chain(g, 0)
    <3>1. tail \notin Chain(f, 0)
      BY <1>10, <2>1
    <3>2. Chain(g, 0) \subseteq Chain(f, 0) /\ new \notin Chain(f, 0)
      BY <3>1, <1>3, <1>5, <1>6, <2>1, <2>2, ZeroExtended
    <3> QED
      BY <3>2, <1>8
  <2>10. g[new] # 0 /\ \A i \in Cluster : fat[i] # 0 => g[i] # 0
    BY <1>5, <1>12, <2>2, <2>4, NotAnIndex
  <2>11. \A i \in Cluster : g[i] # 0 => fat[i] # 0 \/ i = head \/ i \in Chain(g, d)
    <3> SUFFICES ASSUME NEW i \in Cluster, g[i] # 0, fat[i] = 0, i # head, i # new
                 PROVE  FALSE
      BY <2>6
    <3>1. f[i] = 0 /\ i # tail
      BY <1>5, <2>1, <1>12
    <3> QED
      BY <3>1, <2>4
  <2>12. fat' = g
    BY <2>1
  <2> HIDE DEF d, f, g, x, de
  <2>13. disk' = [disk EXCEPT ![x] = de]
    BY <2>1 DEF x
  <2>14. MadeAt(d, n, attr, head, x)
    BY <1>4, <1>12a, <1>14, <2>2, <2>3, <2>5, <2>5a, <2>6, <2>7, <2>7a, <2>8, <2>9, <2>10,
       <2>11, <2>12, <2>13
       DEF MadeAt, de
  <2> QED
    BY <1>2, <2>5, <2>14 DEF d
<1> QED
  BY <1>2, <1>13, <1>14 DEF alloc_new_dirent

-----------------------------------------------------------------------------
(* Where the entries lie: in clusters that are in use, and each directory's *)
(* before its free slots, so that a search for a free slot or for the      *)
(* entry finds the entry.                                                  *)

EntriesInUse ==
  status = "ok" =>
    \A a \in EntryAddrs : /\ ClusterOf(a) \in Index /\ fat[ClusterOf(a)] # 0
                          /\ ClusterOf(a) \notin Chain(fat, 0)
EntriesPacked ==
  status = "ok" =>
    \A d \in DirHeads \ {0} : \A a \in Listed(d) :
      FirstOnChain(fat, d, Free(disk) \cup {a}) = {a}
NInv == CInv /\ EntriesInUse /\ EntriesPacked

(* What is listed is found, and what is found is listed.                   *)
LEMMA ListedIsFound ==
  ASSUME IInv, status = "ok", NEW d \in AllHeads, NEW a \in Listed(d)
  PROVE  mfs_lookup(fat, disk, d, disk[a].name) # {}
<1>1. Ends(fat, d)
  BY ApartNow, WalkEnds
<1>2. a \in Addr \cap Named(disk, FileOrDir, disk[a].name) /\ a \div CS + 2 \in Chain(fat, d)
  BY DEF Listed, EntryAddrs, Named
<1> QED
  BY <1>1, <1>2, SearchComplete DEF mfs_lookup

(* The new slot held no entry, so a new entry adds to those there are.     *)
LEMMA MadeEntries ==
  ASSUME NInv, status = "ok", NEW d, NEW n \in Names, NEW attr \in FileOrDir, NEW head,
         NEW x, MadeAt(d, n, attr, head, x)
  PROVE  /\ x \notin EntryAddrs /\ EntryAddrs' = EntryAddrs \cup {x}
         /\ disk'[x] = Dirent(attr, n, head, 0)
         /\ disk'[x].attr = attr /\ disk'[x].name = n
         /\ disk'[x].head = head /\ disk'[x].size = 0
         /\ \A a \in EntryAddrs : disk'[a] = disk[a]
<1>1. x \notin EntryAddrs
  BY DEF MadeAt, NInv, EntriesInUse, EntryAddrs, Blank, FileOrDir
<1>2. /\ disk'[x] = Dirent(attr, n, head, 0)
      /\ \A a \in Addr : a # x => disk'[a] = disk[a]
  BY DEF MadeAt, NInv, CInv, IInv, TypeOK
<1>3. disk'[x].attr = attr /\ disk'[x].name = n /\ disk'[x].head = head /\ disk'[x].size = 0
  BY <1>2 DEF Dirent
<1>4. EntryAddrs' = EntryAddrs \cup {x}
  BY <1>1, <1>2, <1>3 DEF EntryAddrs, MadeAt
<1>5. \A a \in EntryAddrs : disk'[a] = disk[a]
  BY <1>1, <1>2 DEF EntryAddrs
<1> QED
  BY <1>1, <1>2, <1>3, <1>4, <1>5

(* A new entry is listed in its directory and in no other, and is the only *)
(* one that appears anywhere.                                              *)
LEMMA MadeListed ==
  ASSUME NInv, status = "ok", CInv', status' = "ok", NEW d \in DirHeads \ {0},
         NEW n \in Names, NEW attr \in FileOrDir, NEW head, NEW x,
         MadeAt(d, n, attr, head, x)
  PROVE  /\ Listed(d)' = Listed(d) \cup {x}
         /\ \A e \in AllHeads \ {0} : e # d => Listed(e)' = Listed(e)
         /\ Listed(head)' = {}
<1>1. /\ x \notin EntryAddrs /\ EntryAddrs' = EntryAddrs \cup {x}
      /\ \A a \in EntryAddrs : fat[ClusterOf(a)] # 0 /\ ClusterOf(a) \in Index
                               /\ ClusterOf(a) \notin Chain(fat, 0)
  BY MadeEntries DEF NInv, EntriesInUse
<1>2. \A e : Listed(e)' = {a \in EntryAddrs' : ClusterOf(a) \in Chain(fat', e)}
  BY DEF Listed, ClusterOf
<1>3. \A e : Listed(e) = {a \in EntryAddrs : ClusterOf(a) \in Chain(fat, e)}
  BY DEF Listed, ClusterOf
<1>4. Listed(d)' = Listed(d) \cup {x}
  BY <1>1, <1>2, <1>3 DEF MadeAt
<1>5. ASSUME NEW e \in AllHeads \ {0}, e # d PROVE Listed(e)' = Listed(e)
  <2>1. d \in AllHeads' /\ e \in AllHeads'
    <3>1. AllHeads \subseteq AllHeads'
      BY MadeEntries DEF AllHeads, Heads
    <3> QED
      BY <3>1, DirHeadsAreHeads
  <2>2. (ChainsApart(fat, AllHeads) /\ AllHeads \in SUBSET Cluster /\ fat \in Table)'
    <3>1. (IInv /\ status = "ok")'
      BY DEF CInv
    <3> QED
      BY <3>1, ApartNow, PTL
  <2>3. Chain(fat', d) \cap Chain(fat', e) = {}
    BY <1>5, <2>1, <2>2, HeadsApart
  <2>4. ClusterOf(x) \notin Chain(fat', e) /\ Chain(fat', e) = Chain(fat, e)
    BY <1>5, <2>3 DEF MadeAt
  <2> QED
    BY <1>1, <1>2, <1>3, <2>4
<1>6. Listed(head)' = {}
  BY <1>1, <1>2, NotAnIndex DEF MadeAt
<1> QED
  BY <1>4, <1>5, <1>6

(* A new entry has no free slot before it: it took the first, or there was *)
(* none and it is at the start of a cluster of its own.                    *)
LEMMA MadePacked ==
  ASSUME NInv, status = "ok", CInv', status' = "ok", NEW d \in DirHeads \ {0},
         NEW n \in Names, NEW attr \in FileOrDir, NEW head, NEW x,
         MadeAt(d, n, attr, head, x)
  PROVE  /\ \A a \in Addr : disk'[a] = Blank => disk[a] = Blank
         /\ FirstOnChain(fat', d, Free(disk') \cup {x}) = {x}
<1>1. x \in Addr /\ d \in AllHeads \ {0} /\ KeepsWalk(fat, fat', d)
  BY DirHeadsAreHeads DEF MadeAt
<1>2. \A a \in Addr : disk'[a] = Blank => disk[a] = Blank /\ a # x
  BY DEF MadeAt, NInv, CInv, IInv, TypeOK, Dirent, Blank
<1>3. CASE x \in FirstOnChain(fat, d, Free(disk))
  <2>1. Free(disk') \cup {x} \in SUBSET Free(disk)
    BY <1>2, <1>3, SearchIsSound DEF Free
  <2> QED
    BY <1>1, <1>2, <1>3, <2>1, SearchAgain
<1>4. CASE /\ Chain(fat', d) = Chain(fat, d) \cup {ClusterOf(x)}
           /\ x = Base(ClusterOf(x)) /\ FirstOnChain(fat, d, Free(disk)) = {}
  <2> DEFINE S == Free(disk') \cup {x}
  <2>1. /\ Ends(fat, d)
        /\ Ends(fat', d) /\ fat' \in Table /\ d \in Cluster
    <3>1. ChainsApart(fat, AllHeads) /\ AllHeads \in SUBSET Cluster /\ fat \in Table
      BY ApartNow DEF NInv, CInv
    <3>2. (ChainsApart(fat, AllHeads) /\ AllHeads \in SUBSET Cluster /\ fat \in Table)'
      <4>1. (IInv /\ status = "ok")'
        BY DEF CInv
      <4> QED
        BY <4>1, ApartNow, PTL
    <3>3. d \in AllHeads'
      BY <1>1, MadeEntries DEF AllHeads, Heads
    <3> QED
      BY <1>1, <3>1, <3>2, <3>3, WalkEnds
  <2>2. x \in Addr \cap S /\ x \div CS + 2 \in Chain(fat', d)
    BY <1>1, <1>4 DEF ClusterOf
  <2>3. PICK y : y \in FirstOnChain(fat', d, S)
    BY <2>1, <2>2, SearchComplete
  <2>4. y \in S /\ y \in Addr /\ y \div CS + 2 \in Chain(fat', d)
    BY <2>1, <2>3, SearchOnChain, SearchIsSound
  <2>5. CASE y \div CS + 2 = x \div CS + 2
    <3>1. Base(y \div CS + 2) \in S
      BY <1>4, <2>5 DEF ClusterOf
    <3>2. y = Base(y \div CS + 2)
      BY <2>1, <2>3, <3>1, FirstInCluster
    <3>3. y = x
      BY <1>4, <2>5, <3>2 DEF ClusterOf
    <3> HIDE DEF S
    <3>4. FirstOnChain(fat', d, S) = {x}
      BY <2>3, <3>3, SearchFindsOne
    <3> QED
      BY <1>2, <3>4 DEF S
  <2>6. CASE y \div CS + 2 # x \div CS + 2
    <3>1. y \in Addr \cap Free(disk) /\ y \div CS + 2 \in Chain(fat, d)
      BY <1>2, <1>4, <2>4, <2>6 DEF Free, ClusterOf
    <3> QED
      BY <1>4, <2>1, <3>1, SearchComplete
  <2> QED
    BY <1>2, <2>5, <2>6
<1> QED
  BY <1>2, <1>3, <1>4 DEF MadeAt

(* A new entry is in use, and behind those of its directory.               *)
LEMMA MakeKeepsEntries ==
  ASSUME NInv, status = "ok", CInv', NEW p \in Paths, NEW n \in Names,
         NEW attr \in FileOrDir, IsDir(fat, disk, p), Make(p, n, attr)
  PROVE  EntriesInUse' /\ EntriesPacked'
<1> SUFFICES ASSUME status' = "ok" PROVE EntriesInUse' /\ EntriesPacked'
  BY DEF EntriesInUse, EntriesPacked
<1>0. PICK d : d = get_cluster_number(fat, disk, p)
  OBVIOUS
<1>1. d \in DirHeads /\ d \in AllHeads
  BY <1>0, DirLeadsToHead, DirHeadsAreHeads
<1>2. PICK head \in find_empty_fat_index(fat), x \in Addr :
        d # 0 /\ MadeAt(d, n, attr, head, x)
  BY <1>0, <1>1, MakeEffects DEF NInv, CInv
<1>4. /\ x \notin EntryAddrs /\ EntryAddrs' = EntryAddrs \cup {x}
      /\ disk'[x].attr = attr /\ disk'[x].name = n /\ disk'[x].head = head
      /\ \A a \in EntryAddrs : disk'[a] = disk[a]
  BY <1>2, MadeEntries
<1>5. EntriesInUse'
  <2>1. ASSUME NEW a \in EntryAddrs
        PROVE  /\ ClusterOf(a) \in Index /\ fat'[ClusterOf(a)] # 0
               /\ ClusterOf(a) \notin Chain(fat', 0)
    <3>1. ClusterOf(a) \in Index /\ fat[ClusterOf(a)] # 0 /\ ClusterOf(a) \notin Chain(fat, 0)
      BY DEF NInv, EntriesInUse
    <3> QED
      BY <1>2, <3>1 DEF MadeAt, Cluster
  <2>2. /\ ClusterOf(x) \in Index /\ fat'[ClusterOf(x)] # 0
        /\ ClusterOf(x) \notin Chain(fat', 0)
    BY <1>2 DEF MadeAt
  <2> QED
    BY <1>4, <2>1, <2>2 DEF EntriesInUse, ClusterOf
<1>6. EntriesPacked'
  <2> SUFFICES ASSUME NEW e \in DirHeads' \ {0}, NEW a \in Listed(e)'
               PROVE  FirstOnChain(fat', e, Free(disk') \cup {a}) = {a}
    BY DEF EntriesPacked
  <2>1. e \in DirHeads \/ e = head
    BY <1>4 DEF DirHeads
  <2>2. /\ Listed(d)' = Listed(d) \cup {x}
        /\ \A c \in AllHeads \ {0} : c # d => Listed(c)' = Listed(c)
        /\ Listed(head)' = {}
    BY <1>1, <1>2, MadeListed
  <2>3. e # head /\ e \in DirHeads /\ e \in AllHeads
    BY <2>1, <2>2, DirHeadsAreHeads
  <2>4. /\ \A y \in Addr : disk'[y] = Blank => disk[y] = Blank
        /\ FirstOnChain(fat', d, Free(disk') \cup {x}) = {x}
    BY <1>1, <1>2, MadePacked
  <2>5. CASE a \in Listed(e)
    <3>1. a \in FirstOnChain(fat, e, Free(disk) \cup {a})
      BY <2>3, <2>5 DEF NInv, EntriesPacked
    <3>2. Free(disk') \cup {a} \in SUBSET (Free(disk) \cup {a})
      BY <2>4 DEF Free
    <3>3. KeepsWalk(fat, fat', e)
      BY <1>2, <2>3 DEF MadeAt
    <3> QED
      BY <3>1, <3>2, <3>3, SearchAgain
  <2>6. CASE e = d /\ a = x
    BY <2>4, <2>6
  <2> QED
    BY <2>2, <2>3, <2>5, <2>6
<1> QED
  BY <1>5, <1>6

(* What a write does to the entries, the heads and the chains.             *)
LEMMA WriteEffects ==
  ASSUME IInv, NEW p \in Paths, NEW n, NEW off \in 0..MaxSize, NEW buf,
         WriteFile(p, n, off, buf), status' = "ok"
  PROVE  /\ \A a \in EntryAddrs' :
              /\ a \in EntryAddrs /\ disk'[a].name = disk[a].name
              /\ disk'[a].attr = disk[a].attr
              /\ \E b \in EntryAddrs : /\ disk'[a].head = disk[b].head
                                       /\ disk'[a].attr = disk[b].attr
         /\ \A e \in AllHeads \cup {0} :
              \A i \in Chain(fat', e) : i \in Chain(fat, e) \/ fat[i] = 0
         /\ \A i \in Index : fat[i] # 0 => fat'[i] # 0
         /\ \A e \in AllHeads : KeepsWalk(fat, fat', e)
         /\ \A a \in Addr : disk'[a] = Blank => disk[a] = Blank
<1>0. PICK d : d = get_cluster_number(fat, disk, p)
  OBVIOUS
<1>1. PICK b \in get_dentry(fat, disk, d, n), c \in Cluster :
        /\ KeepsWalk(fat, fat', d) /\ Store(fat', d, disk[b], c, off % CS, buf)
        /\ \/ fat' = fat
           \/ \E tail \in Chain(fat, disk[b].head) \cap Cluster, new \in Index :
                fat[tail] = EndMark /\ fat[new] = 0 /\ fat' = Extended(fat, tail, new)
  <2>1. WriteShape(d, n, off, buf)
    BY <1>0, WriteCases
  <2> QED
    BY <2>1 DEF WriteShape
<1>2. b \in EntryAddrs /\ status = "ok" /\ TypeOK
      /\ ChainsApart(fat, AllHeads) /\ AllHeads \in SUBSET Cluster /\ fat \in Table
  BY FoundIsEntry, ApartNow DEF IInv, WriteFile, WriteEntry
<1>3. PICK s \in EntryAddrs :
        /\ disk[s].name = n /\ disk[s].attr = "file"
        /\ \A a \in Addr : disk'[a] = Blank => disk[a] = Blank
        /\ s \in EntryAddrs' => Grown(disk'[s], disk[b], valid_len(Len(buf), off % CS))
        /\ \A a \in EntryAddrs' : a # s => a \in EntryAddrs /\ disk'[a] = disk[a]
  <2> DEFINE g == fat'
  <2>1. KeepsWalk(fat, g, d) /\ Store(g, d, disk[b], c, off % CS, buf)
    BY <1>1
  <2> HIDE DEF g
  <2>2. Updated(g, d, b, n, valid_len(Len(buf), off % CS))
    BY <1>2, <2>1, StoreChanges
  <2> QED
    BY <2>2 DEF Updated
<1>4. disk[b].name = n /\ disk[b].attr = "file"
  <2>1. b \in Named(disk, {"file"}, n)
    BY SearchIsSound DEF get_dentry
  <2> QED
    BY <2>1 DEF Named
<1>5. ASSUME NEW e \in AllHeads \cup {0}, NEW i \in Chain(fat', e)
      PROVE  i \in Chain(fat, e) \/ fat[i] = 0
  <2>1. CASE fat' = fat
    BY <2>1
  <2>2. ASSUME NEW tail \in Chain(fat, disk[b].head) \cap Cluster, NEW new \in Index,
               fat[tail] = EndMark, fat[new] = 0, fat' = Extended(fat, tail, new)
        PROVE  i \in Chain(fat, e) \/ fat[i] = 0
    <3>1. Chain(fat', e) \subseteq Chain(fat, e) \cup {new}
      BY <2>2, <1>2, ExtendedChain, ZeroExtended
    <3> QED
      BY <3>1, <2>2
  <2> QED
    BY <1>1, <2>1, <2>2
<1>6. ASSUME NEW a \in EntryAddrs'
      PROVE  /\ a \in EntryAddrs /\ disk'[a].name = disk[a].name
             /\ disk'[a].attr = disk[a].attr
             /\ \E q \in EntryAddrs : /\ disk'[a].head = disk[q].head
                                      /\ disk'[a].attr = disk[q].attr
  <2>1. CASE a = s
    BY <1>2, <1>3, <1>4, <2>1 DEF Grown
  <2>2. CASE a # s
    BY <1>3, <2>2
  <2> QED
    BY <2>1, <2>2
<1>7. ASSUME NEW i \in Index, fat[i] # 0 PROVE fat'[i] # 0
  <2>1. i \in Cluster /\ EndMark # 0
    BY FatAssumption DEF Cluster
  <2>2. CASE fat' = fat
    BY <1>7, <2>2
  <2>3. ASSUME NEW tail \in Chain(fat, disk[b].head) \cap Cluster, NEW new \in Index,
               fat[tail] = EndMark, fat[new] = 0, fat' = Extended(fat, tail, new)
        PROVE  fat'[i] # 0
    BY <1>2, <1>7, <2>1, <2>3, ExtendedFat, NotAnIndex
  <2> QED
    BY <1>1, <2>2, <2>3
<1>8. ASSUME NEW e \in AllHeads PROVE KeepsWalk(fat, fat', e)
  BY <1>1, <1>2, SameWalk, ExtendedWalk
<1> QED
  BY <1>3, <1>5, <1>6, <1>7, <1>8

(* A write adds no entry to a directory, moves none and renames none; a    *)
(* chain it lengthens gets a cluster without entries.                      *)
LEMMA WriteListed ==
  ASSUME NInv, NEW p \in Paths, NEW n, NEW off \in 0..MaxSize, NEW buf,
         WriteFile(p, n, off, buf), status' = "ok"
  PROVE  /\ DirHeads' \subseteq DirHeads
         /\ \A e \in AllHeads : \A a \in Listed(e)' :
              a \in Listed(e) /\ disk'[a].name = disk[a].name
<1>1. status = "ok" /\ \A a \in EntryAddrs : ClusterOf(a) \in Index /\ fat[ClusterOf(a)] # 0
  BY DEF NInv, EntriesInUse, WriteFile
<1>2. \A a \in EntryAddrs' :
        /\ a \in EntryAddrs /\ disk'[a].name = disk[a].name
        /\ \E b \in EntryAddrs : /\ disk'[a].head = disk[b].head
                                 /\ disk'[a].attr = disk[b].attr
  BY WriteEffects DEF NInv, CInv
<1>3. \A e \in AllHeads \cup {0} :
        \A i \in Chain(fat', e) : i \in Chain(fat, e) \/ fat[i] = 0
  BY WriteEffects DEF NInv, CInv
<1>4. DirHeads' \subseteq DirHeads
  BY <1>2 DEF DirHeads
<1>5. ASSUME NEW e \in AllHeads, NEW a \in Listed(e)'
      PROVE  a \in Listed(e) /\ disk'[a].name = disk[a].name
  <2>1. a \in EntryAddrs' /\ ClusterOf(a) \in Chain(fat', e)
    BY DEF Listed, ClusterOf
  <2>2. a \in EntryAddrs /\ disk'[a].name = disk[a].name
    BY <2>1, <1>2
  <2>3. ClusterOf(a) \in Chain(fat, e)
    BY <2>1, <2>2, <1>1, <1>3
  <2> QED
    BY <2>2, <2>3 DEF Listed, ClusterOf
<1> QED
  BY <1>4, <1>5

(* So the entries stay where they belong.                                  *)
LEMMA WriteKeepsEntries ==
  ASSUME NInv, NEW p \in Paths, NEW n, NEW off \in 0..MaxSize, NEW buf,
         WriteFile(p, n, off, buf)
  PROVE  EntriesInUse' /\ EntriesPacked'
<1> SUFFICES ASSUME status' = "ok" PROVE EntriesInUse' /\ EntriesPacked'
  BY DEF EntriesInUse, EntriesPacked
<1>1. status = "ok" /\ \A a \in EntryAddrs :
        /\ ClusterOf(a) \in Index /\ fat[ClusterOf(a)] # 0
        /\ ClusterOf(a) \notin Chain(fat, 0)
  BY DEF NInv, EntriesInUse, WriteFile
<1>2. /\ \A a \in EntryAddrs' : a \in EntryAddrs
      /\ \A e \in AllHeads : KeepsWalk(fat, fat', e)
      /\ \A a \in Addr : disk'[a] = Blank => disk[a] = Blank
  BY WriteEffects DEF NInv, CInv
<1>3. /\ \A e \in AllHeads \cup {0} :
           \A i \in Chain(fat', e) : i \in Chain(fat, e) \/ fat[i] = 0
      /\ \A i \in Index : fat[i] # 0 => fat'[i] # 0
  BY WriteEffects DEF NInv, CInv
<1>4. EntriesInUse'
  <2>1. \A a \in EntryAddrs' : /\ ClusterOf(a) \in Index /\ fat'[ClusterOf(a)] # 0
                               /\ ClusterOf(a) \notin Chain(fat', 0)
    BY <1>1, <1>2, <1>3
  <2> QED
    BY <2>1 DEF EntriesInUse, ClusterOf
<1>5. EntriesPacked'
  <2> SUFFICES ASSUME NEW e \in DirHeads' \ {0}, NEW a \in Listed(e)'
               PROVE  FirstOnChain(fat', e, Free(disk') \cup {a}) = {a}
    BY DEF EntriesPacked
  <2>1. e \in DirHeads \ {0} /\ e \in AllHeads /\ a \in Listed(e)
    BY WriteListed, DirHeadsAreHeads
  <2>2. a \in FirstOnChain(fat, e, Free(disk) \cup {a})
    BY <1>1, <2>1 DEF NInv, EntriesPacked
  <2>3. Free(disk') \cup {a} \in SUBSET (Free(disk) \cup {a})
    BY <1>2 DEF Free
  <2> QED
    BY <1>2, <2>1, <2>2, <2>3, SearchAgain
<1> QED
  BY <1>4, <1>5

(* The formatted volume satisfies the invariant.                           *)
LEMMA InitNInv == Init => NInv
<1> SUFFICES ASSUME Init PROVE EntriesInUse /\ EntriesPacked
  BY InitCInv DEF NInv
<1>1. EntryAddrs = {}
  BY DEF Init, EntryAddrs, Blank, FileOrDir
<1> QED
  BY <1>1 DEF EntriesInUse, EntriesPacked, Listed

(* Every step keeps it.                                                    *)
LEMMA NextNInv == NInv /\ [Next]_vars => NInv'
<1> SUFFICES ASSUME NInv, [Next]_vars PROVE NInv'
  OBVIOUS
<1>1. CInv'
  BY NextCInv DEF NInv
<1>2. CASE Create
  <2>1. PICK p \in Paths, n \in Names : mfs_create(p, n)
    BY <1>2 DEF Create
  <2> QED
    BY <1>1, <2>1, MakeKeepsEntries DEF mfs_create, FileOrDir, NInv
<1>3. CASE Mkdir
  <2>1. PICK p \in Paths, n \in Names : mfs_mkdir(p, n)
    BY <1>3 DEF Mkdir
  <2> QED
    BY <1>1, <2>1, MakeKeepsEntries DEF mfs_mkdir, FileOrDir, NInv
<1>4. CASE Write
  BY <1>1, <1>4, WriteKeepsEntries DEF Write, NInv
<1>5. CASE UNCHANGED vars
  BY <1>1, <1>5 DEF vars, NInv, EntriesInUse, EntriesPacked, DirHeads, EntryAddrs, Listed
<1> QED
  BY <1>2, <1>3, <1>4, <1>5 DEF Next

-----------------------------------------------------------------------------
(* The entry that was there first.                                         *)

(* A new entry, of whatever name, comes after what a search finds.         *)
LEMMA MakeKeepsFirst ==
  ASSUME NInv, status = "ok", CInv', status' = "ok", NEW d \in DirHeads \ {0},
         NEW m \in Names, NEW attr \in FileOrDir, NEW head, NEW x,
         MadeAt(d, m, attr, head, x), NEW e \in DirHeads \ {0}, NEW n
  PROVE  SearchesKept(e, n) /\ NotDoubled(e, n)
<1>1. /\ x \in Addr /\ x \notin EntryAddrs /\ EntryAddrs' = EntryAddrs \cup {x}
      /\ \A a \in EntryAddrs : disk'[a] = disk[a]
      /\ \A a \in Addr : a # x => disk'[a] = disk[a]
  <2>1. x \in Addr /\ \A a \in Addr : a # x => disk'[a] = disk[a]
    BY DEF MadeAt, NInv, CInv, IInv, TypeOK
  <2> QED
    BY <2>1, MadeEntries
<1>2. /\ e \in AllHeads \ {0} /\ e \in Cluster /\ fat \in Table
      /\ ChainsApart(fat, AllHeads) /\ AllHeads \in SUBSET Cluster /\ Ends(fat, e)
  BY DirHeadsAreHeads, ApartNow, WalkEnds DEF NInv, CInv
<1>3. ASSUME NEW attrs \in SUBSET FileOrDir, NEW a \in FirstOnChain(fat, e, Named(disk, attrs, n))
      PROVE  /\ disk'[a] = disk[a]
             /\ FirstOnChain(fat', e, Named(disk', attrs, n)) = {a}
  <2> DEFINE S == Named(disk, attrs, n)
             T == Free(disk) \cup {a}
             R == Named(disk', attrs, n)
  <2>1. a \in S /\ a \in EntryAddrs /\ S \in SUBSET Addr
    BY SearchIsSound DEF Named, EntryAddrs
  <2>2. a \in Listed(e)
    BY <1>2, <2>1, SearchOnChain DEF Listed
  <2>3. a \in FirstOnChain(fat, e, T)
    BY <2>2 DEF NInv, EntriesPacked
  <2>4. a \in FirstOnChain(fat, e, S \cup T)
    <3> HIDE DEF S, T
    <3> QED
      BY <1>3, <2>3, SearchUnion DEF S
  <2>5. S \cup T \in SUBSET Addr /\ R \in SUBSET (S \cup T \cup {x}) /\ a \in R
    BY <1>1, <2>1 DEF Free, Named, EntryAddrs
  <2>6. KeepsWalk(fat, fat', e)
    BY <1>2 DEF MadeAt
  <2> HIDE DEF S, R
  <2>7. CASE disk[x] = Blank
    <3>1. R \in SUBSET (S \cup T)
      BY <1>1, <2>5, <2>7 DEF Free
    <3> HIDE DEF T
    <3>2. FirstOnChain(fat', e, R) = {a}
      BY <2>4, <2>5, <2>6, <3>1, SearchAgain
    <3> QED
      BY <1>1, <2>1, <3>2 DEF R
  <2>8. CASE fat[ClusterOf(x)] = 0
    <3>1. ClusterOf(x) \notin Chain(fat, e)
      BY <1>2, <2>8, ChainInUse
    <3> DEFINE V == S \cup T
    <3> HIDE DEF T, V
    <3>2. a \in FirstOnChain(fat, e, V) /\ V \in SUBSET Addr
      BY <2>4, <2>5 DEF V
    <3>3. a \in FirstOnChain(fat, e, V \cup {x})
      <4>1. x \in Addr /\ Ends(fat, e) /\ fat \in Table /\ e \in Cluster
        BY <1>1, <1>2
      <4>2. FirstOnChain(fat, e, V \cup {x}) = {a}
        BY <3>1, <3>2, <4>1, SearchIgnores
      <4> QED
        BY <4>2
    <3>4. R \in SUBSET (V \cup {x})
      BY <2>5 DEF V
    <3>5. FirstOnChain(fat', e, R) = {a}
      BY <2>5, <2>6, <3>3, <3>4, SearchAgain
    <3> QED
      BY <1>1, <2>1, <3>5 DEF R
  <2> QED
    BY <2>7, <2>8 DEF MadeAt
<1>4. SearchesKept(e, n)
  BY <1>3 DEF SearchesKept
<1>5. NotDoubled(e, n)
  <2> SUFFICES ASSUME mfs_lookup(fat, disk, e, n) = {}, NEW a \in Listed(e)', NEW b \in Listed(e)',
                      disk'[a].name = n, disk'[b].name = n
               PROVE  a = b
    BY DEF NotDoubled
  <2>1. \A c \in Listed(e) : disk[c].name # n /\ c \in EntryAddrs
    BY <1>2, ListedIsFound DEF NInv, CInv, Listed
  <2>2. d \in AllHeads /\ Listed(e)' \subseteq Listed(e) \cup {x}
    BY <1>2, MadeListed, DirHeadsAreHeads
  <2> QED
    BY <1>1, <2>1, <2>2
<1> QED
  BY <1>4, <1>5

(* A write leaves the entries in their order.  It may write over the one   *)
(* it started from, and then changes the next of that name, which no       *)
(* search has found.                                                       *)
LEMMA WriteKeepsFirst ==
  ASSUME NInv, NEW p \in Paths, NEW m \in Names, NEW off \in 0..MaxSize,
         NEW buf \in Buffers, WriteFile(p, m, off, buf), status' = "ok",
         NEW e \in DirHeads \ {0}, NEW n
  PROVE  SearchesKept(e, n) /\ NotDoubled(e, n)
<1>0. PICK d : d = get_cluster_number(fat, disk, p)
  OBVIOUS
<1>1. PICK b \in get_dentry(fat, disk, d, m), c \in Cluster :
        /\ d \in DirHeads /\ KeepsWalk(fat, fat', d)
        /\ Store(fat', d, disk[b], c, off % CS, buf)
  <2>1. WriteShape(d, m, off, buf)
    BY <1>0, WriteCases DEF NInv, CInv
  <2> QED
    BY <2>1 DEF WriteShape
<1>2. /\ b \in EntryAddrs /\ status = "ok" /\ TypeOK
      /\ ChainsApart(fat, AllHeads) /\ AllHeads \in SUBSET Cluster /\ fat \in Table
      /\ d \in AllHeads /\ e \in AllHeads
  BY <1>1, FoundIsEntry, ApartNow, DirHeadsAreHeads DEF NInv, CInv, IInv, WriteFile
<1>3. disk[b].name = m /\ disk[b].attr = "file"
  <2>1. b \in Named(disk, {"file"}, m)
    BY SearchIsSound DEF get_dentry
  <2> QED
    BY <2>1 DEF Named
<1>4. PICK s \in EntryAddrs :
        /\ disk[s].name = m /\ disk[s].attr = "file"
        /\ s \in EntryAddrs' => \E S \in SUBSET Addr : s \in FirstOnChain(fat', d, S)
        /\ s \in EntryAddrs' => Grown(disk'[s], disk[b], valid_len(Len(buf), off % CS))
        /\ \A a \in EntryAddrs' : a # s => disk'[a] = disk[a]
  <2> DEFINE g == fat'
  <2>1. KeepsWalk(fat, g, d) /\ Store(g, d, disk[b], c, off % CS, buf)
    BY <1>1
  <2> HIDE DEF g
  <2>2. Updated(g, d, b, m, valid_len(Len(buf), off % CS))
    BY <1>2, <2>1, StoreChanges
  <2> QED
    BY <2>2 DEF Updated, g
<1>5. /\ \A a \in EntryAddrs' : /\ a \in EntryAddrs /\ disk'[a].name = disk[a].name
                               /\ disk'[a].attr = disk[a].attr
      /\ \A i \in Chain(fat', d) : i \in Chain(fat, d) \/ fat[i] = 0
      /\ KeepsWalk(fat, fat', e)
  BY <1>2, WriteEffects DEF NInv, CInv
<1>6. fat' \in Table
  <2>1. off \in Nat
    BY MfsAssumption
  <2> QED
    BY <1>2, <2>1, WriteFileTyped DEF TypeOK
<1>7. ASSUME NEW attrs \in SUBSET FileOrDir, NEW a \in FirstOnChain(fat, e, Named(disk, attrs, n)),
             disk'[a].attr \in FileOrDir
      PROVE  /\ disk'[a].head = disk[a].head /\ disk'[a].attr = disk[a].attr
             /\ FirstOnChain(fat', e, Named(disk', attrs, n)) = {a}
  <2> DEFINE S == Named(disk, attrs, n)
             R == Named(disk', attrs, n)
  <2>1. a \in S /\ a \in Addr /\ a \in EntryAddrs /\ a \in EntryAddrs'
    BY <1>7, SearchIsSound DEF Named, EntryAddrs
  <2>2. R \in SUBSET S /\ a \in R
    <3>1. ASSUME NEW y \in R PROVE y \in S
      <4>1. y \in EntryAddrs' /\ y \in Addr
        BY DEF Named, EntryAddrs
      <4> QED
        BY <4>1, <1>5 DEF Named
    <3>2. a \in R
      BY <1>5, <2>1 DEF Named
    <3> QED
      BY <3>1, <3>2
  <2>3. FirstOnChain(fat', e, R) = {a}
    <3> HIDE DEF S, R
    <3> QED
      BY <1>5, <1>7, <2>2, SearchAgain DEF S
  <2>4. disk'[a].head = disk[a].head
    <3>1. CASE a # s
      BY <1>4, <2>1, <3>1
    <3>2. CASE a = b
      BY <1>4, <2>1, <3>1, <3>2 DEF Grown
    <3>3. CASE a = s
      <4>1. ClusterOf(a) \in Chain(fat', d)
        BY <1>2, <1>4, <1>6, <2>1, <3>3, SearchOnChain DEF ClusterOf
      <4>2. ClusterOf(a) \in Chain(fat, d)
        BY <1>2, <1>5, <2>1, <4>1 DEF NInv, EntriesInUse
      <4>3. ClusterOf(a) \in Chain(fat, e)
        BY <1>2, SearchOnChain DEF ClusterOf
      <4>4. d = e
        BY <1>2, <4>2, <4>3, HeadsApart
      <4> DEFINE Q == Named(disk, {"file"}, m)
      <4>5. a \in Q /\ Q \in SUBSET S
        BY <1>4, <2>1, <3>3 DEF Named
      <4>6. b \in FirstOnChain(fat, d, Q)
        BY DEF get_dentry
      <4> HIDE DEF S, Q
      <4>7. a \in FirstOnChain(fat, d, S) /\ KeepsWalk(fat, fat, d)
        BY <1>7, <4>4, SameWalk DEF S
      <4>8. FirstOnChain(fat, d, Q) = {a}
        BY <4>5, <4>7, SearchAgain
      <4>9. a = b
        BY <4>6, <4>8
      <4> QED
        BY <3>2, <4>9
    <3> QED
      BY <3>1, <3>3
  <2> QED
    BY <1>5, <2>1, <2>3, <2>4
<1>8. SearchesKept(e, n)
  BY <1>7 DEF SearchesKept
<1>9. NotDoubled(e, n)
  <2>1. ASSUME mfs_lookup(fat, disk, e, n) = {}, NEW a \in Listed(e)', disk'[a].name = n
        PROVE  FALSE
    <3>1. a \in Listed(e) /\ disk[a].name = n
      BY <1>2, <2>1, WriteListed
    <3> QED
      BY <1>2, <2>1, <3>1, ListedIsFound DEF NInv, CInv
  <2> QED
    BY <2>1 DEF NotDoubled
<1> QED
  BY <1>8, <1>9

(* Every step keeps what the searches find.                                *)
LEMMA NextKeepsFirst ==
  NInv /\ Next /\ status' = "ok" =>
    \A e \in DirHeads \ {0}, n \in Names : SearchesKept(e, n) /\ NotDoubled(e, n)
<1> SUFFICES ASSUME NInv, Next, status' = "ok", NEW e \in DirHeads \ {0}, NEW n \in Names
             PROVE  SearchesKept(e, n) /\ NotDoubled(e, n)
  OBVIOUS
<1>1. CInv'
  BY NextCInv DEF NInv
<1>2. ASSUME status = "ok", NEW p \in Paths, NEW m \in Names, NEW attr \in FileOrDir,
             IsDir(fat, disk, p), Make(p, m, attr)
      PROVE  SearchesKept(e, n) /\ NotDoubled(e, n)
  <2>0. PICK d : d = get_cluster_number(fat, disk, p)
    OBVIOUS
  <2>1. d \in DirHeads /\ d \in AllHeads
    BY <1>2, <2>0, DirLeadsToHead, DirHeadsAreHeads
  <2>2. PICK head \in find_empty_fat_index(fat), x \in Addr :
          d # 0 /\ MadeAt(d, m, attr, head, x)
    BY <1>2, <2>0, <2>1, MakeEffects DEF NInv, CInv
  <2> QED
    BY <1>1, <1>2, <2>1, <2>2, MakeKeepsFirst
<1>3. CASE Create
  <2>1. PICK p \in Paths, m \in Names : mfs_create(p, m)
    BY <1>3 DEF Create
  <2> QED
    BY <1>2, <2>1 DEF mfs_create, FileOrDir
<1>4. CASE Mkdir
  <2>1. PICK p \in Paths, m \in Names : mfs_mkdir(p, m)
    BY <1>4 DEF Mkdir
  <2> QED
    BY <1>2, <2>1 DEF mfs_mkdir, FileOrDir
<1>5. CASE Write
  <2>1. PICK p \in Paths, m \in Names, off \in 0..MaxSize, buf \in Buffers :
          WriteFile(p, m, off, buf)
    BY <1>5 DEF Write
  <2> QED
    BY <2>1, WriteKeepsFirst
<1> QED
  BY <1>3, <1>4, <1>5 DEF Next

(* A name that is made again, in a directory of any size, however it has   *)
(* grown and whatever was written elsewhere, never hides the entry that    *)
(* was there first; and no call doubles a name that a lookup does not      *)
(* find: not a directory that grows into a cluster which was not cleared,  *)
(* nor data that run over their neighbour, nor a full volume.              *)
THEOREM FirstEntryAlwaysStays == Spec => FirstEntryStays
<1>1. Init => NInv
  BY InitNInv
<1>2. NInv /\ [Next]_vars =>
        /\ NInv'
        /\ [status' = "ok" =>
               \A d \in DirHeads \ {0}, n \in Names : SearchesKept(d, n) /\ NotDoubled(d, n)]_vars
  BY NextNInv, NextKeepsFirst
<1> QED
  BY <1>1, <1>2, PTL DEF Spec, FirstEntryStays

-----------------------------------------------------------------------------
(* Clients that look a name up before they make it.                        *)

DirNamesUnique ==
  status = "ok" =>
    \A d \in DirHeads \ {0} : \A a, b \in Listed(d) : disk[a].name = disk[b].name => a = b
LInv == NInv /\ DirNamesUnique

(* After a lookup that finds nothing, they give a directory a name it did  *)
(* not have, and lose no entry.                                            *)
LEMMA MakeKeepsNames ==
  ASSUME LInv, status = "ok", CInv', NEW p \in Paths, NEW n \in Names,
         NEW attr \in FileOrDir, IsDir(fat, disk, p), Absent(p, n), Make(p, n, attr)
  PROVE  DirNamesUnique'
<1> SUFFICES ASSUME status' = "ok" PROVE DirNamesUnique'
  BY DEF DirNamesUnique
<1>0. PICK d : d = get_cluster_number(fat, disk, p)
  OBVIOUS
<1>1. NInv /\ d \in DirHeads /\ d \in AllHeads
  BY <1>0, DirLeadsToHead, DirHeadsAreHeads DEF LInv
<1>2. PICK head \in find_empty_fat_index(fat), x \in Addr :
        d # 0 /\ MadeAt(d, n, attr, head, x)
  BY <1>0, <1>1, MakeEffects DEF NInv, CInv
<1>3. mfs_lookup(fat, disk, d, n) = {}
  BY <1>0 DEF Absent, Find
<1>4. /\ x \notin EntryAddrs /\ EntryAddrs' = EntryAddrs \cup {x}
      /\ disk'[x].attr = attr /\ disk'[x].name = n /\ disk'[x].head = head
      /\ \A a \in EntryAddrs : disk'[a] = disk[a]
  BY <1>1, <1>2, MadeEntries
<1> SUFFICES ASSUME NEW e \in DirHeads' \ {0}, NEW a \in Listed(e)', NEW b \in Listed(e)',
                    disk'[a].name = disk'[b].name
             PROVE  a = b
  BY DEF DirNamesUnique
<1>5. e \in DirHeads \/ e = head
  BY <1>4 DEF DirHeads
<1>6. /\ Listed(d)' = Listed(d) \cup {x}
      /\ \A c \in AllHeads \ {0} : c # d => Listed(c)' = Listed(c)
      /\ Listed(head)' = {}
  BY <1>1, <1>2, MadeListed
<1>7. e # head /\ e \in DirHeads /\ e \in AllHeads
  BY <1>5, <1>6, DirHeadsAreHeads
<1>8. \A c : Listed(c) \subseteq EntryAddrs
  BY DEF Listed
<1>9. \A c \in Listed(d) : disk[c].name # n
  BY <1>1, <1>3, ListedIsFound DEF NInv, CInv
<1>10. CASE a \in Listed(e) /\ b \in Listed(e)
  BY <1>4, <1>7, <1>8, <1>10 DEF LInv, DirNamesUnique
<1>11. CASE e = d /\ {a, b} \subseteq Listed(d) \cup {x} /\ x \in {a, b}
  BY <1>4, <1>8, <1>9, <1>11
<1> QED
  BY <1>6, <1>7, <1>10, <1>11

(* A write doubles no name.                                                *)
LEMMA WriteKeepsNames ==
  ASSUME LInv, NEW p \in Paths, NEW n, NEW off \in 0..MaxSize, NEW buf,
         WriteFile(p, n, off, buf)
  PROVE  DirNamesUnique'
<1> SUFFICES ASSUME status' = "ok" PROVE DirNamesUnique'
  BY DEF DirNamesUnique
<1> SUFFICES ASSUME NEW e \in DirHeads' \ {0}, NEW a \in Listed(e)', NEW b \in Listed(e)',
                    disk'[a].name = disk'[b].name
             PROVE  a = b
  BY DEF DirNamesUnique
<1>1. e \in DirHeads \ {0} /\ e \in AllHeads
  BY WriteListed, DirHeadsAreHeads DEF LInv
<1>2. a \in Listed(e) /\ b \in Listed(e) /\ disk[a].name = disk[b].name
  BY <1>1, WriteListed DEF LInv
<1> QED
  BY <1>1, <1>2 DEF LInv, DirNamesUnique, WriteFile

(* Every step of theirs keeps names apart.                                 *)
LEMMA NextLInv == LInv /\ [NextLookedUp]_vars => LInv'
<1> SUFFICES ASSUME LInv, [NextLookedUp]_vars PROVE LInv'
  OBVIOUS
<1>1. NInv' /\ CInv'
  BY LookedUpIsNext, NextNInv, NextCInv DEF LInv, NInv
<1>2. CASE CreateNew
  <2>1. PICK p \in Paths, n \in Names : Absent(p, n) /\ mfs_create(p, n)
    BY <1>2 DEF CreateNew
  <2> QED
    BY <1>1, <2>1, MakeKeepsNames DEF mfs_create, FileOrDir, LInv
<1>3. CASE MkdirNew
  <2>1. PICK p \in Paths, n \in Names : Absent(p, n) /\ mfs_mkdir(p, n)
    BY <1>3 DEF MkdirNew
  <2> QED
    BY <1>1, <2>1, MakeKeepsNames DEF mfs_mkdir, FileOrDir, LInv
<1>4. CASE Write
  BY <1>1, <1>4, WriteKeepsNames DEF Write, LInv
<1>5. CASE UNCHANGED vars
  BY <1>1, <1>5 DEF vars, LInv, DirNamesUnique, DirHeads, EntryAddrs, Listed
<1> QED
  BY <1>2, <1>3, <1>4, <1>5 DEF NextLookedUp

(* The formatted volume lists nothing.                                     *)
LEMMA InitLInv == Init => LInv
<1> SUFFICES ASSUME Init PROVE DirNamesUnique
  BY InitNInv DEF LInv
<1>1. EntryAddrs = {}
  BY DEF Init, EntryAddrs, Blank, FileOrDir
<1> QED
  BY <1>1 DEF DirNamesUnique, Listed

(* It says what the property does.                                         *)
LEMMA LInvIsUnique == LInv => NamesUnique
<1> SUFFICES ASSUME LInv, status = "ok", NEW p \in Paths, IsDir(fat, disk, p),
                    NEW a \in Listed(get_cluster_number(fat, disk, p)),
                    NEW b \in Listed(get_cluster_number(fat, disk, p)),
                    disk[a].name = disk[b].name
             PROVE  a = b
  BY DEF NamesUnique
<1> DEFINE d == get_cluster_number(fat, disk, p)
<1>1. d \in DirHeads
  BY DirLeadsToHead
<1>2. d # 0
  BY DEF LInv, NInv, EntriesInUse, Listed, ClusterOf
<1> QED
  BY <1>1, <1>2 DEF LInv, DirNamesUnique

(* Clients that look a name up on the volume before they make it, however  *)
(* they write, never make a directory list a name twice.                   *)
THEOREM LookedUpNamesAreUnique == SpecLookedUp => []NamesUnique
BY InitLInv, NextLInv, LInvIsUnique, PTL DEF SpecLookedUp

-----------------------------------------------------------------------------
(* No entry lies in a cluster of a file, so a write inside the clusters of *)
(* its file destroys none.                                                 *)
FilesHoldNoEntry ==
  status = "ok" =>
    \A a, b \in EntryAddrs :
      disk[b].attr = "file" => ClusterOf(a) \notin Chain(fat, disk[b].head)
FInv == NInv /\ FilesHoldNoEntry

(* A new entry lies in a cluster of no file.                               *)
LEMMA MakeKeepsFiles ==
  ASSUME FInv, status = "ok", CInv', NEW p \in Paths, NEW n \in Names,
         NEW attr \in FileOrDir, IsDir(fat, disk, p), Make(p, n, attr)
  PROVE  FilesHoldNoEntry'
<1> SUFFICES ASSUME status' = "ok" PROVE FilesHoldNoEntry'
  BY DEF FilesHoldNoEntry
<1>0. PICK d : d = get_cluster_number(fat, disk, p)
  OBVIOUS
<1>1. d \in DirHeads /\ d \in AllHeads
  BY <1>0, DirLeadsToHead, DirHeadsAreHeads
<1>2. PICK head \in find_empty_fat_index(fat), x \in Addr :
        d # 0 /\ MadeAt(d, n, attr, head, x)
  BY <1>0, <1>1, MakeEffects DEF FInv, NInv, CInv
<1>3. /\ x \notin EntryAddrs /\ EntryAddrs' = EntryAddrs \cup {x}
      /\ disk'[x].attr = attr /\ disk'[x].name = n /\ disk'[x].head = head
      /\ \A a \in EntryAddrs : disk'[a] = disk[a]
  BY <1>2, MadeEntries DEF FInv
<1>4. (ChainsApart(fat, AllHeads) /\ AllHeads \in SUBSET Cluster /\ fat \in Table)'
  <2>1. (IInv /\ status = "ok")'
    BY DEF CInv
  <2> QED
    BY <2>1, ApartNow, PTL
<1>5. \A a \in EntryAddrs : ClusterOf(a) \in Index /\ fat[ClusterOf(a)] # 0
                            /\ ClusterOf(a) \notin Chain(fat, 0)
  BY DEF FInv, NInv, EntriesInUse
<1>6. /\ ChainsApart(fat', AllHeads') /\ AllHeads' \in SUBSET Cluster /\ fat' \in Table
  BY <1>4
<1>7. AllHeads \subseteq AllHeads' /\ head \in AllHeads'
  BY <1>3 DEF AllHeads, Heads
<1>8. ASSUME NEW a \in EntryAddrs', NEW b \in EntryAddrs', disk'[b].attr = "file"
      PROVE  ClusterOf(a) \notin Chain(fat', disk'[b].head)
  <2>1. CASE b = x
    <3>1. Chain(fat', disk'[b].head) = {head} /\ head \in Cluster
          /\ (head # 0 => fat[head] = 0) /\ ClusterOf(x) # head
      BY <1>2, <1>3, <2>1 DEF MadeAt
    <3> QED
      BY <1>3, <1>5, <3>1, NotAnIndex
  <2>2. CASE b # x
    <3> DEFINE h == disk[b].head
    <3>1. b \in EntryAddrs /\ disk'[b] = disk[b] /\ disk[b].attr = "file"
      BY <1>3, <1>8, <2>2
    <3>2. h \in AllHeads
      BY <3>1 DEF AllHeads, Heads
    <3>3. CASE h = 0
      <4>1. Chain(fat', 0) \subseteq Chain(fat, 0) /\ ClusterOf(x) \notin Chain(fat', 0)
        BY <1>2 DEF MadeAt
      <4> QED
        BY <1>3, <1>5, <3>1, <3>3, <4>1
    <3>4. CASE h # 0
      <4>1. h # d
        BY <1>1, <3>1, <3>4 DEF DirHeads, FInv, NInv, CInv, OwnHeads
      <4>2. Chain(fat', h) = Chain(fat, h)
        BY <1>2, <3>2, <3>4, <4>1 DEF MadeAt
      <4>3. ClusterOf(x) \in Chain(fat', d)
        BY <1>2 DEF MadeAt
      <4>4. Chain(fat', d) \cap Chain(fat', h) = {}
        BY <1>1, <1>6, <1>7, <3>2, <4>1, HeadsApart
      <4> QED
        BY <1>3, <3>1, <4>2, <4>3, <4>4 DEF FInv, FilesHoldNoEntry
    <3> QED
      BY <3>3, <3>4
  <2> QED
    BY <2>1, <2>2
<1> QED
  BY <1>8 DEF FilesHoldNoEntry, ClusterOf

(* A write puts no entry into a file.                                      *)
LEMMA WriteKeepsFiles ==
  ASSUME FInv, NEW p \in Paths, NEW n, NEW off \in 0..MaxSize, NEW buf,
         WriteFile(p, n, off, buf)
  PROVE  FilesHoldNoEntry'
<1> SUFFICES ASSUME status' = "ok",
                    NEW a \in EntryAddrs', NEW b \in EntryAddrs', disk'[b].attr = "file"
             PROVE  ClusterOf(a) \notin Chain(fat', disk'[b].head)
  BY DEF FilesHoldNoEntry, ClusterOf
<1>1. status = "ok"
  BY DEF WriteFile, WriteEntry
<1>2. a \in EntryAddrs
  BY WriteEffects DEF FInv, NInv, CInv
<1>3. PICK q \in EntryAddrs : disk'[b].head = disk[q].head /\ disk[q].attr = "file"
  BY WriteEffects DEF FInv, NInv, CInv
<1>4. disk[q].head \in AllHeads
  BY DEF AllHeads, Heads
<1>5. \A i \in Chain(fat', disk[q].head) : i \in Chain(fat, disk[q].head) \/ fat[i] = 0
  BY <1>4, WriteEffects DEF FInv, NInv, CInv
<1>6. ClusterOf(a) \notin Chain(fat, disk[q].head) /\ fat[ClusterOf(a)] # 0
  BY <1>1, <1>2, <1>3 DEF FInv, FilesHoldNoEntry, NInv, EntriesInUse
<1> QED
  BY <1>3, <1>5, <1>6

(* The formatted volume satisfies the invariant.                           *)
LEMMA InitFInv == Init => FInv
<1> SUFFICES ASSUME Init PROVE FilesHoldNoEntry
  BY InitNInv DEF FInv
<1>1. EntryAddrs = {}
  BY DEF Init, EntryAddrs, Blank, FileOrDir
<1> QED
  BY <1>1 DEF FilesHoldNoEntry

(* Every step keeps it.                                                    *)
LEMMA NextFInv == FInv /\ [Next]_vars => FInv'
<1> SUFFICES ASSUME FInv, [Next]_vars PROVE FInv'
  OBVIOUS
<1>1. NInv' /\ CInv'
  BY NextNInv, NextCInv DEF FInv, NInv
<1>2. CASE Create
  <2>1. PICK p \in Paths, n \in Names : mfs_create(p, n)
    BY <1>2 DEF Create
  <2> QED
    BY <1>1, <2>1, MakeKeepsFiles DEF mfs_create, FileOrDir, FInv
<1>3. CASE Mkdir
  <2>1. PICK p \in Paths, n \in Names : mfs_mkdir(p, n)
    BY <1>3 DEF Mkdir
  <2> QED
    BY <1>1, <2>1, MakeKeepsFiles DEF mfs_mkdir, FileOrDir, FInv
<1>4. CASE Write
  BY <1>1, <1>4, WriteKeepsFiles DEF Write, FInv
<1>5. CASE UNCHANGED vars
  BY <1>1, <1>5 DEF vars, FInv, FilesHoldNoEntry, EntryAddrs
<1> QED
  BY <1>2, <1>3, <1>4, <1>5 DEF Next

-----------------------------------------------------------------------------
(* What a lookup finds is what the directory lists under the name.         *)

LookupsAgree ==
  \A d \in DirHeads : \A n, a :
    /\ a \in mfs_lookup(fat, disk, d, n) <=> a \in Listed(d) /\ disk[a].name = n
    /\ a \in get_dentry(fat, disk, d, n) <=>
         a \in Listed(d) /\ disk[a].name = n /\ disk[a].attr = "file"

(* A lookup of a name in a directory finds the entry of that name in the   *)
(* chain of the directory, and nothing else.                               *)
LEMMA LookupIs == LInv /\ status = "ok" => LookupsAgree
<1> SUFFICES ASSUME LInv, status = "ok", NEW d \in DirHeads, NEW n, NEW a
             PROVE  /\ a \in mfs_lookup(fat, disk, d, n) <=> a \in Listed(d) /\ disk[a].name = n
                    /\ a \in get_dentry(fat, disk, d, n) <=>
                         a \in Listed(d) /\ disk[a].name = n /\ disk[a].attr = "file"
  BY DEF LookupsAgree
<1>1. d \in AllHeads /\ d \in Cluster /\ fat \in Table
  BY DirHeadsAreHeads, ApartNow DEF LInv, NInv, CInv
<1>2. ASSUME NEW S, NEW b \in FirstOnChain(fat, d, S), S \subseteq EntryAddrs
      PROVE  b \in Listed(d) /\ b \in S
  BY <1>1, <1>2, SearchOnChain, SearchIsSound DEF Listed
<1>3. Named(disk, FileOrDir, n) \subseteq EntryAddrs /\ Named(disk, {"file"}, n) \subseteq EntryAddrs
  BY DEF Named, EntryAddrs, FileOrDir
<1>4. ASSUME NEW b \in mfs_lookup(fat, disk, d, n) PROVE b \in Listed(d) /\ disk[b].name = n
  BY <1>2, <1>3, <1>4 DEF mfs_lookup, Named
<1>5. ASSUME a \in get_dentry(fat, disk, d, n)
      PROVE  a \in Listed(d) /\ disk[a].name = n /\ disk[a].attr = "file"
  BY <1>2, <1>3, <1>5 DEF get_dentry, Named
<1>6. ASSUME a \in Listed(d), disk[a].name = n PROVE a \in mfs_lookup(fat, disk, d, n)
  <2>1. PICK b \in mfs_lookup(fat, disk, d, n) : TRUE
    BY <1>1, <1>6, ListedIsFound DEF LInv, NInv, CInv
  <2>2. b \in Listed(d) /\ disk[b].name = n
    BY <1>4
  <2>3. d # 0
    BY <1>6 DEF LInv, NInv, EntriesInUse, Listed, ClusterOf
  <2>4. a = b
    BY <1>6, <2>2, <2>3 DEF LInv, DirNamesUnique
  <2> QED
    BY <2>1, <2>4
<1>7. ASSUME a \in Listed(d), disk[a].name = n, disk[a].attr = "file"
      PROVE  a \in get_dentry(fat, disk, d, n)
  <2> DEFINE S == Named(disk, FileOrDir, n)
             R == Named(disk, {"file"}, n)
  <2>1. a \in FirstOnChain(fat, d, S)
    BY <1>6, <1>7 DEF mfs_lookup
  <2>2. R \in SUBSET S
    BY DEF Named, FileOrDir
  <2>3. a \in R
    BY <1>7 DEF Listed, EntryAddrs, Named
  <2>4. FirstOnChain(fat, d, R) = {a}
    <3> HIDE DEF S, R
    <3>1. KeepsWalk(fat, fat, d)
      BY SameWalk
    <3> QED
      BY <2>1, <2>2, <2>3, <3>1, SearchAgain
  <2> QED
    BY <2>4 DEF get_dentry
<1> QED
  BY <1>4, <1>5, <1>6, <1>7

(* A step that takes no entry away, and none out of its directory, leaves  *)
(* every directory where it was.                                           *)
KeepsTree ==
  /\ \A a \in EntryAddrs : /\ a \in EntryAddrs' /\ disk'[a].name = disk[a].name
                           /\ disk'[a].attr = disk[a].attr /\ disk'[a].head = disk[a].head
  /\ \A d \in DirHeads : \A a \in Listed(d) : a \in Listed(d)'

(* Where no entry is lost and each search finds what it found, a path      *)
(* leads where it led before.                                              *)
SearchesStay == \A d \in DirHeads \ {0}, n \in Names : SearchesKept(d, n)
LEMMA TreeKept ==
  ASSUME NInv, status = "ok", KeepsTree, SearchesStay,
         NEW p \in Paths, IsDir(fat, disk, p)
  PROVE  /\ IsDir(fat', disk', p)
         /\ get_cluster_number(fat', disk', p) = get_cluster_number(fat, disk, p)
<1> DEFINE c(k) == get_cluster_number(fat, disk, Prefix(p, k))
           e(k) == get_cluster_number(fat', disk', Prefix(p, k))
           T == {k \in Nat : k <= Len(p) => e(k) = c(k)}
<1>1. Len(p) \in Nat /\ Prefix(p, Len(p)) = p
  BY PathTyped
<1>2. ASSUME NEW k \in 1..Len(p), e(k - 1) = c(k - 1)
      PROVE  /\ e(k) = c(k)
             /\ \E a \in Find(fat', disk', Prefix(p, k - 1), p[k]) : disk'[a].attr = "dir"
  <2>1. PICK d : d = c(k - 1)
    OBVIOUS
  <2>2. d \in DirHeads
    <3>1. k - 1 \in 0..Len(p)
      BY <1>1
    <3> QED
      BY <2>1, <3>1, DirLeadsToHead
  <2>3. PICK a \in EntryAddrs :
           /\ a \in FirstOnChain(fat, d, Named(disk, FileOrDir, p[k]))
           /\ disk[a].attr = "dir"
           /\ c(k) = disk[a].head
    BY <2>1, DirStep
  <2>4. d # 0
    <3>1. d \in AllHeads /\ d \in Cluster /\ fat \in Table
      BY <2>2, DirHeadsAreHeads, ApartNow DEF NInv, CInv
    <3>2. ClusterOf(a) \in Chain(fat, d)
      BY <2>3, <3>1, SearchOnChain DEF ClusterOf
    <3> QED
      BY <2>3, <3>2 DEF NInv, EntriesInUse
  <2>5. /\ disk'[a].attr = "dir" /\ disk'[a].head = disk[a].head
        /\ disk'[a].name = disk[a].name
    BY <2>3 DEF KeepsTree
  <2>6. a \in mfs_lookup(fat', disk', d, p[k])
    <3>1. p[k] \in Names /\ FileOrDir \in (SUBSET FileOrDir) \ {{}} /\ "dir" \in FileOrDir
      <4>1. p[k] \in Names
        BY PathTyped
      <4> QED
        BY <4>1 DEF FileOrDir
    <3>2. FirstOnChain(fat', d, Named(disk', FileOrDir, p[k])) = {a}
      BY <2>2, <2>3, <2>4, <2>5, <3>1 DEF SearchesStay, SearchesKept
    <3> QED
      BY <3>2 DEF mfs_lookup
  <2>7. StepTo(fat', disk', d, p[k]) = disk'[a].head
    BY <2>5, <2>6, StepToFound DEF mfs_lookup
  <2>8. e(k) = StepTo(fat', disk', e(k - 1), p[k])
    BY PathStep
  <2>9. e(k) = c(k)
    BY <1>2, <2>1, <2>3, <2>5, <2>7, <2>8
  <2>10. a \in Find(fat', disk', Prefix(p, k - 1), p[k])
    BY <1>2, <2>1, <2>6 DEF Find
  <2> QED
    BY <2>5, <2>9, <2>10
<1>3. 0 \in T
  BY PathStep
<1>4. ASSUME NEW k \in Nat, k \in T PROVE k + 1 \in T
  <2> SUFFICES ASSUME k + 1 <= Len(p) PROVE e(k + 1) = c(k + 1)
    OBVIOUS
  <2>1. k + 1 \in 1..Len(p) /\ (k + 1) - 1 = k /\ e(k) = c(k)
    BY <1>1, <1>4
  <2> HIDE DEF e, c
  <2> QED
    BY <2>1, <1>2
<1> HIDE DEF e, c
<1>5. \A k \in Nat : k \in T
  BY <1>3, <1>4, Induction
<1>6. \A k \in 0..Len(p) : e(k) = c(k)
  BY <1>1, <1>5
<1>7. \A k \in 1..Len(p) :
         \E a \in Find(fat', disk', Prefix(p, k - 1), p[k]) : disk'[a].attr = "dir"
  <2> SUFFICES ASSUME NEW k \in 1..Len(p)
               PROVE  \E a \in Find(fat', disk', Prefix(p, k - 1), p[k]) : disk'[a].attr = "dir"
    OBVIOUS
  <2>1. k - 1 \in 0..Len(p)
    BY <1>1
  <2> QED
    BY <2>1, <1>2, <1>6
<1> QED
  BY <1>1, <1>6, <1>7 DEF IsDir, e, c

-----------------------------------------------------------------------------
(* Writes that stay in one cluster.                                        *)

TargetOf(c, co, buf) == (Base(c) + co)..(Base(c) + co + valid_len(Len(buf), co) - 1)

(* What such a write does: it grows entry b and fills its target, a piece  *)
(* of cluster c in which no entry lies.                                    *)
FitAt(b, c, co, buf) ==
  /\ EntryAddrs' = EntryAddrs
  /\ b \notin TargetOf(c, co, buf)
  /\ Grown(disk'[b], disk[b], valid_len(Len(buf), co))
  /\ \A a \in Addr \ {b} : disk'[a] = IF a \in TargetOf(c, co, buf)
                                      THEN Datum(buf[a - (Base(c) + co) + 1]) ELSE disk[a]
  /\ \A a \in TargetOf(c, co, buf) : a \in Addr \ EntryAddrs /\ ClusterOf(a) = c

(* A write that fits its cluster stays in it.                              *)
LEMMA TargetInCluster ==
  ASSUME NEW c \in Index, NEW co \in 0..(CS - 1), NEW buf,
         valid_len(Len(buf), co) \in Nat, co + valid_len(Len(buf), co) <= CS
  PROVE  \A a \in TargetOf(c, co, buf) : a \in Addr /\ ClusterOf(a) = c
<1> SUFFICES ASSUME NEW a \in TargetOf(c, co, buf) PROVE a \in Addr /\ ClusterOf(a) = c
  OBVIOUS
<1>1. Base(c) \in Int
  BY MfsAssumption, FatAssumption DEF Base, Index
<1> DEFINE r == a - Base(c)
<1>2. a = Base(c) + r /\ r \in 0..(CS - 1)
  BY <1>1, MfsAssumption DEF TargetOf
<1> HIDE DEF r
<1>3. Base(c) + r \in Addr /\ (Base(c) + r) \div CS + 2 = c
  BY <1>2, SlotOfCluster
<1> QED
  BY <1>2, <1>3 DEF ClusterOf

(* What a write that fits its cluster does to the volume: it changes the   *)
(* slots it is given and the size in its own entry, nothing else.          *)
LEMMA FitEffects ==
  ASSUME FInv, status = "ok", NEW d \in DirHeads, NEW n,
         NEW b \in get_dentry(fat, disk, d, n), NEW f, KeepsWalk(fat, f, d),
         NEW c \in Index, c \in Chain(fat, disk[b].head) \/ fat[c] = 0,
         NEW co \in 0..(CS - 1), NEW buf,
         valid_len(Len(buf), co) \in Nat, co + valid_len(Len(buf), co) <= CS,
         Store(f, d, disk[b], c, co, buf)
  PROVE  FitAt(b, c, co, buf)
<1> DEFINE de == disk[b]
           vlen == valid_len(Len(buf), co)
           pos == Base(c) + co
           dk == [a \in Addr |-> IF a \in pos..(pos + vlen - 1)
                                 THEN Datum(buf[a - pos + 1]) ELSE disk[a]]
           new == [de EXCEPT !.size = @ + vlen]
           S == get_dentry(f, dk, d, de.name)
           R == TargetOf(c, co, buf)
<1>1. b \in EntryAddrs /\ b \in Addr /\ de \in Dirents
  BY FoundIsEntry DEF FInv, NInv, CInv, IInv
<1>2. de.name = n /\ de.attr = "file"
  <2>1. b \in Named(disk, {"file"}, n)
    BY SearchIsSound DEF get_dentry
  <2> QED
    BY <2>1 DEF Named
<1>3. R = pos..(pos + vlen - 1)
  BY DEF TargetOf
<1>4. disk' = [a \in Addr |-> IF a \in S THEN new ELSE dk[a]]
  <2>1. c # 0 /\ ~(vlen < 0)
    BY NotAnIndex
  <2> QED
    BY <2>1 DEF Store, alloc_new_entry
<1>5. \A a \in R : a \in Addr /\ ClusterOf(a) = c
  BY TargetInCluster
<1>6. \A a \in EntryAddrs : ClusterOf(a) # c
  <2>1. \A a \in EntryAddrs : ClusterOf(a) \notin Chain(fat, disk[b].head) /\ fat[ClusterOf(a)] # 0
    BY <1>1, <1>2 DEF FInv, FilesHoldNoEntry, NInv, EntriesInUse
  <2> QED
    BY <2>1
<1> HIDE DEF R
<1>7. \A a \in Addr : dk[a] = IF a \in R THEN Datum(buf[a - pos + 1]) ELSE disk[a]
  BY <1>3
<1>7a. \A a \in R : dk[a].attr = "data"
  <2> HIDE DEF dk, pos
  <2>1. \A v : Datum(v).attr = "data"
    BY DEF Datum
  <2> QED
    BY <1>5, <1>7, <2>1
<1>8. S = {b}
  <2> DEFINE N == Named(disk, {"file"}, n)
             M == Named(dk, {"file"}, n)
  <2>1. M \in SUBSET N
    <3> SUFFICES ASSUME NEW a \in M PROVE a \in N
      OBVIOUS
    <3>1. a \in Addr /\ dk[a].attr = "file" /\ dk[a].name = n
      BY DEF Named
    <3> HIDE DEF dk, M
    <3>2. a \notin R
      BY <1>7a, <3>1
    <3> QED
      BY <1>7, <3>1, <3>2 DEF Named
  <2>2. b \in M
    <3> HIDE DEF dk
    <3> QED
      BY <1>1, <1>2, <1>5, <1>6, <1>7 DEF Named
  <2>3. b \in FirstOnChain(fat, d, N)
    BY DEF get_dentry
  <2>4. S = FirstOnChain(f, d, M)
    BY <1>2 DEF get_dentry
  <2> HIDE DEF M, N, S
  <2>5. FirstOnChain(f, d, M) = {b}
    BY <2>1, <2>2, <2>3, SearchAgain
  <2> QED
    BY <2>4, <2>5
<1>9. new.attr = "file" /\ Grown(new, de, vlen)
  BY <1>1, <1>2 DEF Dirents, Grown
<1> HIDE DEF S, dk, new, vlen
<1>10. disk'[b] = new /\ \A a \in Addr \ {b} : disk'[a] = dk[a]
  BY <1>1, <1>4, <1>8
<1>11. b \notin R /\ \A a \in R : a \in Addr \ EntryAddrs /\ ClusterOf(a) = c
  BY <1>1, <1>5, <1>6
<1>12. EntryAddrs' = EntryAddrs
  <2>1. ASSUME NEW a \in Addr, a # b
        PROVE  disk'[a].attr \in FileOrDir <=> disk[a].attr \in FileOrDir
    <3>1. CASE a \in R
      <4>1. disk'[a].attr = "data"
        BY <1>7a, <1>10, <2>1, <3>1
      <4>2. disk[a].attr \notin FileOrDir
        BY <1>11, <2>1, <3>1 DEF EntryAddrs
      <4> QED
        BY <4>1, <4>2 DEF FileOrDir
    <3>2. CASE a \notin R
      BY <1>7, <1>10, <2>1, <3>2
    <3> QED
      BY <3>1, <3>2
  <2>2. disk'[b].attr \in FileOrDir /\ disk[b].attr \in FileOrDir
    BY <1>2, <1>9, <1>10 DEF FileOrDir
  <2> QED
    BY <2>1, <2>2 DEF EntryAddrs
<1> QED
  BY <1>7, <1>9, <1>10, <1>11, <1>12 DEF FitAt, R, vlen

FitWriteAt(d, n, off, buf) ==
  \E b \in get_dentry(fat, disk, d, n), c \in Index :
    /\ d \in DirHeads
    /\ FitAt(b, c, off % CS, buf)
    /\ \/ /\ fat' = fat
          /\ off \div CS \in 0..MaxIndex
          /\ Walk(fat, disk[b].head)[off \div CS] = c
       \/ /\ fat[c] = 0
          /\ \E tail \in Cluster :
               /\ fat[tail] = EndMark /\ fat' = Extended(fat, tail, c)
               /\ \E k \in 0..(off \div CS - 1) :
                    k \in 0..MaxIndex /\ Walk(fat, disk[b].head)[k] = tail

(* So does a whole call, with the growth of the chain that may precede.    *)
LEMMA FitWrites ==
  ASSUME FInv, NEW p \in Paths, NEW n, NEW off \in 0..MaxSize, NEW buf,
         valid_len(Len(buf), off % CS) \in Nat,
         (off % CS) + valid_len(Len(buf), off % CS) <= CS,
         WriteFile(p, n, off, buf), status' = "ok"
  PROVE  FitWriteAt(get_cluster_number(fat, disk, p), n, off, buf)
<1>0. PICK d : d = get_cluster_number(fat, disk, p)
  OBVIOUS
<1>1. PICK b \in get_dentry(fat, disk, d, n) :
        /\ status = "ok"
        /\ WriteInChain(d, disk[b], off, buf) \/ WriteExtending(d, disk[b], off, buf)
  BY <1>0 DEF WriteFile, WriteEntry
<1>2. d \in DirHeads /\ d \in AllHeads
  BY <1>0, DirLeadsToHead, DirHeadsAreHeads DEF WriteFile
<1>3. ChainsApart(fat, AllHeads) /\ AllHeads \in SUBSET Cluster /\ fat \in Table
  BY <1>1, ApartNow DEF FInv, NInv, CInv
<1>4. off \in Nat /\ off % CS \in 0..(CS - 1) /\ off \div CS \in 0..MaxIndex
  <2>1. off \in Nat /\ off <= CS * MaxIndex
    BY MfsAssumption, FatAssumption
  <2> QED
    BY <2>1, MfsAssumption, FatAssumption
<1>5. CASE WriteInChain(d, disk[b], off, buf)
  <2>1. PICK c \in Cluster :
          /\ \A k \in 0..(off \div CS) : Walk(fat, disk[b].head)[k] # EndMark
          /\ c = Walk(fat, disk[b].head)[off \div CS]
          /\ Store(fat, d, disk[b], c, off % CS, buf)
          /\ fat' = fat
    BY <1>5 DEF WriteInChain
  <2>2. c \in Index /\ c \in Chain(fat, disk[b].head)
    <3>1. c # 0
      BY <1>1, <2>1 DEF Store, Wreck
    <3>2. c # EndMark
      BY NotAnIndex
    <3> QED
      BY <1>4, <2>1, <3>1, <3>2 DEF Chain, Cluster
  <2>3. FitAt(b, c, off % CS, buf)
    BY <1>1, <1>2, <1>4, <2>1, <2>2, SameWalk, FitEffects
  <2>4. FitWriteAt(d, n, off, buf)
    BY <1>2, <1>4, <2>1, <2>2, <2>3 DEF FitWriteAt
  <2> QED
    BY <1>0, <2>4
<1>6. CASE WriteExtending(d, disk[b], off, buf)
  <2>1. PICK tail \in Cluster, new \in find_empty_fat_index(fat) :
          /\ \E k \in 0..(off \div CS - 1) : Walk(fat, disk[b].head)[k] = tail
          /\ fat[tail] = EndMark
          /\ fat' = Extended(fat, tail, new)
          /\ Store(fat', d, disk[b], new, off % CS, buf)
    BY <1>6 DEF WriteExtending
  <2>2. new \in Index /\ fat[new] = 0
    <3>1. new # 0
      BY <1>1, <2>1 DEF Store, Wreck
    <3> QED
      BY <3>1, FoundIsUnused
  <2> DEFINE g == fat'
  <2>3. KeepsWalk(fat, g, d)
    BY <1>2, <1>3, <2>1, <2>2, ExtendedWalk
  <2>4. Store(g, d, disk[b], new, off % CS, buf)
    BY <2>1
  <2>5. FitAt(b, new, off % CS, buf)
    <3> HIDE DEF g
    <3> QED
      BY <1>1, <1>2, <1>4, <2>2, <2>3, <2>4, FitEffects
  <2>6. \E k \in 0..(off \div CS - 1) : k \in 0..MaxIndex /\ Walk(fat, disk[b].head)[k] = tail
    BY <1>4, <2>1, FatAssumption
  <2>7. FitWriteAt(d, n, off, buf)
    BY <1>2, <2>1, <2>2, <2>5, <2>6 DEF FitWriteAt
  <2> QED
    BY <1>0, <2>7
<1> QED
  BY <1>1, <1>5, <1>6

-----------------------------------------------------------------------------
(* What holds of clients that write at the end of their files.             *)

(* The search for an unused index would find none.                         *)
Full(f) == \A i \in Index : f[i] # 0 \/ LastInSector(i) \/ f[i + 1] # 0

(* The cluster 0 is given to files and directories by a full volume only,  *)
(* is never linked to another, and no file that has it has content.        *)
ZeroIsEmpty ==
  /\ fat[0] \in {0, EndMark}
  /\ \A a \in EntryAddrs : disk[a].head = 0 => Full(fat) /\ disk[a].size = 0

(* The last cluster of a file's chain is the one its size ends in.         *)
Room(a) ==
  LET n == Cardinality(Chain(fat, disk[a].head)) IN
  /\ disk[a].size <= n * CS
  /\ n > 1 => disk[a].size > (n - 1) * CS
FilesHaveRoom == \A a \in EntryAddrs : disk[a].attr = "file" => Room(a)

BlankUnused ==
  \A a \in Addr : ClusterOf(a) \in Index /\ fat[ClusterOf(a)] = 0 => disk[a] = Blank
UsedOwned ==
  \A i \in Index : fat[i] # 0 => \E h \in AllHeads : i \in Chain(fat, h)
OwnedAt(a) ==
  \E p \in Paths : IsDir(fat, disk, p) /\ a \in Listed(get_cluster_number(fat, disk, p))
EntryOwned == \A a \in EntryAddrs : OwnedAt(a)

AInv ==
  /\ FInv /\ DirNamesUnique
  /\ status = "ok" => /\ ZeroIsEmpty /\ FilesHaveRoom
                      /\ BlankUnused /\ UsedOwned /\ EntryOwned

-----------------------------------------------------------------------------
(* The number of clusters in the chain of a head is the number of steps    *)
(* to its end.                                                             *)
LEMMA ChainCount ==
  ASSUME NEW f \in Table, NEW H \in SUBSET Cluster, ChainsApart(f, H), NEW h \in H
  PROVE  LET e == Cardinality(Chain(f, h)) IN
         /\ IsFiniteSet(Chain(f, h)) /\ e \in 1..MaxIndex
         /\ \A k \in 0..MaxIndex : Walk(f, h)[k] # EndMark <=> k < e
         /\ \A k \in 0..MaxIndex :
              Walk(f, h)[k] # EndMark /\ f[Walk(f, h)[k]] = EndMark => k = e - 1
<1>1. PICK e \in 1..MaxIndex :
           /\ \A k \in 0..(e - 1) : Walk(f, h)[k] \in Cluster
           /\ \A k \in e..MaxIndex : Walk(f, h)[k] = EndMark
           /\ Chain(f, h) = {Walk(f, h)[k] : k \in 0..(e - 1)}
           /\ f[Walk(f, h)[e - 1]] = EndMark
           /\ \A k \in 0..(e - 2) : f[Walk(f, h)[k]] # EndMark
           /\ \A j, k \in 0..(e - 1) : Walk(f, h)[j] = Walk(f, h)[k] => j = k
  BY ChainShape
<1> DEFINE w == Walk(f, h)
           S == Chain(f, h)
           m == [i \in 1..e |-> w[i - 1]]
<1>2. ExistsBijection(1..e, S)
  <2> HIDE DEF w, S
  <2>1. /\ S = {w[k] : k \in 0..(e - 1)}
        /\ \A j, k \in 0..(e - 1) : w[j] = w[k] => j = k
    BY <1>1 DEF w, S
  <2>2. \A i \in 1..e : i - 1 \in 0..(e - 1)
    BY <1>1
  <2>3. m \in [1..e -> S]
    BY <2>1, <2>2
  <2>4. \A i, j \in 1..e : m[i] = m[j] => i = j
    <3> SUFFICES ASSUME NEW i \in 1..e, NEW j \in 1..e, m[i] = m[j] PROVE i = j
      OBVIOUS
    <3>1. i - 1 = j - 1
      BY <2>1, <2>2
    <3> QED
      BY <3>1
  <2>5. \A x \in S : \E i \in 1..e : m[i] = x
    <3> SUFFICES ASSUME NEW x \in S PROVE \E i \in 1..e : m[i] = x
      OBVIOUS
    <3>1. PICK k \in 0..(e - 1) : x = w[k]
      BY <2>1
    <3>2. k + 1 \in 1..e /\ (k + 1) - 1 = k
      BY <1>1
    <3>3. m[k + 1] = w[k]
      BY <3>2
    <3> QED
      BY <3>1, <3>2, <3>3
  <2> HIDE DEF m
  <2>6. m \in Bijection(1..e, S)
    BY <2>3, <2>4, <2>5 DEF Bijection, Injection, Surjection, IsInjective
  <2> QED
    BY <2>6 DEF ExistsBijection
<1>3. IsFiniteSet(S) /\ Cardinality(S) = e
  BY <1>1, <1>2, FS_NatBijection, FS_CountingElements
<1>4. ASSUME NEW k \in 0..MaxIndex
      PROVE  /\ w[k] # EndMark <=> k < e
             /\ w[k] # EndMark /\ f[w[k]] = EndMark => k = e - 1
  <2>1. k < e => k \in 0..(e - 1)
    BY <1>1
  <2>2. k < e - 1 => k \in 0..(e - 2)
    BY <1>1
  <2>3. ~(k < e) => k \in e..MaxIndex
    BY <1>1
  <2>4. k < e => k < e - 1 \/ k = e - 1
    BY <1>1
  <2> QED
    BY <1>1, <2>1, <2>2, <2>3, <2>4, NotAnIndex
<1> QED
  BY <1>1, <1>3, <1>4

(* The length a write at the end settles on.                               *)
LEMMA ValidLenAtEnd ==
  ASSUME NEW len \in Nat \ {0}, NEW co \in 0..(CS - 1), co = 0 \/ co + len <= CS
  PROVE  /\ valid_len(len, co) \in Nat \ {0} /\ co + valid_len(len, co) <= CS
         /\ valid_len(len, co) <= len
BY MfsAssumption DEF valid_len

(* What a write at the end of a file does: it fills a piece of cluster c,  *)
(* the one the size of the file ends in, or a new one when the size ends   *)
(* with a cluster.                                                         *)
AppendedAt(b, c, buf) ==
  LET h == disk[b].head
      q == disk[b].size \div CS
      co == disk[b].size % CS
  IN  /\ b \in EntryAddrs /\ disk[b].attr = "file" /\ h \in AllHeads \ {0}
      /\ c \in Index /\ FitAt(b, c, co, buf)
      /\ valid_len(Len(buf), co) \in Nat \ {0} /\ co + valid_len(Len(buf), co) <= CS
      /\ valid_len(Len(buf), co) <= Len(buf)
      /\ fat'[0] = fat[0]
      /\ \A i \in Index : fat'[i] # 0 <=> fat[i] # 0 \/ i = c
      /\ \A e \in AllHeads : KeepsWalk(fat, fat', e)
      /\ \A e \in AllHeads : e # h => Chain(fat', e) = Chain(fat, e)
      /\ Chain(fat', h) = Chain(fat, h) \cup {c}
      /\ Cardinality(Chain(fat', h)) = q + 1
      /\ q \in 0..MaxIndex /\ Walk(fat', h)[q] = c

(* What an append does to a volume that it does not wreck: the cluster of  *)
(* the file's end, old or new, takes the data.                             *)
LEMMA AppendWrites ==
  ASSUME AInv, NEW p \in Paths, NEW n, NEW buf \in Buffers, AppendFile(p, n, buf),
         status' = "ok"
  PROVE  LET d == get_cluster_number(fat, disk, p) IN
         /\ status = "ok" /\ d \in DirHeads
         /\ \E b \in get_dentry(fat, disk, d, n), c \in Index :
              LET off == disk[b].size
                  co == disk[b].size % CS
              IN  /\ valid_len(Len(buf), co) \in Nat \ {0}
                  /\ co + valid_len(Len(buf), co) <= CS
                  /\ valid_len(Len(buf), co) <= Len(buf)
                  /\ FitAt(b, c, co, buf)
                  /\ \/ /\ fat' = fat /\ off \div CS \in 0..MaxIndex
                        /\ Walk(fat, disk[b].head)[off \div CS] = c
                     \/ /\ fat[c] = 0
                        /\ \E tail \in Cluster :
                             /\ fat[tail] = EndMark /\ fat' = Extended(fat, tail, c)
                             /\ \E k \in 0..(off \div CS - 1) :
                                  k \in 0..MaxIndex /\ Walk(fat, disk[b].head)[k] = tail
<1>0. PICK d : d = get_cluster_number(fat, disk, p)
  OBVIOUS
<1>1. PICK a \in get_dentry(fat, disk, d, n) :
        /\ status = "ok" /\ IsDir(fat, disk, p)
        /\ disk[a].size % CS = 0 \/ (disk[a].size % CS) + Len(buf) <= CS
        /\ WriteEntry(d, a, disk[a].size, buf)
  BY <1>0 DEF AppendFile
<1>2. /\ status = "ok" /\ FInv /\ TypeOK
      /\ disk[a].size + Len(buf) <= MaxSize
  BY <1>1 DEF WriteEntry, AInv, FInv, NInv, CInv, IInv
<1>3. Len(buf) \in Nat \ {0}
  BY DEF Buffers
<1>4. disk[a].size \in Nat /\ disk[a].size \in 0..MaxSize
  <2>1. a \in EntryAddrs
    BY <1>2, FoundIsEntry
  <2>2. disk[a].size \in Nat
    BY <1>2, <2>1, EntryTyped
  <2> QED
    BY <1>2, <1>3, <2>2, MfsAssumption
<1> DEFINE off == disk[a].size
           co == off % CS
<1>5. co \in 0..(CS - 1)
  BY <1>4, MfsAssumption
<1>6. /\ valid_len(Len(buf), co) \in Nat \ {0} /\ co + valid_len(Len(buf), co) <= CS
      /\ valid_len(Len(buf), co) <= Len(buf)
  BY <1>1, <1>3, <1>5, ValidLenAtEnd
<1>7. WriteFile(p, n, off, buf)
  BY <1>0, <1>1 DEF WriteFile
<1>8. FitWriteAt(d, n, off, buf)
  <2> HIDE DEF off
  <2>1. off \in 0..MaxSize
    BY <1>4 DEF off
  <2> QED
    BY <1>0, <1>2, <1>6, <1>7, <2>1, FitWrites
<1>9. \A b \in get_dentry(fat, disk, d, n) : b = a
  BY <1>1, SearchFindsOne DEF get_dentry
<1> QED
  BY <1>0, <1>2, <1>6, <1>8, <1>9 DEF FitWriteAt

(* The same, as the cases the invariant is shown for.                      *)
LEMMA AppendShape ==
  ASSUME AInv, NEW p \in Paths, NEW n, NEW buf \in Buffers, AppendFile(p, n, buf),
         status' = "ok"
  PROVE  LET d == get_cluster_number(fat, disk, p) IN
         /\ status = "ok" /\ d \in DirHeads
         /\ \E b \in get_dentry(fat, disk, d, n), c \in Index : AppendedAt(b, c, buf)
<1>0. PICK d : d = get_cluster_number(fat, disk, p)
  OBVIOUS
<1>1. status = "ok" /\ d \in DirHeads
  BY <1>0, AppendWrites
<1>2. PICK b \in get_dentry(fat, disk, d, n), c \in Index :
              LET off == disk[b].size
                  co == disk[b].size % CS
              IN  /\ valid_len(Len(buf), co) \in Nat \ {0}
                  /\ co + valid_len(Len(buf), co) <= CS
                  /\ valid_len(Len(buf), co) <= Len(buf)
                  /\ FitAt(b, c, co, buf)
                  /\ \/ /\ fat' = fat /\ off \div CS \in 0..MaxIndex
                        /\ Walk(fat, disk[b].head)[off \div CS] = c
                     \/ /\ fat[c] = 0
                        /\ \E tail \in Cluster :
                             /\ fat[tail] = EndMark /\ fat' = Extended(fat, tail, c)
                             /\ \E k \in 0..(off \div CS - 1) :
                                  k \in 0..MaxIndex /\ Walk(fat, disk[b].head)[k] = tail
  BY <1>0, AppendWrites
<1> DEFINE h == disk[b].head
           q == disk[b].size \div CS
           co == disk[b].size % CS
           w == Walk(fat, h)
           e == Cardinality(Chain(fat, h))
<1>3. ChainsApart(fat, AllHeads) /\ AllHeads \in SUBSET Cluster /\ fat \in Table /\ TypeOK
  BY <1>1, ApartNow DEF AInv, FInv, NInv, CInv, IInv
<1>4. b \in EntryAddrs /\ disk[b].attr = "file" /\ h \in AllHeads /\ disk[b].size \in Nat
  <2>1. b \in Named(disk, {"file"}, n)
    BY SearchIsSound DEF get_dentry
  <2>2. b \in EntryAddrs
    BY <1>3, FoundIsEntry
  <2> QED
    BY <1>3, <2>1, <2>2, EntryTyped DEF Named, AllHeads, Heads
<1>5. /\ IsFiniteSet(Chain(fat, h)) /\ e \in 1..MaxIndex
      /\ \A k \in 0..MaxIndex : w[k] # EndMark <=> k < e
      /\ \A k \in 0..MaxIndex : w[k] # EndMark /\ fat[w[k]] = EndMark => k = e - 1
  BY <1>3, <1>4, ChainCount
<1>6. Room(b) /\ ZeroIsEmpty
  BY <1>1, <1>4 DEF AInv, FilesHaveRoom
<1>7. q \in Nat /\ disk[b].size = CS * q + co /\ co \in 0..(CS - 1)
  BY <1>4, DivMod
<1>8. e > 1 => q >= e - 1
  <2> SUFFICES ASSUME e > 1, q <= e - 2 PROVE FALSE
    BY <1>5, <1>7
  <2>1. disk[b].size > (e - 1) * CS
    BY <1>6 DEF Room
  <2> HIDE DEF q, co, e
  <2>2. CS * q <= CS * (e - 2)
    BY <1>5, <1>7, MfsAssumption
  <2>3. CS * q + co < CS * (e - 2) + CS
    BY <1>7, <2>2, <1>5, MfsAssumption
  <2>4. CS * (e - 2) + CS = (e - 1) * CS
    BY <1>5, MfsAssumption
  <2> QED
    BY <1>7, <2>1, <2>3, <2>4, <1>5, MfsAssumption
<1>9. q <= e
  <2>1. disk[b].size <= e * CS
    BY <1>6 DEF Room
  <2> SUFFICES ASSUME q >= e + 1 PROVE FALSE
    BY <1>5, <1>7
  <2> HIDE DEF q, co, e
  <2>2. CS * q >= CS * (e + 1)
    BY <1>5, <1>7, MfsAssumption
  <2>3. CS * (e + 1) = e * CS + CS
    BY <1>5, MfsAssumption
  <2> QED
    BY <1>7, <2>1, <2>2, <2>3, <1>5, MfsAssumption
<1>10. FitAt(b, c, co, buf) /\ valid_len(Len(buf), co) \in Nat \ {0}
       /\ co + valid_len(Len(buf), co) <= CS /\ valid_len(Len(buf), co) <= Len(buf)
  BY <1>2
<1>11. CASE fat' = fat /\ q \in 0..MaxIndex /\ w[q] = c
  <2>1. c # EndMark
    BY NotAnIndex
  <2>2. c \in Chain(fat, h)
    BY <1>11, <2>1 DEF Chain
  <2>3. q < e
    BY <1>5, <1>11, <2>1
  <2>4. e = q + 1
    BY <1>5, <1>7, <1>8, <2>3
  <2>5. fat[c] # 0
    BY <1>3, <1>4, <2>2, ChainInUse
  <2>6. h # 0
    <3>1. CASE h = 0
      <4>1. disk[b].size = 0
        BY <1>4, <1>6, <3>1 DEF ZeroIsEmpty
      <4>2. q = 0
        BY <4>1, <1>7, MfsAssumption
      <4>3. c = 0
        BY <1>11, <3>1, <4>2, WalkStep
      <4> QED
        BY <4>3, NotAnIndex
    <3> QED
      BY <3>1
  <2>7. \A x \in AllHeads : KeepsWalk(fat, fat', x)
    BY <1>11, SameWalk
  <2>8. Chain(fat', h) = Chain(fat, h) \cup {c} /\ Walk(fat', h) = w
        /\ Cardinality(Chain(fat', h)) = q + 1
    BY <1>11, <2>2, <2>4
  <2>9. \A i \in Index : fat'[i] # 0 <=> fat[i] # 0 \/ i = c
    BY <1>11, <2>5
  <2> HIDE DEF h, q, co, w, e
  <2>10. AppendedAt(b, c, buf)
    BY <1>4, <1>10, <1>11, <2>6, <2>7, <2>8, <2>9 DEF AppendedAt, h, q, co, w
  <2> QED
    BY <1>0, <1>1, <2>10
<1>12. CASE /\ fat[c] = 0
            /\ \E tail \in Cluster :
                 /\ fat[tail] = EndMark /\ fat' = Extended(fat, tail, c)
                 /\ \E k \in 0..(q - 1) : k \in 0..MaxIndex /\ w[k] = tail
  <2>1. PICK tail \in Cluster, k \in 0..(q - 1) :
          /\ fat[c] = 0 /\ fat[tail] = EndMark /\ fat' = Extended(fat, tail, c)
          /\ k \in 0..MaxIndex /\ w[k] = tail
    BY <1>12
  <2>2. tail # EndMark
    BY NotAnIndex
  <2>3. k = e - 1
    BY <1>5, <2>1, <2>2
  <2>4. k = q - 1 /\ q = e /\ q \in 1..MaxIndex
    BY <1>5, <1>7, <1>9, <2>1, <2>3
  <2>5. tail \in Chain(fat, h)
    BY <2>1, <2>2 DEF Chain
  <2>6. h # 0
    <3>1. disk[b].size # 0
      <4>1. CS * q # 0
        BY <2>4, MfsAssumption
      <4> QED
        BY <1>7, <2>4, <4>1, MfsAssumption
    <3> QED
      BY <1>4, <1>6, <3>1 DEF ZeroIsEmpty
  <2>7. tail # 0
    BY <1>3, <1>4, <2>5, <2>6, ChainInUse, NotAnIndex
  <2>8. /\ tail # c
        /\ \A i \in Cluster : fat'[i] = IF i = c THEN EndMark ELSE IF i = tail THEN c ELSE fat[i]
    BY <1>3, <2>1, ExtendedFat
  <2>9. fat'[0] = fat[0]
    BY <2>7, <2>8, NotAnIndex DEF Cluster
  <2>10. \A i \in Index : fat'[i] # 0 <=> fat[i] # 0 \/ i = c
    BY <2>1, <2>8, NotAnIndex, FatAssumption DEF Cluster
  <2>11. \A x \in AllHeads : KeepsWalk(fat, fat', x)
    BY <1>3, <2>1, ExtendedWalk
  <2>12. /\ c \notin Chain(fat, h)
         /\ Chain(fat', h) = Chain(fat, h) \cup {c}
    BY <1>3, <1>4, <2>1, <2>5, ExtendedChain
  <2>13. \A x \in AllHeads : x # h => Chain(fat', x) = Chain(fat, x)
    <3> SUFFICES ASSUME NEW x \in AllHeads, x # h PROVE Chain(fat', x) = Chain(fat, x)
      OBVIOUS
    <3>1. tail \notin Chain(fat, x)
      BY <1>3, <1>4, <2>5, HeadsApart
    <3> QED
      BY <3>1, <1>3, <2>1, ExtendedChain
  <2>14. Cardinality(Chain(fat', h)) = q + 1
    BY <1>5, <2>4, <2>12, FS_AddElement
  <2>15. Walk(fat', h)[q] = c
    <3>1. Walk(fat', h)[k] = tail
      BY <1>4, <2>1, <2>2, <2>11 DEF KeepsWalk
    <3>2. k \in 0..(MaxIndex - 1) /\ k + 1 = q
      <4> HIDE DEF q
      <4> QED
        BY <2>4, FatAssumption
    <3>3. Walk(fat', h)[k + 1] = After(fat', Walk(fat', h)[k])
      BY <3>2, WalkStep
    <3>4. After(fat', tail) = fat'[tail]
      BY <2>1, AfterCluster
    <3>5. fat'[tail] = c
      BY <2>1, <2>8
    <3> QED
      BY <3>1, <3>2, <3>3, <3>4, <3>5
  <2>16. q \in 0..MaxIndex
    BY <2>4
  <2> HIDE DEF h, q, co, w, e
  <2>17. AppendedAt(b, c, buf)
    BY <1>4, <1>10, <2>6, <2>9, <2>10, <2>11, <2>12, <2>13, <2>14, <2>15, <2>16
       DEF AppendedAt, h, q, co
  <2> QED
    BY <1>0, <1>1, <2>17
<1> QED
  BY <1>2, <1>11, <1>12

-----------------------------------------------------------------------------
(* Neither a call that makes a file or directory nor a write that stays in *)
(* one cluster disturbs the tree.                                          *)
LEMMA MadeTree ==
  ASSUME NInv, status = "ok", CInv', status' = "ok", NEW d \in DirHeads \ {0},
         NEW n \in Names, NEW attr \in FileOrDir, NEW head, NEW x,
         MadeAt(d, n, attr, head, x)
  PROVE  KeepsTree /\ SearchesStay
<1>1. /\ EntryAddrs' = EntryAddrs \cup {x}
      /\ \A a \in EntryAddrs : disk'[a] = disk[a]
  BY MadeEntries
<1>2. /\ Listed(d)' = Listed(d) \cup {x}
      /\ \A e \in AllHeads \ {0} : e # d => Listed(e)' = Listed(e)
  BY MadeListed
<1>3. ASSUME NEW e \in DirHeads, NEW a \in Listed(e) PROVE a \in Listed(e)'
  <2>1. e \in AllHeads
    BY DirHeadsAreHeads
  <2>2. e # 0
    BY DEF NInv, EntriesInUse, Listed, ClusterOf
  <2> QED
    BY <1>2, <2>1, <2>2
<1>4. SearchesStay
  BY MakeKeepsFirst DEF SearchesStay
<1> QED
  BY <1>1, <1>3, <1>4 DEF KeepsTree

(* Such a write leaves the entries where they are, and as they are but for *)
(* one size.                                                               *)
LEMMA FitEntries ==
  ASSUME TypeOK, NEW b \in EntryAddrs, NEW c, NEW co, NEW buf, FitAt(b, c, co, buf)
  PROVE  /\ EntryAddrs' = EntryAddrs
         /\ \A a \in EntryAddrs :
              /\ disk'[a].name = disk[a].name /\ disk'[a].attr = disk[a].attr
              /\ disk'[a].head = disk[a].head
              /\ a # b => disk'[a] = disk[a]
         /\ AllHeads' = AllHeads /\ DirHeads' = DirHeads
<1>1. \A a \in EntryAddrs : a \in Addr
  BY EntryTyped
<1>2. \A a \in EntryAddrs :
        /\ disk'[a].name = disk[a].name /\ disk'[a].attr = disk[a].attr
        /\ disk'[a].head = disk[a].head
        /\ a # b => disk'[a] = disk[a]
  BY <1>1 DEF FitAt, Grown
<1>3. EntryAddrs' = EntryAddrs
  BY DEF FitAt
<1>4. Heads' = Heads
  BY <1>2, <1>3 DEF Heads
<1> QED
  BY <1>2, <1>3, <1>4 DEF AllHeads, DirHeads

(* And the directories.                                                    *)
LEMMA FitTree ==
  ASSUME TypeOK, NEW b \in EntryAddrs, NEW c, NEW co, NEW buf, FitAt(b, c, co, buf),
         \A e \in AllHeads : Chain(fat, e) \subseteq Chain(fat', e)
  PROVE  KeepsTree
<1>1. /\ EntryAddrs' = EntryAddrs
      /\ \A a \in EntryAddrs :
              /\ disk'[a].name = disk[a].name /\ disk'[a].attr = disk[a].attr
              /\ disk'[a].head = disk[a].head
  BY FitEntries
<1>2. ASSUME NEW e \in DirHeads, NEW a \in Listed(e) PROVE a \in Listed(e)'
  BY <1>1, <1>2, DirHeadsAreHeads DEF Listed
<1> QED
  BY <1>1, <1>2 DEF KeepsTree

(* So an entry stays in a directory that can be reached.                   *)
LEMMA TreeOwns ==
  ASSUME NInv, status = "ok", KeepsTree, SearchesStay, NEW a \in EntryAddrs, OwnedAt(a)
  PROVE  OwnedAt(a)'
<1>1. PICK p \in Paths : IsDir(fat, disk, p) /\ a \in Listed(get_cluster_number(fat, disk, p))
  BY DEF OwnedAt
<1>2. PICK d : d = get_cluster_number(fat, disk, p)
  OBVIOUS
<1>3. d \in DirHeads /\ a \in Listed(d)
  BY <1>1, <1>2, DirLeadsToHead
<1>4. a \in Listed(d)'
  BY <1>3 DEF KeepsTree
<1>5. IsDir(fat', disk', p) /\ get_cluster_number(fat', disk', p) = d
  BY <1>1, <1>2, TreeKept
<1> QED
  BY <1>4, <1>5 DEF OwnedAt, Listed

-----------------------------------------------------------------------------
(* The invariant of clients that write at the end.                         *)

AtEnd == ZeroIsEmpty /\ FilesHaveRoom /\ BlankUnused /\ UsedOwned /\ EntryOwned

(* A volume that has given out the cluster 0 has no other left.            *)
LEMMA NoneFound ==
  ASSUME NEW f, 0 \in find_empty_fat_index(f)
  PROVE  Full(f)
<1>1. \A i \in Index : i \in Probed(f) => LastInSector(i)
  BY NotAnIndex DEF find_empty_fat_index, Probed
<1> QED
  BY <1>1 DEF Full, Probed

(* A full volume stays full.                                               *)
LEMMA StaysFull ==
  ASSUME NEW f, NEW g, Full(f), \A i \in Index : f[i] # 0 => g[i] # 0
  PROVE  Full(g)
<1> SUFFICES ASSUME NEW i \in Index PROVE g[i] # 0 \/ LastInSector(i) \/ g[i + 1] # 0
  BY DEF Full
<1>1. i + 1 \in Index \/ LastInSector(i)
  BY FatAssumption DEF Index, LastInSector
<1> QED
  BY <1>1 DEF Full

(* A chain of the cluster 0 alone.                                         *)
LEMMA ZeroAlone ==
  ASSUME NEW f \in Table
  PROVE  f[0] \in {0, EndMark} <=> Chain(f, 0) \subseteq {0}
<1>1. 0 \in Cluster /\ f[0] \in Cluster \cup {EndMark}
  BY DEF Cluster, Table
<1>2. f[0] \in {0, EndMark} => Chain(f, 0) \subseteq {0}
  BY <1>1, ChainOfOne
<1>3. ASSUME f[0] \notin {0, EndMark} PROVE ~(Chain(f, 0) \subseteq {0})
  <2>1. Walk(f, 0)[0 + 1] = f[0] /\ 0 + 1 \in 0..MaxIndex
    <3>1. 0 \in 0..(MaxIndex - 1)
      BY FatAssumption
    <3>2. Walk(f, 0)[0] = 0 /\ Walk(f, 0)[0 + 1] = After(f, Walk(f, 0)[0])
      BY <3>1, WalkStep
    <3> QED
      BY <1>1, <3>2, AfterCluster, FatAssumption
  <2>2. f[0] \in Chain(f, 0)
    BY <1>3, <2>1 DEF Chain
  <2> QED
    BY <1>3, <2>2
<1> QED
  BY <1>2, <1>3

(* A new file has the room its size of 0 calls for.                        *)
LEMMA MakeKeepsAtEnd ==
  ASSUME AInv, status = "ok", CInv', NInv', status' = "ok",
         NEW p \in Paths, NEW n \in Names, NEW attr \in FileOrDir,
         IsDir(fat, disk, p), Make(p, n, attr)
  PROVE  AtEnd'
<1>0. PICK d : d = get_cluster_number(fat, disk, p)
  OBVIOUS
<1>1. d \in DirHeads /\ d \in AllHeads /\ NInv /\ AtEnd /\ TypeOK
  BY <1>0, DirLeadsToHead, DirHeadsAreHeads DEF AInv, FInv, AtEnd, NInv, CInv, IInv
<1>2. PICK head \in find_empty_fat_index(fat), x \in Addr :
        d # 0 /\ MadeAt(d, n, attr, head, x)
  BY <1>0, <1>1, MakeEffects DEF AInv, FInv, NInv, CInv
<1>3. /\ x \notin EntryAddrs /\ EntryAddrs' = EntryAddrs \cup {x}
      /\ disk'[x].attr = attr /\ disk'[x].head = head /\ disk'[x].size = 0
      /\ \A a \in EntryAddrs : disk'[a] = disk[a]
  BY <1>1, <1>2, MadeEntries
<1>4. /\ head \in Cluster /\ (head # 0 => head \in Index /\ fat[head] = 0)
      /\ disk' = [disk EXCEPT ![x] = Dirent(attr, n, head, 0)]
      /\ ClusterOf(x) \in Index \cap Chain(fat', d) /\ fat'[ClusterOf(x)] # 0
      /\ \A i \in Cluster : fat[i] # 0 => fat'[i] # 0
      /\ \A i \in Cluster : fat'[i] # 0 => fat[i] # 0 \/ i = head \/ i \in Chain(fat', d)
      /\ \A e \in AllHeads \ {0} : e # d => Chain(fat', e) = Chain(fat, e)
      /\ Chain(fat, d) \subseteq Chain(fat', d)
      /\ Chain(fat', head) = {head}
      /\ Chain(fat', 0) \subseteq Chain(fat, 0)
  BY <1>2 DEF MadeAt
<1>5. AllHeads \subseteq AllHeads' /\ head \in AllHeads'
  BY <1>3 DEF AllHeads, Heads
<1>6. fat[0] \in {0, EndMark}
  BY <1>1 DEF AtEnd, ZeroIsEmpty
<1>7. fat'[0] \in {0, EndMark}
  <2>1. fat \in Table
    BY <1>1 DEF TypeOK
  <2>2. fat' \in Table
    BY DEF CInv, IInv, TypeOK
  <2> DEFINE g == fat'
  <2>3. Chain(g, 0) \subseteq {0} /\ g \in Table
    BY <1>4, <1>6, <2>1, <2>2, ZeroAlone
  <2> HIDE DEF g
  <2>4. g[0] \in {0, EndMark}
    BY <2>3, ZeroAlone
  <2> QED
    BY <2>4 DEF g
<1>8. ZeroIsEmpty'
  <2>1. ASSUME NEW a \in EntryAddrs', disk'[a].head = 0
        PROVE  Full(fat') /\ disk'[a].size = 0
    <3>1. Full(fat) /\ disk'[a].size = 0
      BY <1>1, <1>2, <1>3, <2>1, NoneFound DEF AtEnd, ZeroIsEmpty
    <3> DEFINE g == fat'
    <3>2. \A i \in Index : fat[i] # 0 => g[i] # 0
      BY <1>4 DEF Cluster
    <3> HIDE DEF g
    <3>3. Full(g)
      BY <3>1, <3>2, StaysFull
    <3> QED
      BY <3>1, <3>3 DEF g
  <2> QED
    BY <1>7, <2>1 DEF ZeroIsEmpty, Full
<1>9. FilesHaveRoom'
  <2> SUFFICES ASSUME NEW a \in EntryAddrs', disk'[a].attr = "file" PROVE Room(a)'
    BY DEF FilesHaveRoom
  <2>1. CASE a = x
    <3>1. Cardinality(Chain(fat', disk'[a].head)) = 1 /\ disk'[a].size = 0
      BY <1>3, <1>4, <2>1, FS_Singleton
    <3> QED
      BY <3>1, MfsAssumption DEF Room
  <2>2. CASE a # x
    <3>1. a \in EntryAddrs /\ disk'[a] = disk[a] /\ disk[a].attr = "file"
      BY <1>3, <2>2
    <3>2. disk[a].head \in AllHeads /\ disk[a].head \in Cluster
      BY <1>1, <3>1, EntryTyped DEF AllHeads, Heads
    <3>3. CASE disk[a].head = 0
      <4>1. disk[a].size = 0
        BY <1>1, <3>1, <3>3 DEF AtEnd, ZeroIsEmpty
      <4>2. Chain(fat', 0) = {0}
        <5>1. fat' \in Table
          BY DEF CInv, IInv, TypeOK
        <5>2. fat'[0] = EndMark \/ fat'[0] = 0
          BY <1>7
        <5> QED
          BY <5>1, <5>2, ChainOfOne DEF Cluster
      <4> QED
        <5>1. Cardinality(Chain(fat', disk'[a].head)) = 1 /\ disk'[a].size = 0
          BY <3>1, <3>3, <4>1, <4>2, FS_Singleton
        <5> QED
          BY <5>1, MfsAssumption DEF Room
    <3>4. CASE disk[a].head # 0
      <4>1. disk[a].head # d
        BY <1>1, <3>1, <3>4 DEF DirHeads, NInv, CInv, OwnHeads
      <4>2. Chain(fat', disk[a].head) = Chain(fat, disk[a].head)
        BY <1>4, <3>2, <3>4, <4>1
      <4> QED
        BY <1>1, <3>1, <4>2 DEF Room, AtEnd, FilesHaveRoom
    <3> QED
      BY <3>3, <3>4
  <2> QED
    BY <2>1, <2>2
<1>10. BlankUnused'
  <2> SUFFICES ASSUME NEW a \in Addr, ClusterOf(a) \in Index, fat'[ClusterOf(a)] = 0
               PROVE  disk'[a] = Blank
    BY DEF BlankUnused, ClusterOf
  <2>1. a # x /\ fat[ClusterOf(a)] = 0
    BY <1>4 DEF Cluster
  <2>2. disk[a] = Blank
    BY <1>1, <2>1 DEF AtEnd, BlankUnused
  <2> QED
    BY <1>4, <2>1, <2>2
<1>11. UsedOwned'
  <2> SUFFICES ASSUME NEW i \in Index, fat'[i] # 0
               PROVE  \E h \in AllHeads' : i \in Chain(fat', h)
    BY DEF UsedOwned
  <2>1. CASE i = head
    BY <1>4, <1>5, <2>1
  <2>2. CASE i \in Chain(fat', d)
    BY <1>1, <1>5, <2>2
  <2>3. CASE fat[i] # 0
    <3>1. PICK h \in AllHeads : i \in Chain(fat, h)
      BY <1>1, <2>3 DEF AtEnd, UsedOwned
    <3>2. h # 0
      <4>1. fat \in Table
        BY <1>1 DEF TypeOK
      <4>2. fat[0] = EndMark \/ fat[0] = 0
        BY <1>6
      <4>3. Chain(fat, 0) = {0}
        BY <4>1, <4>2, ChainOfOne DEF Cluster
      <4> QED
        BY <3>1, <4>3, NotAnIndex
    <3>3. i \in Chain(fat', h)
      BY <1>4, <3>1, <3>2
    <3> QED
      BY <1>5, <3>3
  <2> QED
    BY <1>4, <2>1, <2>2, <2>3 DEF Cluster
<1>12. EntryOwned'
  <2>1. KeepsTree /\ SearchesStay
    BY <1>1, <1>2, MadeTree
  <2>2. \A a \in EntryAddrs : OwnedAt(a)'
    BY <1>1, <2>1, TreeOwns DEF AtEnd, EntryOwned
  <2>3. OwnedAt(x)'
    <3>1. x \in Listed(d)'
      BY <1>1, <1>2, MadeListed
    <3>2. IsDir(fat', disk', p) /\ get_cluster_number(fat', disk', p) = d
      BY <1>0, <1>1, <2>1, TreeKept
    <3> QED
      BY <3>1, <3>2 DEF OwnedAt, Listed
  <2> QED
    BY <1>3, <2>2, <2>3 DEF EntryOwned
<1> QED
  BY <1>8, <1>9, <1>10, <1>11, <1>12 DEF AtEnd

(* A write at the end leaves the file's size in the last cluster of its    *)
(* chain.                                                                  *)
LEMMA AppendKeepsAtEnd ==
  ASSUME AInv, NInv', status' = "ok", NEW p \in Paths, NEW n \in Names,
         NEW buf \in Buffers, AppendFile(p, n, buf)
  PROVE  AtEnd'
<1>0. PICK d : d = get_cluster_number(fat, disk, p)
  OBVIOUS
<1>1. status = "ok" /\ NInv /\ AtEnd /\ TypeOK /\ d \in DirHeads
  BY <1>0, AppendShape DEF AInv, FInv, AtEnd, NInv, CInv, IInv
<1>2. PICK b \in EntryAddrs, c \in Index : AppendedAt(b, c, buf)
  <2>1. PICK b \in get_dentry(fat, disk, d, n), c \in Index : AppendedAt(b, c, buf)
    BY <1>0, AppendShape
  <2> QED
    BY <2>1 DEF AppendedAt
<1> DEFINE h == disk[b].head
           q == disk[b].size \div CS
           co == disk[b].size % CS
           len == valid_len(Len(buf), co)
<1>3. /\ disk[b].attr = "file" /\ h \in AllHeads \ {0} /\ FitAt(b, c, co, buf)
      /\ len \in Nat \ {0} /\ co + len <= CS
      /\ fat'[0] = fat[0]
      /\ \A i \in Index : fat'[i] # 0 <=> fat[i] # 0 \/ i = c
      /\ \A e \in AllHeads : e # h => Chain(fat', e) = Chain(fat, e)
      /\ Chain(fat', h) = Chain(fat, h) \cup {c}
      /\ Cardinality(Chain(fat', h)) = q + 1
  BY <1>2 DEF AppendedAt
<1>4. /\ EntryAddrs' = EntryAddrs /\ AllHeads' = AllHeads
      /\ \A a \in EntryAddrs :
              /\ disk'[a].name = disk[a].name /\ disk'[a].attr = disk[a].attr
              /\ disk'[a].head = disk[a].head
              /\ a # b => disk'[a] = disk[a]
  BY <1>1, <1>2, <1>3, FitEntries
<1>5. \A e \in AllHeads : Chain(fat, e) \subseteq Chain(fat', e)
  BY <1>3
<1>6. KeepsTree /\ SearchesStay
  <2>1. \E off \in 0..MaxSize : WriteFile(p, n, off, buf)
    BY <1>1, AppendIsWrite
  <2>2. SearchesStay
    BY <1>1, <2>1, WriteKeepsFirst DEF SearchesStay
  <2> QED
    BY <1>1, <1>2, <1>3, <1>5, <2>2, FitTree
<1>7. disk[b].size \in Nat /\ b \in Addr /\ disk'[b].size = disk[b].size + len
  BY <1>1, <1>2, <1>3, EntryTyped DEF FitAt, Grown
<1>8. ZeroIsEmpty'
  <2>1. ASSUME NEW a \in EntryAddrs', disk'[a].head = 0
        PROVE  Full(fat') /\ disk'[a].size = 0
    <3>1. a # b /\ a \in EntryAddrs /\ disk'[a] = disk[a]
      BY <1>3, <1>4, <2>1
    <3>2. Full(fat) /\ disk'[a].size = 0
      BY <1>1, <2>1, <3>1 DEF AtEnd, ZeroIsEmpty
    <3> DEFINE g == fat'
    <3>3. \A i \in Index : fat[i] # 0 => g[i] # 0
      BY <1>3
    <3> HIDE DEF g
    <3>4. Full(g)
      BY <3>2, <3>3, StaysFull
    <3> QED
      BY <3>2, <3>4 DEF g
  <2> QED
    BY <1>1, <1>3, <2>1 DEF ZeroIsEmpty, Full, AtEnd
<1>9. FilesHaveRoom'
  <2> SUFFICES ASSUME NEW a \in EntryAddrs', disk'[a].attr = "file" PROVE Room(a)'
    BY DEF FilesHaveRoom
  <2>1. CASE a = b
    <3>1. disk[b].size = CS * q + co /\ q \in Nat /\ co \in 0..(CS - 1)
      BY <1>7, DivMod
    <3>2. Cardinality(Chain(fat', disk'[b].head)) = q + 1
      BY <1>2, <1>3, <1>4
    <3> HIDE DEF q, co, len
    <3>3. disk'[b].size <= (q + 1) * CS /\ disk'[b].size > q * CS
      BY <1>3, <1>7, <3>1, MfsAssumption
    <3>4. (q + 1) - 1 = q
      BY <3>1
    <3> QED
      BY <2>1, <3>2, <3>3, <3>4 DEF Room
  <2>2. CASE a # b
    <3>1. a \in EntryAddrs /\ disk'[a] = disk[a] /\ disk[a].attr = "file"
      BY <1>4, <2>2
    <3>2. disk[a].head \in AllHeads
      BY <3>1 DEF AllHeads, Heads
    <3>3. disk[a].head # h
      BY <1>1, <1>2, <1>3, <2>2, <3>1 DEF NInv, CInv, OwnHeads
    <3>4. Chain(fat', disk[a].head) = Chain(fat, disk[a].head)
      BY <1>3, <3>2, <3>3
    <3> QED
      BY <1>1, <3>1, <3>4 DEF Room, AtEnd, FilesHaveRoom
  <2> QED
    BY <2>1, <2>2
<1>10. BlankUnused'
  <2> SUFFICES ASSUME NEW a \in Addr, ClusterOf(a) \in Index, fat'[ClusterOf(a)] = 0
               PROVE  disk'[a] = Blank
    BY DEF BlankUnused, ClusterOf
  <2>1. fat[ClusterOf(a)] = 0 /\ ClusterOf(a) # c
    BY <1>3
  <2>2. disk[a] = Blank
    BY <1>1, <2>1 DEF AtEnd, BlankUnused
  <2>3. a # b
    BY <1>1, <2>1 DEF NInv, EntriesInUse
  <2>4. a \notin TargetOf(c, co, buf)
    BY <1>3, <2>1 DEF FitAt
  <2> QED
    BY <1>3, <2>2, <2>3, <2>4 DEF FitAt
<1>11. UsedOwned'
  <2> SUFFICES ASSUME NEW i \in Index, fat'[i] # 0
               PROVE  \E e \in AllHeads' : i \in Chain(fat', e)
    BY DEF UsedOwned
  <2>1. CASE i = c
    BY <1>3, <1>4, <2>1
  <2>2. CASE i # c
    <3>1. PICK e \in AllHeads : i \in Chain(fat, e)
      BY <1>1, <1>3, <2>2 DEF AtEnd, UsedOwned
    <3> QED
      BY <1>4, <1>5, <3>1
  <2> QED
    BY <2>1, <2>2
<1>12. EntryOwned'
  <2>1. \A a \in EntryAddrs : OwnedAt(a)'
    BY <1>1, <1>6, TreeOwns DEF AtEnd, EntryOwned
  <2> QED
    BY <1>4, <2>1 DEF EntryOwned
<1> QED
  BY <1>8, <1>9, <1>10, <1>11, <1>12 DEF AtEnd

(* The formatted volume satisfies the invariant.                           *)
LEMMA InitAInv == Init => AInv
<1> SUFFICES ASSUME Init PROVE AtEnd
  BY InitFInv, InitLInv DEF AInv, AtEnd, LInv
<1>1. EntryAddrs = {}
  BY DEF Init, EntryAddrs, Blank, FileOrDir
<1>2. fat[0] = 0 /\ \A i \in Index : fat[i] # 0 => i = RootCluster
  <2>1. \A i \in Cluster : fat[i] = IF i = RootCluster THEN EndMark ELSE 0
    BY DEF Init, FormattedFat
  <2>2. 0 \in Cluster /\ Index \subseteq Cluster
    BY DEF Cluster
  <2>3. 0 # RootCluster
    BY DEF RootCluster
  <2> QED
    BY <2>1, <2>2, <2>3
<1>3. RootCluster \in Chain(fat, RootCluster)
  <2>1. Walk(fat, RootCluster)[0] = RootCluster
    BY WalkStep
  <2> QED
    BY <2>1, FatAssumption DEF Chain, RootCluster
<1>4. \A a \in Addr : disk[a] = Blank
  BY DEF Init
<1> QED
  BY <1>1, <1>2, <1>3, <1>4
     DEF AtEnd, ZeroIsEmpty, FilesHaveRoom, BlankUnused, UsedOwned, EntryOwned, AllHeads

(* Every step of a client that writes at the end keeps it.                 *)
LEMMA NextAInv == AInv /\ [NextAtEnd]_vars => AInv'
<1> SUFFICES ASSUME AInv, [NextAtEnd]_vars PROVE AInv'
  OBVIOUS
<1>1. FInv' /\ NInv' /\ CInv' /\ DirNamesUnique'
  <2>1. [NextLookedUp]_vars /\ [Next]_vars
    BY AtEndIsLookedUp, AtEndIsNext DEF AInv, FInv, NInv, CInv, IInv
  <2> QED
    BY <2>1, NextFInv, NextNInv, NextCInv, NextLInv DEF AInv, FInv, NInv, LInv
<1> SUFFICES ASSUME status' = "ok" PROVE AtEnd'
  BY <1>1 DEF AInv, AtEnd
<1>2. CASE CreateNew
  <2>1. PICK p \in Paths, n \in Names : mfs_create(p, n)
    BY <1>2 DEF CreateNew
  <2> QED
    BY <1>1, <2>1, MakeKeepsAtEnd DEF mfs_create, FileOrDir
<1>3. CASE MkdirNew
  <2>1. PICK p \in Paths, n \in Names : mfs_mkdir(p, n)
    BY <1>3 DEF MkdirNew
  <2> QED
    BY <1>1, <2>1, MakeKeepsAtEnd DEF mfs_mkdir, FileOrDir
<1>4. CASE WriteAtEnd
  BY <1>1, <1>4, AppendKeepsAtEnd DEF WriteAtEnd
<1>5. CASE UNCHANGED vars
  <2>1. status = "ok" /\ AtEnd
    BY <1>5 DEF vars, AInv, AtEnd
  <2> QED
    BY <1>5, <2>1 DEF vars, AtEnd, ZeroIsEmpty, FilesHaveRoom, Room, BlankUnused, UsedOwned,
       EntryOwned, OwnedAt, Listed, AllHeads, Heads, EntryAddrs
<1> QED
  BY <1>2, <1>3, <1>4, <1>5 DEF NextAtEnd

(* So it holds in every state.                                             *)
LEMMA AInvAlways == SpecAtEnd => []AInv
<1>1. Init => AInv
  BY InitAInv
<1>2. AInv /\ [NextAtEnd]_vars => AInv'
  BY NextAInv
<1> QED
  BY <1>1, <1>2, PTL DEF SpecAtEnd

-----------------------------------------------------------------------------
(* What follows from it.                                                   *)

(* It has the chain that a size needs.                                     *)
LEMMA AInvFits == AInv => SizeFitsChain
<1> SUFFICES ASSUME AInv, status = "ok", NEW a \in EntryAddrs, disk[a].attr = "file"
             PROVE  LET n == Cardinality(Chain(fat, disk[a].head)) IN
                    /\ disk[a].size <= n * CS
                    /\ n > 1 => disk[a].size > (n - 1) * CS
  BY DEF SizeFitsChain
<1> QED
  BY DEF AInv, FilesHaveRoom, Room

(* For clients that write at the end of their files, the chain of a file   *)
(* has room for the size in its entry and no cluster more: a reader, which *)
(* does not look for the end of a chain, never runs off it.                *)
THEOREM SizeAlwaysFits == SpecAtEnd => []SizeFitsChain
BY AInvAlways, AInvFits, PTL

(* The chain of a cluster in use hangs on an entry that can be reached.    *)
LEMMA UsedIsReachable ==
  ASSUME AInv, status = "ok", NEW i \in Index, fat[i] # 0
  PROVE  i \in Reachable
<1>1. PICK h \in AllHeads : i \in Chain(fat, h)
  BY DEF AInv, UsedOwned
<1>2. CASE h = RootCluster
  BY <1>1, <1>2 DEF Reachable
<1>3. ASSUME NEW a \in EntryAddrs, h = disk[a].head PROVE i \in Reachable
  <2>1. PICK p \in Paths : IsDir(fat, disk, p) /\ a \in Listed(get_cluster_number(fat, disk, p))
    BY DEF AInv, EntryOwned, OwnedAt
  <2>2. get_cluster_number(fat, disk, p) \in ReachableDirs
    BY <2>1 DEF ReachableDirs
  <2> QED
    BY <1>1, <1>3, <2>1, <2>2 DEF Reachable
<1> QED
  BY <1>1, <1>2, <1>3 DEF AllHeads, Heads

(* It has blank slots in what is not in use.                               *)
LEMMA AInvUsedOrBlank == AInv => UsedOrBlank
<1> SUFFICES ASSUME AInv, status = "ok", NEW i \in Index, fat[i] = 0,
                    NEW a \in Base(i)..(Base(i) + CS - 1)
             PROVE  disk[a] = Blank
  BY UsedIsReachable DEF UsedOrBlank
<1>1. Base(i) \in Int
  BY MfsAssumption, FatAssumption DEF Base, Index
<1> DEFINE r == a - Base(i)
<1>2. a = Base(i) + r /\ r \in 0..(CS - 1)
  BY <1>1, MfsAssumption
<1> HIDE DEF r
<1>3. Base(i) + r \in Addr /\ (Base(i) + r) \div CS + 2 = i
  BY <1>2, SlotOfCluster
<1> QED
  BY <1>2, <1>3 DEF AInv, BlankUnused, ClusterOf

(* No cluster is lost, though it is marked before the entry that owns it   *)
(* is written, and one that is not in use is all zeros: a new directory,   *)
(* whose cluster is not cleared, starts with no entries.                   *)
THEOREM NothingIsLost == SpecAtEnd => []UsedOrBlank
BY AInvAlways, AInvUsedOrBlank, PTL

-----------------------------------------------------------------------------
(* What destroys a volume.                                                 *)

Taken(i) == fat[i] # 0 \/ fat'[i] # 0

(* Full, said with what is taken.                                          *)
LEMMA FullIsTaken ==
  ASSUME NEW f, Full(f), \A i \in Index : f[i] # 0 => Taken(i)
  PROVE  \A i \in Index : Taken(i) \/ LastInSector(i) \/ Taken(i + 1)
<1> SUFFICES ASSUME NEW i \in Index PROVE Taken(i) \/ LastInSector(i) \/ Taken(i + 1)
  OBVIOUS
<1>1. i + 1 \in Index \/ LastInSector(i)
  BY FatAssumption DEF Index, LastInSector
<1> QED
  BY <1>1 DEF Full

(* A call that makes a file or directory fails so only when it finds no    *)
(* cluster, or its directory was made when there was none.                 *)
LEMMA MakeWrecks ==
  ASSUME AInv, status = "ok", NEW p \in Paths, NEW n, NEW attr, IsDir(fat, disk, p),
         Make(p, n, attr), status' # "ok"
  PROVE  \E f : Full(f) /\ \A i \in Index : f[i] # 0 => Taken(i)
<1>0. PICK d : d = get_cluster_number(fat, disk, p)
  OBVIOUS
<1>1. d \in DirHeads /\ d \in AllHeads
  BY <1>0, DirLeadsToHead, DirHeadsAreHeads
<1>2. PICK head \in find_empty_fat_index(fat) :
        LET f == write_in_fat_index(fat, head, EndMark)
        IN  IF d = 0 THEN fat' = f /\ Wreck
            ELSE alloc_new_dirent(f, d, Dirent(attr, n, head, 0))
  BY <1>0 DEF Make
<1>3. CASE d = 0
  <2>1. PICK a \in EntryAddrs : disk[a].head = 0
    BY <1>1, <1>3 DEF DirHeads, RootCluster
  <2>2. Full(fat)
    BY <2>1 DEF AInv, ZeroIsEmpty
  <2> QED
    BY <2>2 DEF Taken
<1>4. CASE d # 0
  <2> DEFINE f == write_in_fat_index(fat, head, EndMark)
  <2>1. PICK tail \in Cluster, new \in find_empty_fat_index(f) :
              /\ tail \in Chain(f, d) /\ f[tail] = EndMark
              /\ fat' = Extended(f, tail, new)
              /\ new = 0
    BY <1>2, <1>4 DEF alloc_new_dirent
  <2>2. Full(f)
    BY <2>1, NoneFound
  <2>3. fat \in Table /\ f \in Table /\ head \in Cluster
    BY FoundIsUnused, WriteKeepsTable DEF AInv, FInv, NInv, CInv, IInv, TypeOK
  <2>4. \A i \in Index : f[i] # 0 => Taken(i)
    <3> SUFFICES ASSUME NEW i \in Index, f[i] # 0, fat[i] = 0 PROVE fat'[i] # 0
      BY DEF Taken
    <3>1. i = head
      BY <2>3 DEF write_in_fat_index, Table, Cluster
    <3>2. head # 0
      BY <3>1, NotAnIndex
    <3>3. ChainsApart(fat, AllHeads) /\ AllHeads \in SUBSET Cluster
      BY ApartNow DEF AInv, FInv, NInv, CInv
    <3>4. Chain(f, d) = Chain(fat, d)
      BY <1>1, <1>4, <2>3, <3>3, MarkedChain
    <3>5. head # tail
      BY <1>1, <2>1, <2>3, <3>1, <3>3, <3>4, ChainInUse
    <3>6. fat'[head] = f[head]
      <4> HIDE DEF f
      <4> QED
        BY <2>1, <2>3, <3>2, <3>5 DEF Extended, write_in_fat_index, Table
    <3> QED
      BY <3>1, <3>6
  <2> QED
    BY <2>2, <2>4
<1> QED
  BY <1>3, <1>4

(* And so does a write.                                                    *)
LEMMA AppendWrecks ==
  ASSUME AInv, NEW p \in Paths, NEW n, NEW buf \in Buffers, AppendFile(p, n, buf),
         status' # "ok"
  PROVE  Full(fat)
<1>0. PICK d : d = get_cluster_number(fat, disk, p)
  OBVIOUS
<1>1. PICK a \in get_dentry(fat, disk, d, n) :
        /\ status = "ok" /\ IsDir(fat, disk, p)
        /\ disk[a].size % CS = 0 \/ (disk[a].size % CS) + Len(buf) <= CS
        /\ WriteEntry(d, a, disk[a].size, buf)
  BY <1>0 DEF AppendFile
<1> DEFINE off == disk[a].size
           co == off % CS
           q == off \div CS
           h == disk[a].head
<1>2. /\ status = "ok" /\ TypeOK /\ off + Len(buf) <= MaxSize
      /\ ZeroIsEmpty /\ ChainsApart(fat, AllHeads) /\ AllHeads \in SUBSET Cluster
  BY <1>1, ApartNow DEF WriteEntry, AInv, FInv, NInv, CInv, IInv
<1>3. a \in EntryAddrs /\ off \in Nat /\ h \in AllHeads /\ h \in Cluster
  <2>1. a \in EntryAddrs
    BY <1>2, FoundIsEntry
  <2> QED
    BY <1>2, <2>1, EntryTyped DEF AllHeads, Heads
<1>4. Len(buf) \in Nat \ {0}
  BY DEF Buffers
<1>5. q \in Nat /\ co \in 0..(CS - 1) /\ off = CS * q + co
  BY <1>3, DivMod
<1>6. q \in 0..MaxIndex
  <2> SUFFICES ASSUME q >= MaxIndex + 1 PROVE FALSE
    BY <1>5, FatAssumption
  <2> HIDE DEF q, co, off
  <2>1. CS * q >= CS * (MaxIndex + 1)
    BY <1>5, FatAssumption, MfsAssumption
  <2>2. CS * (MaxIndex + 1) = CS * MaxIndex + CS
    BY FatAssumption, MfsAssumption
  <2>3. off <= CS * MaxIndex /\ off = CS * q + co
    BY <1>2, <1>3, <1>4, <1>5, MfsAssumption, FatAssumption
  <2> QED
    BY <1>5, <2>1, <2>2, <2>3, FatAssumption, MfsAssumption
<1>7. valid_len(Len(buf), co) \in Nat \ {0}
  BY <1>1, <1>4, <1>5, ValidLenAtEnd
<1>8. CASE WriteInChain(d, disk[a], off, buf)
  <2>1. PICK c \in Cluster :
          /\ c = Walk(fat, h)[q]
          /\ Store(fat, d, disk[a], c, co, buf)
    BY <1>8 DEF WriteInChain
  <2>2. c = 0
    BY <1>2, <1>7, <2>1 DEF Store
  <2>3. h = 0
    <3>1. fat \in Table /\ LinkedInUse(fat, AllHeads) /\ fat[h] # 0
      BY <1>2, <1>3 DEF TypeOK, ChainsApart, HeadsInUse
    <3>2. q # 0 => c \in Index
      BY <1>3, <1>6, <2>1, <3>1, NotAnIndex, WalkInUse
    <3>3. q = 0
      BY <2>2, <3>2, NotAnIndex
    <3>4. Walk(fat, h)[0] = h
      BY WalkStep
    <3> QED
      BY <2>1, <2>2, <3>3, <3>4
  <2> QED
    BY <1>2, <1>3, <2>3 DEF ZeroIsEmpty
<1>9. CASE WriteExtending(d, disk[a], off, buf)
  <2>1. PICK new \in find_empty_fat_index(fat) : Store(fat', d, disk[a], new, co, buf)
    BY <1>9 DEF WriteExtending
  <2>2. new = 0
    BY <1>2, <1>7, <2>1 DEF Store
  <2> QED
    BY <2>1, <2>2, NoneFound
<1> QED
  BY <1>1, <1>8, <1>9 DEF WriteEntry

(* Every step that destroys the volume is one of those.                    *)
LEMMA OnlyFullStep ==
  ASSUME AInv, [NextAtEnd]_vars, status' # status
  PROVE  \A i \in Index : Taken(i) \/ LastInSector(i) \/ Taken(i + 1)
<1>1. status = "ok" /\ status' # "ok"
  BY DEF vars, NextAtEnd, CreateNew, MkdirNew, WriteAtEnd, mfs_create, mfs_mkdir, AppendFile
<1>2. CASE CreateNew
  <2>1. PICK p \in Paths, n \in Names : mfs_create(p, n)
    BY <1>2 DEF CreateNew
  <2>2. \E f : Full(f) /\ \A i \in Index : f[i] # 0 => Taken(i)
    BY <1>1, <2>1, MakeWrecks DEF mfs_create
  <2> QED
    BY <2>2, FullIsTaken
<1>3. CASE MkdirNew
  <2>1. PICK p \in Paths, n \in Names : mfs_mkdir(p, n)
    BY <1>3 DEF MkdirNew
  <2>2. \E f : Full(f) /\ \A i \in Index : f[i] # 0 => Taken(i)
    BY <1>1, <2>1, MakeWrecks DEF mfs_mkdir
  <2> QED
    BY <2>2, FullIsTaken
<1>4. CASE WriteAtEnd
  <2>1. PICK p \in Paths, n \in Names, buf \in Buffers : AppendFile(p, n, buf)
    BY <1>4 DEF WriteAtEnd
  <2>2. Full(fat)
    BY <1>1, <2>1, AppendWrecks
  <2>3. \A i \in Index : fat[i] # 0 => Taken(i)
    BY DEF Taken
  <2> QED
    BY <2>2, <2>3, FullIsTaken
<1> QED
  BY <1>2, <1>3, <1>4 DEF NextAtEnd, vars

(* For clients that write at the end of their files, a call that destroys  *)
(* the volume finds no index it could have used: each was in use before    *)
(* the call or is after it, but for those the probe passes over.           *)
THEOREM OnlyFullIsWrecked == SpecAtEnd => OnlyAFullVolumeIsWrecked
<1>1. SpecAtEnd => [](AInv)
  BY AInvAlways
<1>2. AInv /\ [NextAtEnd]_vars =>
        [status' # status =>
           LET T(i) == fat[i] # 0 \/ fat'[i] # 0 IN
           \A i \in Index : T(i) \/ LastInSector(i) \/ T(i + 1)]_vars
  BY OnlyFullStep DEF Taken
<1> QED
  BY <1>1, <1>2, PTL DEF SpecAtEnd, OnlyAFullVolumeIsWrecked

-----------------------------------------------------------------------------
(* The walk of a reader.                                                   *)

(* There is a function that satisfies the equation that defines BlindWalk. *)
LEMMA BlindWalkDef ==
  ASSUME NEW f, NEW h
  PROVE  BlindWalk(f, h) = [k \in 0..MaxIndex |-> IF k = 0 THEN h
                             ELSE read_fat_index(f, BlindWalk(f, h)[k - 1])]
<1> DEFINE Good(n) == \E g : g = [k \in 0..n |-> IF k = 0 THEN h ELSE read_fat_index(f, g[k - 1])]
           T == {n \in Nat : Good(n)}
<1>1. 0 \in T
  <2> DEFINE g == [k \in 0..0 |-> h]
  <2>1. g = [k \in 0..0 |-> IF k = 0 THEN h ELSE read_fat_index(f, g[k - 1])]
    OBVIOUS
  <2> QED
    BY <2>1
<1>2. ASSUME NEW n \in Nat, n \in T PROVE n + 1 \in T
  <2>1. PICK g : g = [k \in 0..n |-> IF k = 0 THEN h ELSE read_fat_index(f, g[k - 1])]
    BY <1>2
  <2> DEFINE e == [k \in 0..(n + 1) |-> IF k <= n THEN g[k] ELSE read_fat_index(f, g[n])]
  <2>2. ASSUME NEW k \in 0..(n + 1)
        PROVE  e[k] = IF k = 0 THEN h ELSE read_fat_index(f, e[k - 1])
    <3>1. CASE k = 0
      BY <3>1, <2>1
    <3>2. CASE k # 0 /\ k <= n
      <4>1. k \in 0..n /\ k - 1 \in 0..(n + 1) /\ k - 1 <= n
        BY <3>2
      <4>2. g[k] = read_fat_index(f, g[k - 1])
        BY <2>1, <3>2, <4>1
      <4> QED
        BY <3>2, <4>1, <4>2
    <3>3. CASE k = n + 1
      <4>1. k - 1 \in 0..(n + 1) /\ k - 1 = n /\ k # 0 /\ ~ (k <= n)
        BY <3>3
      <4> QED
        BY <4>1
    <3> QED
      BY <3>1, <3>2, <3>3
  <2>3. e = [k \in 0..(n + 1) |-> IF k = 0 THEN h ELSE read_fat_index(f, e[k - 1])]
    BY <2>2
  <2>4. Good(n + 1)
    BY <2>3
  <2> QED
    BY <2>4
<1>3. Good(MaxIndex)
  <2> HIDE DEF Good
  <2>1. MaxIndex \in T
    BY <1>1, <1>2, Induction, FatAssumption
  <2> QED
    BY <2>1
<1> QED
  BY <1>3 DEF BlindWalk

(* Up to the end of a chain, a reader that does not look for it walks the  *)
(* way a writer does.                                                      *)
LEMMA BlindWalkAgrees ==
  ASSUME NEW f, NEW h, NEW q \in 0..MaxIndex, Walk(f, h)[q] # EndMark
  PROVE  BlindWalk(f, h)[q] = Walk(f, h)[q]
<1> DEFINE v == BlindWalk(f, h)
           w == Walk(f, h)
           T == {k \in Nat : k <= q => v[k] = w[k]}
<1>0. v = [k \in 0..MaxIndex |-> IF k = 0 THEN h ELSE read_fat_index(f, v[k - 1])]
  BY BlindWalkDef
<1>1. \A k \in 0..q : w[k] # EndMark
  <2> SUFFICES ASSUME NEW k \in 0..q, w[k] = EndMark PROVE FALSE
    OBVIOUS
  <2>1. k \in 0..MaxIndex /\ q \in k..MaxIndex
    BY FatAssumption
  <2> QED
    BY <2>1, WalkStaysAtEnd
<1>2. 0 \in T
  <2>1. w[0] = h
    BY WalkStep
  <2>2. v[0] = h
    <3> HIDE DEF v
    <3> QED
      BY <1>0, FatAssumption
  <2> QED
    BY <2>1, <2>2
<1>3. ASSUME NEW k \in Nat, k \in T PROVE k + 1 \in T
  <2> SUFFICES ASSUME k + 1 <= q PROVE v[k + 1] = w[k + 1]
    OBVIOUS
  <2>1. k + 1 \in 1..MaxIndex /\ k + 1 \in 0..MaxIndex /\ (k + 1) - 1 = k /\ k \in 0..q
        /\ k + 1 # 0
    BY FatAssumption
  <2>2. v[k + 1] = read_fat_index(f, v[(k + 1) - 1])
    <3> HIDE DEF v
    <3> QED
      BY <1>0, <2>1
  <2>3. w[k + 1] = After(f, w[(k + 1) - 1])
    BY <2>1, WalkStep
  <2>4. v[k] = w[k] /\ w[k] # EndMark
    BY <1>1, <1>3, <2>1
  <2> HIDE DEF v, w
  <2> QED
    BY <2>1, <2>2, <2>3, <2>4 DEF After
<1> HIDE DEF v, w
<1>4. \A k \in Nat : k \in T
  BY <1>2, <1>3, Induction
<1> QED
  BY <1>4, FatAssumption DEF v, w

(* A read of one slot returns what is in the slot.                         *)
LEMMA ReadOneSlot ==
  ASSUME NEW f, NEW dk, NEW de, NEW k \in Nat, de.size \in Nat, k < de.size,
         k \div CS \in 0..MaxIndex, Walk(f, de.head)[k \div CS] \in Index
  PROVE  read_file(f, dk, de, k, 1)[1] = dk[SlotAt(f, de.head, k)]
<1> DEFINE c == Walk(f, de.head)[k \div CS]
           co == k % CS
<1>1. BlindWalk(f, de.head)[k \div CS] = c
  BY BlindWalkAgrees, NotAnIndex
<1>2. co \in 0..(CS - 1)
  BY DivMod
<1>3. Base(c) \in Int
  BY MfsAssumption, FatAssumption DEF Base, Index
<1>4. ~(k > de.size) /\ ~(k + 1 > de.size) /\ ~(1 + co > CS)
  <2> HIDE DEF co
  <2> QED
    BY <1>2, MfsAssumption
<1>5. read_file(f, dk, de, k, 1) = [i \in 1..1 |-> dk[Base(c) + co + i - 1]]
  <2> HIDE DEF co
  <2>1. BlindWalk(f, de.head)[k \div CS] \in Index
    BY <1>1
  <2> QED
    BY <1>1, <1>4, <2>1 DEF read_file, co
<1>6. Base(c) + co + 1 - 1 = Base(c) + co
  <2> HIDE DEF co, c
  <2> QED
    BY <1>2, <1>3
<1> HIDE DEF c, co
<1>7. read_file(f, dk, de, k, 1)[1] = dk[Base(c) + co]
  BY <1>5, <1>6
<1> QED
  BY <1>7 DEF c, co, SlotAt
=============================================================================
