---------------------------- MODULE ClientProofs ----------------------------
(***************************************************************************)
(* Theorems about what a client sees of a volume, for every volume: a      *)
(* write that fits its cluster reads back (MfsCalls), the volume of        *)
(* clients that write at the end implements FileStore (MfsView), and what  *)
(* mdbfs copies is all there (CreateDummy).                                *)
(*                                                                         *)
(* For the refinement the variables of the view are those that Seen        *)
(* computes from the volume, and AInv says of the volume that its entries  *)
(* are a tree (TreeShape), that a read gives the slots of the chain in     *)
(* order (FilesRead) and that these are content (FilesShape). Then each    *)
(* call is shown to be a step of the abstract store: a creation adds one   *)
(* node (MakeIsPromised), an append extends one file by a prefix of its    *)
(* buffer (AppendIsPromised), and a call that wrecks the volume is what    *)
(* the store calls losing it.                                              *)
(***************************************************************************)
EXTENDS MfsProofs, MfsCalls, MfsView, CreateDummy, SequenceTheorems

-----------------------------------------------------------------------------
(* Writes that stay in one cluster, and at most one cluster past the end,  *)
(* whatever other writes have done.                                        *)

(* A length that fits is not cut.                                          *)
LEMMA FitLen ==
  ASSUME NEW len \in Nat \ {0}, NEW co \in 0..(CS - 1), co + len <= CS
  PROVE  valid_len(len, co) = len
BY MfsAssumption DEF valid_len

(* What such a write at offset off does: b is the entry of the file, c the *)
(* cluster of the offset.                                                  *)
StoredAt(b, c, off, buf) ==
  LET h == disk[b].head IN
  /\ c \in Index /\ FitAt(b, c, off % CS, buf)
  /\ off \div CS \in 0..MaxIndex /\ Walk(fat', h)[off \div CS] = c
  /\ \A e \in AllHeads : Chain(fat, e) \subseteq Chain(fat', e)

(* A write that fits its cluster is stored there, whole.                   *)
LEMMA FitStores ==
  ASSUME FInv, NEW p \in Paths, NEW n, NEW off \in 0..MaxSize, NEW buf \in Buffers,
         (off % CS) + Len(buf) <= CS, WriteFile(p, n, off, buf), status' = "ok",
         NEW a \in get_dentry(fat, disk, get_cluster_number(fat, disk, p), n),
         off < (Cardinality(Chain(fat, disk[a].head)) + 1) * CS
  PROVE  \E c \in Index : StoredAt(a, c, off, buf)
<1>0. PICK d : d = get_cluster_number(fat, disk, p)
  OBVIOUS
<1> DEFINE h == disk[a].head
           q == off \div CS
           co == off % CS
           w == Walk(fat, h)
           e == Cardinality(Chain(fat, h))
<1>1. status = "ok"
  BY DEF WriteFile, WriteEntry
<1>2. ChainsApart(fat, AllHeads) /\ AllHeads \in SUBSET Cluster /\ fat \in Table /\ TypeOK
  BY <1>1, ApartNow DEF FInv, NInv, CInv, IInv
<1>3. Len(buf) \in Nat \ {0} /\ off \in Nat
  BY MfsAssumption DEF Buffers
<1>4. off = CS * q + co /\ q \in Nat /\ co \in 0..(CS - 1)
  BY <1>3, DivMod
<1>5. valid_len(Len(buf), co) = Len(buf)
  BY <1>3, <1>4, FitLen
<1>6. FitWriteAt(d, n, off, buf)
  BY <1>0, <1>3, <1>5, FitWrites
<1>7. PICK c \in Index :
        /\ FitAt(a, c, co, buf)
        /\ \/ fat' = fat /\ q \in 0..MaxIndex /\ w[q] = c
           \/ /\ fat[c] = 0
              /\ \E tail \in Cluster :
                   /\ fat[tail] = EndMark /\ fat' = Extended(fat, tail, c)
                   /\ \E k \in 0..(q - 1) : k \in 0..MaxIndex /\ w[k] = tail
  <2>1. \A b \in get_dentry(fat, disk, d, n) : b = a
    BY <1>0, SearchFindsOne DEF get_dentry
  <2> QED
    BY <1>6, <2>1 DEF FitWriteAt
<1>8. a \in EntryAddrs /\ h \in AllHeads
  <2>1. a \in EntryAddrs
    BY <1>2, FoundIsEntry
  <2> QED
    BY <2>1 DEF AllHeads, Heads
<1>9. CASE fat' = fat /\ q \in 0..MaxIndex /\ w[q] = c
  BY <1>7, <1>9 DEF StoredAt
<1>10. ASSUME NEW tail \in Cluster, NEW k \in 0..(q - 1), fat[c] = 0, fat[tail] = EndMark,
              fat' = Extended(fat, tail, c), k \in 0..MaxIndex, w[k] = tail
       PROVE  StoredAt(a, c, off, buf)
  <2>1. tail # EndMark
    BY NotAnIndex
  <2>2. e \in 1..MaxIndex /\ k = e - 1
    BY <1>2, <1>8, <1>10, <2>1, ChainCount
  <2>3. q <= e
    <3> SUFFICES ASSUME q >= e + 1 PROVE FALSE
      BY <1>4, <2>2
    <3> HIDE DEF q, co, e
    <3>1. CS * q >= (e + 1) * CS
      BY <1>4, <2>2, MfsAssumption
    <3> QED
      BY <1>3, <1>4, <2>2, <3>1, MfsAssumption DEF e
  <2>4. q = k + 1 /\ k \in 0..(MaxIndex - 1) /\ q \in 0..MaxIndex
    <3> HIDE DEF q, e
    <3> QED
      BY <1>4, <1>10, <2>2, <2>3, FatAssumption
  <2>5. \A x \in AllHeads : KeepsWalk(fat, fat', x)
    BY <1>2, <1>10, ExtendedWalk
  <2>6. Walk(fat', h)[k] = tail
    BY <1>8, <1>10, <2>1, <2>5 DEF KeepsWalk
  <2>7. Walk(fat', h)[k + 1] = After(fat', tail)
    BY <2>4, <2>6, WalkStep
  <2>8. After(fat', tail) = fat'[tail]
    BY <1>10, AfterCluster
  <2>9. fat'[tail] = c
    BY <1>2, <1>10, ExtendedFat
  <2>10. \A x \in AllHeads : Chain(fat, x) \subseteq Chain(fat', x)
    BY <1>2, <1>10, ExtendedChain
  <2> HIDE DEF q
  <2>11. q \in 0..MaxIndex /\ Walk(fat', h)[q] = c
    BY <2>4, <2>7, <2>8, <2>9
  <2> QED
    BY <1>7, <2>10, <2>11 DEF StoredAt, q
<1> QED
  BY <1>7, <1>9, <1>10

(* After the write, the file is still the entry it was, its content is     *)
(* where it was asked to be, and a read returns it.                        *)
StoredNow(a, c, off, buf) ==
  LET stored == [i \in 1..Len(buf) |-> Datum(buf[i])] IN
  /\ stored = [i \in 1..Len(buf) |-> disk'[Base(c) + (off % CS) + i - 1]]
  /\ off <= disk[a].size => read_file(fat', disk', disk'[a], off, Len(buf)) = stored

(* The entry that was written is the one that is found afterwards ...      *)
LEMMA StoredFound ==
  ASSUME FInv, status = "ok", status' = "ok", NEW p \in Paths, NEW n \in Names,
         NEW off \in 0..MaxSize, NEW buf \in Buffers, NEW c, IsDir(fat, disk, p),
         WriteFile(p, n, off, buf),
         NEW a \in get_dentry(fat, disk, get_cluster_number(fat, disk, p), n),
         StoredAt(a, c, off, buf)
  PROVE  \A x \in get_dentry(fat', disk', get_cluster_number(fat', disk', p), n) : x = a
<1>0. PICK d : d = get_cluster_number(fat, disk, p)
  OBVIOUS
<1>1. NInv /\ TypeOK
  BY DEF FInv, NInv, CInv, IInv
<1>2. d \in DirHeads
  BY <1>0, DirLeadsToHead
<1>3. a \in EntryAddrs /\ disk[a].attr = "file"
  <2>1. a \in Named(disk, {"file"}, n)
    BY SearchIsSound DEF get_dentry
  <2> QED
    BY <2>1 DEF Named, EntryAddrs, FileOrDir
<1>4. FitAt(a, c, off % CS, buf) /\ \A e \in AllHeads : Chain(fat, e) \subseteq Chain(fat', e)
  BY DEF StoredAt
<1>5. KeepsTree /\ SearchesStay
  <2>1. SearchesStay
    BY <1>1, WriteKeepsFirst DEF SearchesStay
  <2> QED
    BY <1>1, <1>3, <1>4, <2>1, FitTree
<1>6. get_cluster_number(fat', disk', p) = d
  BY <1>0, <1>1, <1>5, TreeKept
<1>7. d # 0
  <2>1. d \in AllHeads /\ d \in Cluster /\ fat \in Table
    BY <1>1, <1>2, DirHeadsAreHeads, ApartNow DEF NInv, CInv
  <2>2. ClusterOf(a) \in Chain(fat, d)
    BY <1>0, <2>1, SearchOnChain DEF get_dentry, ClusterOf
  <2> QED
    BY <1>1, <1>3, <2>2 DEF NInv, EntriesInUse
<1>8. disk'[a].attr = "file"
  BY <1>1, <1>3, <1>4, FitEntries
<1>9. get_dentry(fat', disk', d, n) = {a}
  <2>1. {"file"} \in (SUBSET FileOrDir) \ {{}} /\ "file" \in FileOrDir
    BY DEF FileOrDir
  <2> QED
    BY <1>0, <1>2, <1>5, <1>7, <1>8, <2>1 DEF get_dentry, SearchesStay, SearchesKept
<1> QED
  BY <1>6, <1>9

(* ... and the reader comes to the slots that were written.                *)
LEMMA StoredReads ==
  ASSUME TypeOK, NEW a \in EntryAddrs, NEW off \in 0..MaxSize, NEW buf \in Buffers, NEW c,
         (off % CS) + Len(buf) <= CS, StoredAt(a, c, off, buf)
  PROVE  StoredNow(a, c, off, buf)
<1> DEFINE co == off % CS
           q == off \div CS
           h == disk[a].head
           len == Len(buf)
<1>1. len \in Nat \ {0} /\ off \in Nat /\ co \in 0..(CS - 1) /\ q \in 0..MaxIndex
  <2>1. len \in Nat \ {0} /\ off \in Nat
    BY MfsAssumption DEF Buffers
  <2> QED
    BY <2>1, DivMod DEF StoredAt
<1>2. valid_len(len, co) = len
  BY <1>1, FitLen
<1>3. c \in Index /\ FitAt(a, c, co, buf) /\ Walk(fat', h)[q] = c
  BY DEF StoredAt
<1>4. Base(c) \in Int
  BY <1>3, MfsAssumption, FatAssumption DEF Base, Index
<1>5. disk'[a].size = disk[a].size + len /\ disk'[a].head = h /\ disk[a].size \in Nat
  BY <1>2, <1>3, EntryTyped DEF FitAt, Grown
<1>6. ASSUME NEW i \in 1..len PROVE disk'[Base(c) + co + i - 1] = Datum(buf[i])
  <2> DEFINE x == Base(c) + co + i - 1
  <2>1. x \in TargetOf(c, co, buf) /\ x - (Base(c) + co) + 1 = i
    <3> HIDE DEF co, len
    <3> QED
      BY <1>1, <1>2, <1>4 DEF TargetOf, len
  <2> HIDE DEF x, co
  <2>2. x # a /\ x \in Addr
    BY <1>3, <2>1 DEF FitAt
  <2> QED
    BY <1>3, <2>1, <2>2 DEF FitAt, x
<1>7. [i \in 1..len |-> Datum(buf[i])] = [i \in 1..len |-> disk'[Base(c) + co + i - 1]]
  BY <1>6
<1>8. ASSUME off <= disk[a].size
      PROVE  read_file(fat', disk', disk'[a], off, len) = [i \in 1..len |-> Datum(buf[i])]
  <2>1. BlindWalk(fat', h)[q] = c
    BY <1>1, <1>3, NotAnIndex, BlindWalkAgrees
  <2>2. ~(off > disk'[a].size) /\ ~(off + len > disk'[a].size) /\ ~(len + co > CS)
    <3>1. PICK m \in Nat : m = disk[a].size
      BY <1>5
    <3>2. disk'[a].size = m + len /\ off <= m
      BY <1>5, <1>8, <3>1
    <3>3. co + len <= CS /\ co \in Nat /\ len \in Nat /\ off \in Nat /\ CS \in Nat
      BY <1>1, MfsAssumption
    <3> HIDE DEF co, len
    <3>4. ~(off > m + len) /\ ~(off + len > m + len)
      BY <3>2, <3>3
    <3>5. ~(len + co > CS)
      BY <3>3
    <3> QED
      BY <3>2, <3>4, <3>5
  <2> DEFINE de == disk'[a]
  <2>3. de.head = h
    BY <1>5
  <2> HIDE DEF de, h, q, co, len
  <2>4. read_file(fat', disk', de, off, len) = [i \in 1..len |-> disk'[Base(c) + co + i - 1]]
    BY <1>3, <2>1, <2>2, <2>3 DEF read_file, de, q, co
  <2> QED
    BY <1>7, <2>4 DEF de
<1> QED
  BY <1>7, <1>8 DEF StoredNow

(* The step of the property.                                               *)
LEMMA CallWriteFits ==
  ASSUME FInv, CallWrite
  PROVE  FittingWritesReadBack'
<1> SUFFICES ASSUME status' = "ok", Fits'
             PROVE  /\ call'.ret = Len(call'.buf)
                    /\ \A de \in Written' :
                         LET c == Walk(fat', de.head)[call'.off \div CS]
                             stored == [i \in 1..call'.ret |-> Datum(call'.buf[i])]
                         IN  /\ c \in Index
                             /\ stored = [i \in 1..call'.ret |->
                                            disk'[Base(c) + (call'.off % CS) + i - 1]]
                             /\ call'.off <= call'.before =>
                                  read_file(fat', disk', de, call'.off, call'.ret) = stored
  BY DEF FittingWritesReadBack
<1>1. PICK p \in Paths, n \in Names, off \in 0..MaxSize, buf \in Buffers :
    /\ WriteFile(p, n, off, buf)
    /\ \E a \in get_dentry(fat, disk, get_cluster_number(fat, disk, p), n) :
         call' = [ret |-> valid_len(Len(buf), off % CS), before |-> disk[a].size,
                  clusters |-> Cardinality(Chain(fat, disk[a].head)),
                  path |-> p, name |-> n, off |-> off, buf |-> buf]
  BY DEF CallWrite
<1>2. PICK d : d = get_cluster_number(fat, disk, p)
  OBVIOUS
<1>3. PICK a \in get_dentry(fat, disk, d, n) :
         call' = [ret |-> valid_len(Len(buf), off % CS), before |-> disk[a].size,
                  clusters |-> Cardinality(Chain(fat, disk[a].head)),
                  path |-> p, name |-> n, off |-> off, buf |-> buf]
  BY <1>1, <1>2
<1>4. /\ call'.ret = valid_len(Len(buf), off % CS) /\ call'.before = disk[a].size
      /\ call'.clusters = Cardinality(Chain(fat, disk[a].head))
      /\ call'.path = p /\ call'.name = n /\ call'.off = off /\ call'.buf = buf
  BY <1>3
<1>5. (off % CS) + Len(buf) <= CS /\ off < (Cardinality(Chain(fat, disk[a].head)) + 1) * CS
  BY <1>4 DEF Fits
<1>6. call'.ret = Len(buf)
  <2>1. Len(buf) \in Nat \ {0} /\ off % CS \in 0..(CS - 1)
    BY MfsAssumption DEF Buffers
  <2> QED
    BY <1>4, <1>5, <2>1, FitLen
<1>7. PICK c \in Index : StoredAt(a, c, off, buf)
  BY <1>1, <1>2, <1>5, FitStores
<1>8. status = "ok" /\ IsDir(fat, disk, p) /\ TypeOK /\ a \in EntryAddrs
  BY <1>1, FoundIsEntry DEF WriteFile, WriteEntry, FInv, NInv, CInv, IInv
<1>9. \A x \in get_dentry(fat', disk', get_cluster_number(fat', disk', p), n) : x = a
  BY <1>1, <1>2, <1>7, <1>8, StoredFound
<1>10. StoredNow(a, c, off, buf)
  BY <1>5, <1>7, <1>8, StoredReads
<1>11. disk'[a].head = disk[a].head /\ Walk(fat', disk[a].head)[off \div CS] = c
  BY <1>7, <1>8, FitEntries DEF StoredAt
<1>12. \A de \in Written' : de = disk'[a]
  BY <1>4, <1>9 DEF Written
<1> QED
  BY <1>4, <1>6, <1>10, <1>11, <1>12 DEF StoredNow

(* A write that stays in one cluster and starts at most one cluster past   *)
(* the end of its chain stores what it returns, where it was asked to, and *)
(* a read returns it: on any volume, full or not, whatever was written to  *)
(* it before.                                                              *)
THEOREM FittingWritesWork == CallSpec => []FittingWritesReadBack
<1> DEFINE RInv == FInv /\ FittingWritesReadBack
<1>1. CallInit => RInv
  BY InitFInv DEF CallInit, FittingWritesReadBack
<1>2. RInv /\ [CallNext]_callVars => RInv'
  <2> SUFFICES ASSUME RInv, [CallNext]_callVars PROVE RInv'
    OBVIOUS
  <2>1. [Next]_vars
    BY DEF CallNext, CallWrite, Next, Write, callVars, vars
  <2>2. FInv' /\ NInv'
    BY <2>1, NextFInv DEF FInv
  <2>3. CASE CallWrite
    BY <2>2, <2>3, CallWriteFits
  <2>4. CASE call' = None
    BY <2>2, <2>4 DEF FittingWritesReadBack
  <2>5. CASE UNCHANGED callVars
    <3>1. fat' = fat /\ disk' = disk /\ status' = status /\ call' = call
      BY <2>5 DEF callVars
    <3>2. Fits' = Fits /\ Written' = Written
      BY <3>1 DEF Fits, Written
    <3> QED
      BY <2>2, <3>1, <3>2 DEF FittingWritesReadBack
  <2> QED
    BY <2>3, <2>4, <2>5 DEF CallNext
<1> QED
  BY <1>1, <1>2, PTL DEF CallSpec

-----------------------------------------------------------------------------
(* The tree a client sees.  Entry a is the one node q leads to: it is      *)
(* listed, under the last name of q, in the directory the names before it  *)
(* lead to.                                                                *)

DirOf(q) == Prefix(q, Len(q) - 1)
ListedAt(q, a) ==
  /\ IsDir(fat, disk, DirOf(q))
  /\ a \in Listed(get_cluster_number(fat, disk, DirOf(q)))
  /\ disk[a].name = q[Len(q)]

(* A node other than the root is a path and one more name.                 *)
LEMMA NodeTyped ==
  ASSUME NEW q \in Nodes
  PROVE  /\ Len(q) \in 0..(MaxDepth + 1) /\ DOMAIN q = 1..Len(q)
         /\ Len(q) = 0 <=> q = <<>>
         /\ q # <<>> => /\ DirOf(q) \in Paths /\ Len(DirOf(q)) = Len(q) - 1
                        /\ q[Len(q)] \in Names
                        /\ \A k \in 1..(Len(q) - 1) : DirOf(q)[k] = q[k]
                        /\ \A k \in 0..(Len(q) - 1) : Prefix(q, k) = Prefix(DirOf(q), k)
<1>1. PICK m \in 0..(MaxDepth + 1) : q \in [1..m -> Names]
  BY DEF Nodes
<1>2. m \in Nat /\ q \in Seq(Names) /\ Len(q) = m
  BY <1>1, MfsAssumption
<1>3. m = 0 <=> q = <<>>
  BY <1>1, <1>2
<1>4. ASSUME q # <<>>
      PROVE  /\ DirOf(q) \in [1..(m - 1) -> Names]
             /\ DirOf(q) \in Seq(Names) /\ Len(DirOf(q)) = m - 1
             /\ \A k \in 1..(m - 1) : DirOf(q)[k] = q[k]
  <2>1. m \in 1..(MaxDepth + 1)
    BY <1>2, <1>3, <1>4, MfsAssumption
  <2>2. DirOf(q) = [j \in 1..(m - 1) |-> q[j]]
    BY <1>2, <2>1 DEF DirOf, Prefix
  <2>3. \A j \in 1..(m - 1) : q[j] \in Names
    BY <1>1, <1>2, <2>1
  <2>4. m - 1 \in Nat
    BY <2>1
  <2> DEFINE p == DirOf(q)
  <2> HIDE DEF p
  <2>5. p \in [1..(m - 1) -> Names] /\ \A j \in 1..(m - 1) : p[j] = q[j]
    BY <2>2, <2>3 DEF p
  <2>6. p \in Seq(Names) /\ Len(p) = m - 1
    BY <2>4, <2>5
  <2> QED
    BY <2>5, <2>6 DEF p
<1>5. ASSUME q # <<>> PROVE DirOf(q) \in Paths
  <2>1. m - 1 \in 0..MaxDepth
    BY <1>2, <1>3, <1>5, MfsAssumption
  <2> QED
    BY <1>4, <1>5, <2>1 DEF Paths
<1>6. ASSUME q # <<>>, NEW k \in 0..(m - 1) PROVE Prefix(q, k) = Prefix(DirOf(q), k)
  <2>1. k \in Nat /\ k <= m - 1
    BY <1>2
  <2>2. /\ DirOf(q) \in Seq(Names) /\ Len(DirOf(q)) = m - 1
        /\ \A j \in 1..(m - 1) : DirOf(q)[j] = q[j]
    BY <1>4, <1>6
  <2>3. Prefix(q, k) = [j \in 1..k |-> q[j]]
    BY <1>2, <2>1 DEF Prefix
  <2> DEFINE p == DirOf(q)
  <2> HIDE DEF p
  <2>4. p \in Seq(Names) /\ Len(p) = m - 1 /\ \A j \in 1..(m - 1) : p[j] = q[j]
    BY <2>2 DEF p
  <2>5. Prefix(p, k) = [j \in 1..k |-> p[j]]
    BY <1>2, <2>1, <2>4 DEF Prefix
  <2> QED
    BY <2>1, <2>3, <2>4, <2>5 DEF p
<1>7. ASSUME q # <<>> PROVE q[m] \in Names
  BY <1>1, <1>2, <1>3, <1>7
<1> QED
  BY <1>1, <1>2, <1>3, <1>4, <1>5, <1>6, <1>7

(* A path is a directory when an entry lists it as one.                    *)
LEMMA NodeIsDir ==
  ASSUME LInv, status = "ok", NEW q \in Nodes
  PROVE  IsDir(fat, disk, q) <=>
           q = <<>> \/ \E a \in EntryAddrs : ListedAt(q, a) /\ disk[a].attr = "dir"
<1>1. CASE q = <<>>
  BY <1>1, NodeTyped DEF IsDir
<1>2. CASE q # <<>>
  <2> DEFINE p == DirOf(q)
             n == q[Len(q)]
  <2>1. /\ Len(q) \in Nat \ {0} /\ p \in Paths /\ Len(p) = Len(q) - 1
        /\ \A k \in 1..(Len(q) - 1) : p[k] = q[k]
        /\ \A k \in 0..(Len(q) - 1) : Prefix(q, k) = Prefix(p, k)
    BY <1>2, NodeTyped, MfsAssumption
  <2>2. Prefix(q, Len(q) - 1) = p
    BY DEF DirOf
  <2>3. \A k \in 1..Len(q) : k # Len(q) => k \in 1..Len(p) /\ k \in 1..(Len(q) - 1)
                                          /\ k - 1 \in 0..(Len(q) - 1)
    BY <2>1
  <2>4. \A k \in 1..Len(p) : k \in 1..Len(q) /\ k # Len(q) /\ Len(q) \in 1..Len(q)
    BY <2>1
  <2>5. Len(q) \in 1..Len(q)
    BY <2>1
  <2> HIDE DEF p
  <2>6. IsDir(fat, disk, q) <=>
          /\ IsDir(fat, disk, p)
          /\ \E a \in Find(fat, disk, p, n) : disk[a].attr = "dir"
    <3>1. ASSUME IsDir(fat, disk, q)
          PROVE  IsDir(fat, disk, p) /\ \E a \in Find(fat, disk, p, n) : disk[a].attr = "dir"
      <4>1. \E a \in Find(fat, disk, Prefix(q, Len(q) - 1), q[Len(q)]) : disk[a].attr = "dir"
        BY <2>5, <3>1 DEF IsDir
      <4>2. ASSUME NEW k \in 1..Len(p)
            PROVE  \E a \in Find(fat, disk, Prefix(p, k - 1), p[k]) : disk[a].attr = "dir"
        <5>1. k \in 1..Len(q) /\ p[k] = q[k] /\ Prefix(q, k - 1) = Prefix(p, k - 1)
          BY <2>1, <2>3, <2>4
        <5>2. \E a \in Find(fat, disk, Prefix(q, k - 1), q[k]) : disk[a].attr = "dir"
          BY <3>1, <5>1 DEF IsDir
        <5> QED
          BY <5>1, <5>2
      <4> QED
        BY <2>2, <4>1, <4>2 DEF IsDir
    <3>2. ASSUME IsDir(fat, disk, p), \E a \in Find(fat, disk, p, n) : disk[a].attr = "dir",
                 NEW k \in 1..Len(q)
          PROVE  \E a \in Find(fat, disk, Prefix(q, k - 1), q[k]) : disk[a].attr = "dir"
      <4>1. CASE k = Len(q)
        BY <2>2, <3>2, <4>1
      <4>2. CASE k # Len(q)
        <5>1. k \in 1..Len(p) /\ p[k] = q[k] /\ Prefix(q, k - 1) = Prefix(p, k - 1)
          BY <2>1, <2>3, <4>2
        <5>2. \E a \in Find(fat, disk, Prefix(p, k - 1), p[k]) : disk[a].attr = "dir"
          BY <3>2, <5>1 DEF IsDir
        <5> QED
          BY <5>1, <5>2
      <4> QED
        BY <4>1, <4>2
    <3> QED
      BY <3>1, <3>2 DEF IsDir
  <2>7. ASSUME IsDir(fat, disk, p), NEW a
        PROVE  a \in Find(fat, disk, p, n) <=>
                 a \in Listed(get_cluster_number(fat, disk, p)) /\ disk[a].name = n
    <3>1. PICK d : d = get_cluster_number(fat, disk, p)
      OBVIOUS
    <3>2. d \in DirHeads
      BY <2>1, <2>7, <3>1, DirLeadsToHead
    <3> QED
      BY <3>1, <3>2, LookupIs DEF LookupsAgree, Find
  <2>8. \A d : Listed(d) \subseteq EntryAddrs
    BY DEF Listed
  <2> QED
    BY <1>2, <2>6, <2>7, <2>8 DEF ListedAt, p
<1> QED
  BY <1>1, <1>2

(* And a file when an entry lists it as one.                               *)
LEMMA NodeIsFile ==
  ASSUME LInv, status = "ok", NEW q \in Nodes
  PROVE  /\ FileAt(fat, disk, <<>>) = {}
         /\ q # <<>> => FileAt(fat, disk, q) =
                          {a \in EntryAddrs : ListedAt(q, a) /\ disk[a].attr = "file"}
<1>1. FileAt(fat, disk, <<>>) = {}
  BY DEF FileAt
<1>2. ASSUME q # <<>>
      PROVE  FileAt(fat, disk, q) =
               {a \in EntryAddrs : ListedAt(q, a) /\ disk[a].attr = "file"}
  <2> DEFINE p == DirOf(q)
  <2>1. p \in Paths /\ p = Prefix(q, Len(q) - 1)
    BY <1>2, NodeTyped DEF DirOf
  <2> HIDE DEF p
  <2>2. CASE ~IsDir(fat, disk, p)
    BY <2>1, <2>2 DEF FileAt, ListedAt, p
  <2>3. CASE IsDir(fat, disk, p)
    <3>1. PICK d : d = get_cluster_number(fat, disk, p)
      OBVIOUS
    <3>2. d \in DirHeads
      BY <2>1, <2>3, <3>1, DirLeadsToHead
    <3>3. FileAt(fat, disk, q) = get_dentry(fat, disk, d, q[Len(q)])
      BY <1>2, <2>1, <2>3, <3>1 DEF FileAt
    <3>4. \A a : a \in get_dentry(fat, disk, d, q[Len(q)]) <=>
                   a \in Listed(d) /\ disk[a].name = q[Len(q)] /\ disk[a].attr = "file"
      BY <3>2, LookupIs DEF LookupsAgree
    <3>5. Listed(d) \subseteq EntryAddrs
      BY DEF Listed
    <3> QED
      BY <2>3, <3>1, <3>3, <3>4, <3>5 DEF ListedAt, p
  <2> QED
    BY <2>2, <2>3
<1> QED
  BY <1>1, <1>2

(* A node leads to one entry at most, ...                                  *)
LEMMA OneEntry ==
  ASSUME LInv, status = "ok", NEW q \in Nodes \ {<<>>}, NEW a, NEW b,
         ListedAt(q, a), ListedAt(q, b)
  PROVE  a = b
<1>1. PICK d : d = get_cluster_number(fat, disk, DirOf(q))
  OBVIOUS
<1>2. d \in DirHeads
  BY <1>1, NodeTyped, DirLeadsToHead DEF ListedAt
<1>3. a \in Listed(d) /\ b \in Listed(d) /\ disk[a].name = disk[b].name
  BY <1>1 DEF ListedAt
<1>4. d # 0
  BY <1>3 DEF LInv, NInv, EntriesInUse, Listed, ClusterOf
<1> QED
  BY <1>2, <1>3, <1>4 DEF LInv, DirNamesUnique

(* ... an entry is listed in one directory only, ...                       *)
LEMMA OneDirectory ==
  ASSUME LInv, status = "ok", NEW d \in DirHeads, NEW e \in DirHeads,
         NEW a \in Listed(d), a \in Listed(e)
  PROVE  d = e /\ d # 0
<1>1. ChainsApart(fat, AllHeads) /\ AllHeads \in SUBSET Cluster /\ fat \in Table
  BY ApartNow DEF LInv, NInv, CInv
<1>2. d \in AllHeads /\ e \in AllHeads
  BY DirHeadsAreHeads
<1>3. ClusterOf(a) \in Chain(fat, d) /\ ClusterOf(a) \in Chain(fat, e)
  BY DEF Listed, ClusterOf
<1>4. d # 0
  BY DEF LInv, NInv, EntriesInUse, Listed, ClusterOf
<1> QED
  BY <1>1, <1>2, <1>3, <1>4, HeadsApart

(* What is above a directory is a directory.                               *)
LEMMA PrefixIsDir ==
  ASSUME NEW f, NEW dk, NEW p \in Paths, IsDir(f, dk, p), NEW k \in 0..Len(p)
  PROVE  Prefix(p, k) \in Paths /\ IsDir(f, dk, Prefix(p, k))
<1> DEFINE s == Prefix(p, k)
<1>1. p \in Seq(Names) /\ k \in Nat /\ k <= Len(p) /\ Len(p) \in Nat
  BY PathTyped
<1>2. s \in Paths /\ Len(s) = k /\ \A j \in 1..k : s[j] = p[j]
  BY PathTyped
<1>3. ASSUME NEW j \in 1..k PROVE Prefix(s, j - 1) = Prefix(p, j - 1)
  <2>1. s \in Seq(Names) /\ j - 1 \in Nat /\ j - 1 <= k
    BY <1>2, PathTyped
  <2> HIDE DEF s
  <2>2. Prefix(s, j - 1) = [i \in 1..(j - 1) |-> s[i]]
    BY <1>1, <1>2, <2>1 DEF Prefix
  <2>3. Prefix(p, j - 1) = [i \in 1..(j - 1) |-> p[i]]
    BY <1>1, <2>1 DEF Prefix
  <2> QED
    BY <1>1, <1>2, <2>1, <2>2, <2>3
<1> HIDE DEF s
<1>4. ASSUME NEW j \in 1..Len(s)
      PROVE  \E a \in Find(f, dk, Prefix(s, j - 1), s[j]) : dk[a].attr = "dir"
  <2>1. j \in 1..k /\ j \in 1..Len(p)
    BY <1>1, <1>2
  <2>2. \E a \in Find(f, dk, Prefix(p, j - 1), p[j]) : dk[a].attr = "dir"
    BY <2>1 DEF IsDir
  <2> QED
    BY <1>2, <1>3, <2>1, <2>2
<1> QED
  BY <1>2, <1>4 DEF IsDir, s

(* Two paths with the same parent and the same name are one.               *)
LEMMA SamePath ==
  ASSUME NEW S, NEW p \in Seq(S), NEW s \in Seq(S), NEW m \in Nat,
         Len(p) = m + 1, Len(s) = m + 1, Prefix(p, m) = Prefix(s, m), p[m + 1] = s[m + 1]
  PROVE  p = s
<1>1. Prefix(p, m) = [i \in 1..m |-> p[i]] /\ Prefix(s, m) = [i \in 1..m |-> s[i]]
  BY DEF Prefix
<1>2. \A i \in 1..m : p[i] = s[i]
  BY <1>1
<1>3. \A i \in 1..(m + 1) : p[i] = s[i]
  BY <1>2
<1> QED
  BY <1>3

(* ... and no two paths lead to one directory.                             *)
LEMMA OneWay ==
  ASSUME LInv, status = "ok"
  PROVE  \A m \in Nat : \A p, s \in Paths :
           /\ Len(p) = m /\ IsDir(fat, disk, p) /\ IsDir(fat, disk, s)
           /\ get_cluster_number(fat, disk, p) = get_cluster_number(fat, disk, s)
           /\ get_cluster_number(fat, disk, p) # 0
           => p = s
<1> DEFINE Same(m) == \A p, s \in Paths :
             /\ Len(p) = m /\ IsDir(fat, disk, p) /\ IsDir(fat, disk, s)
             /\ get_cluster_number(fat, disk, p) = get_cluster_number(fat, disk, s)
             /\ get_cluster_number(fat, disk, p) # 0
             => p = s
           T == {m \in Nat : Same(m)}
<1>1. ASSUME NEW p \in Paths, IsDir(fat, disk, p), Len(p) # 0
      PROVE  \E a \in EntryAddrs, e \in DirHeads :
               /\ e = get_cluster_number(fat, disk, Prefix(p, Len(p) - 1))
               /\ a \in Listed(e) /\ disk[a].name = p[Len(p)]
               /\ get_cluster_number(fat, disk, p) = disk[a].head
  <2>1. Len(p) \in Nat /\ Prefix(p, Len(p)) = p
    BY PathTyped
  <2>2. Len(p) \in 1..Len(p) /\ Len(p) - 1 \in 0..Len(p)
    BY <1>1, <2>1
  <2>3. PICK e : e = get_cluster_number(fat, disk, Prefix(p, Len(p) - 1))
    OBVIOUS
  <2>4. e \in DirHeads
    BY <1>1, <2>2, <2>3, DirLeadsToHead
  <2>5. PICK a \in EntryAddrs :
           /\ a \in FirstOnChain(fat, e, Named(disk, FileOrDir, p[Len(p)]))
           /\ get_cluster_number(fat, disk, p) = disk[a].head
    BY <1>1, <2>1, <2>2, <2>3, DirStep
  <2>6. a \in Listed(e) /\ disk[a].name = p[Len(p)]
    BY <2>4, <2>5, LookupIs DEF LookupsAgree, mfs_lookup
  <2> QED
    BY <2>3, <2>4, <2>5, <2>6
<1>2. ASSUME NEW p \in Paths, Len(p) = 0
      PROVE  get_cluster_number(fat, disk, p) = RootCluster /\ p = <<>>
  <2>1. p = Prefix(p, 0)
    BY <1>2, PathTyped
  <2>2. p = <<>>
    BY <1>2, PathTyped
  <2> QED
    BY <2>1, <2>2, PathStep
<1>3. \A a \in EntryAddrs : disk[a].head # RootCluster
  BY DEF LInv, NInv, CInv, OwnHeads
<1>4. ASSUME NEW p \in Paths, NEW s \in Paths, IsDir(fat, disk, p), IsDir(fat, disk, s),
             get_cluster_number(fat, disk, p) = get_cluster_number(fat, disk, s)
      PROVE  Len(p) = 0 <=> Len(s) = 0
  BY <1>1, <1>2, <1>3, <1>4
<1>5. 0 \in T
  BY <1>2, <1>4
<1>6. ASSUME NEW m \in Nat, m \in T PROVE m + 1 \in T
  <2> SUFFICES ASSUME NEW p \in Paths, NEW s \in Paths, Len(p) = m + 1,
                      IsDir(fat, disk, p), IsDir(fat, disk, s),
                      get_cluster_number(fat, disk, p) = get_cluster_number(fat, disk, s),
                      get_cluster_number(fat, disk, p) # 0
               PROVE  p = s
    OBVIOUS
  <2>1. Len(p) # 0 /\ Len(s) # 0
    BY <1>4
  <2>2. PICK a \in EntryAddrs, d \in DirHeads :
               /\ d = get_cluster_number(fat, disk, Prefix(p, Len(p) - 1))
               /\ a \in Listed(d) /\ disk[a].name = p[Len(p)]
               /\ get_cluster_number(fat, disk, p) = disk[a].head
    BY <1>1, <2>1
  <2>3. PICK b \in EntryAddrs, e \in DirHeads :
               /\ e = get_cluster_number(fat, disk, Prefix(s, Len(s) - 1))
               /\ b \in Listed(e) /\ disk[b].name = s[Len(s)]
               /\ get_cluster_number(fat, disk, s) = disk[b].head
    BY <1>1, <2>1
  <2>4. a = b
    BY <2>2, <2>3 DEF LInv, NInv, CInv, OwnHeads
  <2>5. d = e /\ d # 0
    BY <2>2, <2>3, <2>4, OneDirectory
  <2>6. /\ p \in Seq(Names) /\ s \in Seq(Names) /\ Len(s) \in Nat
        /\ Len(p) - 1 = m /\ m \in 0..Len(p) /\ Len(s) - 1 \in 0..Len(s)
    BY <2>1, PathTyped
  <2>7. /\ Prefix(p, m) \in Paths /\ IsDir(fat, disk, Prefix(p, m)) /\ Len(Prefix(p, m)) = m
        /\ Prefix(s, Len(s) - 1) \in Paths /\ IsDir(fat, disk, Prefix(s, Len(s) - 1))
        /\ Len(Prefix(s, Len(s) - 1)) = Len(s) - 1
    BY <2>6, PrefixIsDir, PathTyped
  <2>8. Prefix(p, m) = Prefix(s, Len(s) - 1)
    BY <1>6, <2>2, <2>3, <2>5, <2>6, <2>7
  <2>9. Len(s) = m + 1
    BY <2>6, <2>7, <2>8
  <2>10. p[m + 1] = s[m + 1] /\ Prefix(p, m) = Prefix(s, m)
    <3>1. (m + 1) - 1 = m
      OBVIOUS
    <3> QED
      BY <2>2, <2>3, <2>4, <2>8, <2>9, <3>1
  <2> QED
    BY <2>6, <2>9, <2>10, SamePath
<1> HIDE DEF Same
<1>7. \A m \in Nat : m \in T
  BY <1>5, <1>6, Induction
<1> QED
  BY <1>7 DEF Same

(* An entry is listed under one path only.                                 *)
LEMMA OnePath ==
  ASSUME LInv, status = "ok", NEW q \in Nodes \ {<<>>}, NEW r \in Nodes \ {<<>>}, NEW a,
         ListedAt(q, a), ListedAt(r, a)
  PROVE  q = r
<1> DEFINE p == DirOf(q)
           s == DirOf(r)
<1>1. p \in Paths /\ s \in Paths /\ IsDir(fat, disk, p) /\ IsDir(fat, disk, s)
  BY NodeTyped DEF ListedAt
<1>2. PICK d, e : d = get_cluster_number(fat, disk, p) /\ e = get_cluster_number(fat, disk, s)
  OBVIOUS
<1>3. d \in DirHeads /\ e \in DirHeads
  BY <1>1, <1>2, DirLeadsToHead
<1>4. a \in Listed(d) /\ a \in Listed(e) /\ disk[a].name = q[Len(q)] /\ disk[a].name = r[Len(r)]
  BY <1>2 DEF ListedAt
<1>5. d = e /\ d # 0
  BY <1>3, <1>4, OneDirectory
<1>6. Len(p) \in Nat
  BY <1>1, PathTyped
<1>7. p = s
  BY <1>1, <1>2, <1>5, <1>6, OneWay
<1>8. Len(p) = Len(q) - 1 /\ Len(s) = Len(r) - 1 /\ Len(q) \in Nat \ {0} /\ Len(r) \in Nat \ {0}
  BY NodeTyped, MfsAssumption
<1>9. q \in Seq(Names) /\ r \in Seq(Names)
  BY DEF Nodes
<1> DEFINE m == Len(q) - 1
<1>10. m \in Nat /\ Len(q) = m + 1 /\ Len(r) = m + 1 /\ q[m + 1] = r[m + 1]
  <2> HIDE DEF p, s
  <2>1. Len(q) = Len(r) /\ m \in Nat /\ Len(q) = m + 1
    BY <1>7, <1>8
  <2>2. q[Len(q)] = r[Len(r)]
    BY <1>4
  <2> HIDE DEF m
  <2> QED
    BY <2>1, <2>2
<1>11. Prefix(q, m) = Prefix(r, m)
  <2>1. Prefix(q, m) = p /\ Prefix(r, Len(r) - 1) = s
    BY DEF DirOf
  <2>2. Len(r) - 1 = m
    BY <1>10
  <2> QED
    BY <1>7, <2>1, <2>2
<1> HIDE DEF m
<1> QED
  BY <1>9, <1>10, <1>11, SamePath

(* The three facts, and what DirsFound and FileAt find.                    *)
Below == Nodes \ {<<>>}
Entries(q, attr) == {a \in EntryAddrs : ListedAt(q, a) /\ disk[a].attr = attr}
TreeShape ==
  /\ \A q \in Nodes : IsDir(fat, disk, q) <=> q = <<>> \/ Entries(q, "dir") # {}
  /\ \A q \in Below : FileAt(fat, disk, q) = Entries(q, "file")
  /\ FileAt(fat, disk, <<>>) = {}
  /\ \A q \in Below : \A a, b : ListedAt(q, a) /\ ListedAt(q, b) => a = b
  /\ \A q, r \in Below : \A a : ListedAt(q, a) /\ ListedAt(r, a) => q = r

(* The directories and files of a volume are a tree.                       *)
LEMMA TreeShaped == LInv /\ status = "ok" => TreeShape
<1> SUFFICES ASSUME LInv, status = "ok" PROVE TreeShape
  OBVIOUS
<1>1. ASSUME NEW q \in Nodes
      PROVE  /\ IsDir(fat, disk, q) <=> q = <<>> \/ Entries(q, "dir") # {}
             /\ q \in Below => FileAt(fat, disk, q) = Entries(q, "file")
             /\ FileAt(fat, disk, <<>>) = {}
  BY NodeIsDir, NodeIsFile DEF Entries, Below
<1>2. <<>> \in Nodes
  <2>1. <<>> \in [1..0 -> Names] /\ 0 \in 0..(MaxDepth + 1)
    BY MfsAssumption
  <2> QED
    BY <2>1 DEF Nodes
<1> QED
  BY <1>1, <1>2, OneEntry, OnePath DEF TreeShape, Below

(* The node of a path and one more name.                                   *)
LEMMA NodeOf ==
  ASSUME NEW p \in Paths, NEW n \in Names
  PROVE  /\ Append(p, n) \in Below /\ DirOf(Append(p, n)) = p
         /\ Append(p, n)[Len(Append(p, n))] = n
         /\ p \in Nodes
<1> DEFINE q == Append(p, n)
<1>1. p \in Seq(Names) /\ Len(p) \in 0..MaxDepth /\ Len(p) \in Nat
  BY PathTyped
<1>2. q \in Seq(Names) /\ Len(q) = Len(p) + 1 /\ q[Len(p) + 1] = n
      /\ \A k \in 1..Len(p) : q[k] = p[k]
  BY <1>1
<1> HIDE DEF q
<1>3. q \in [1..(Len(p) + 1) -> Names] /\ p \in [1..Len(p) -> Names]
  BY <1>1, <1>2
<1>4. Len(p) + 1 \in 0..(MaxDepth + 1) /\ Len(p) \in 0..(MaxDepth + 1)
  BY <1>1, MfsAssumption
<1>5. q \in Nodes /\ p \in Nodes
  BY <1>3, <1>4 DEF Nodes
<1>6. q # <<>>
  BY <1>1, <1>2
<1>7. DirOf(q) = p
  <2>1. Len(q) - 1 = Len(p)
    BY <1>1, <1>2
  <2>2. DirOf(q) = [k \in 1..Len(p) |-> q[k]]
    BY <1>1, <1>2, <2>1 DEF DirOf, Prefix
  <2> QED
    BY <1>1, <1>2, <2>2
<1> QED
  BY <1>2, <1>5, <1>6, <1>7 DEF q, Below

(* A step that keeps the tree leaves every entry at its node and at no     *)
(* other.                                                                  *)
LEMMA SameTree ==
  ASSUME AInv, LInv', status = "ok", status' = "ok", KeepsTree, SearchesStay,
         NEW a \in EntryAddrs, NEW q \in Below
  PROVE  ListedAt(q, a)' <=> ListedAt(q, a)
<1>1. NInv /\ OwnedAt(a) /\ disk'[a].name = disk[a].name
  BY DEF AInv, FInv, EntryOwned, KeepsTree
<1>2. TreeShape'
  <2>1. (LInv /\ status = "ok")'
    OBVIOUS
  <2> QED
    BY <2>1, TreeShaped, PTL
<1>3. ASSUME NEW r \in Below, ListedAt(r, a) PROVE ListedAt(r, a)'
  <2> DEFINE p == DirOf(r)
  <2>1. p \in Paths /\ IsDir(fat, disk, p)
    BY <1>3, NodeTyped DEF ListedAt, Below
  <2>2. PICK d : d = get_cluster_number(fat, disk, p)
    OBVIOUS
  <2>3. d \in DirHeads /\ a \in Listed(d)
    BY <1>3, <2>1, <2>2, DirLeadsToHead DEF ListedAt
  <2>4. a \in Listed(d)'
    BY <2>3 DEF KeepsTree
  <2>5. IsDir(fat', disk', p) /\ get_cluster_number(fat', disk', p) = d
    BY <1>1, <2>1, <2>2, TreeKept
  <2> QED
    BY <1>1, <1>3, <2>4, <2>5 DEF ListedAt, Listed
<1>4. ASSUME ListedAt(q, a)' PROVE ListedAt(q, a)
  <2>1. PICK p \in Paths : IsDir(fat, disk, p) /\ a \in Listed(get_cluster_number(fat, disk, p))
    BY <1>1 DEF OwnedAt
  <2>0. PICK r : r = Append(p, disk[a].name)
    OBVIOUS
  <2>2. disk[a].name \in Names
    BY EntryTyped DEF AInv, FInv, LInv, NInv, CInv, IInv
  <2>3. r \in Below /\ ListedAt(r, a)
    BY <2>0, <2>1, <2>2, NodeOf DEF ListedAt
  <2>4. ListedAt(r, a)'
    BY <1>3, <2>3
  <2>5. q = r
    BY <1>2, <1>4, <2>3, <2>4 DEF TreeShape, Below
  <2> QED
    BY <2>3, <2>5
<1> QED
  BY <1>3, <1>4

-----------------------------------------------------------------------------
(* What a client reads: slot k of a file's content is the slot of position *)
(* k on its chain.                                                         *)
OnChain(h, k) ==
  LET c == Walk(fat, h)[k \div CS] IN
  /\ k \div CS \in 0..MaxIndex /\ c \in Index /\ c \in Chain(fat, h)
  /\ SlotAt(fat, h, k) \in Addr /\ ClusterOf(SlotAt(fat, h, k)) = c

FilesRead ==
  \A a \in EntryAddrs :
    disk[a].attr = "file" =>
      /\ \A k \in 0..(disk[a].size - 1) : OnChain(disk[a].head, k)
      /\ Content(fat, disk, disk[a]) =
           [i \in 1..disk[a].size |-> disk[SlotAt(fat, disk[a].head, i - 1)]]

(* read_file returns the slots of the file's chain, in order, up to the    *)
(* size in the entry.                                                      *)
LEMMA FilesAreRead == AInv /\ status = "ok" => FilesRead
<1> SUFFICES ASSUME AInv, status = "ok", NEW a \in EntryAddrs, disk[a].attr = "file"
             PROVE  /\ \A k \in 0..(disk[a].size - 1) : OnChain(disk[a].head, k)
                    /\ Content(fat, disk, disk[a]) =
                         [i \in 1..disk[a].size |-> disk[SlotAt(fat, disk[a].head, i - 1)]]
  BY DEF FilesRead
<1> DEFINE h == disk[a].head
           s == disk[a].size
           w == Walk(fat, h)
           e == Cardinality(Chain(fat, h))
<1>1. ChainsApart(fat, AllHeads) /\ AllHeads \in SUBSET Cluster /\ fat \in Table /\ TypeOK
  BY ApartNow DEF AInv, FInv, LInv, NInv, CInv, IInv
<1>2. h \in AllHeads /\ s \in Nat /\ h \in Cluster
  BY <1>1, EntryTyped DEF AllHeads, Heads
<1>3. Room(a) /\ ZeroIsEmpty
  BY DEF AInv, FilesHaveRoom
<1>4. /\ e \in 1..MaxIndex
      /\ \A k \in 0..MaxIndex : w[k] # EndMark <=> k < e
  BY <1>1, <1>2, ChainCount
<1>5. ASSUME NEW k \in 0..(s - 1)
      PROVE  OnChain(h, k)
  <2>1. k \in Nat /\ k < s
    BY <1>2
  <2>2. k \div CS \in Nat /\ k % CS \in 0..(CS - 1) /\ k = CS * (k \div CS) + (k % CS)
    BY <2>1, DivMod
  <2> DEFINE j == k \div CS
             r == k % CS
  <2>3. s <= e * CS
    BY <1>3 DEF Room
  <2>4. j < e
    <3> SUFFICES ASSUME j >= e PROVE FALSE
      BY <1>4, <2>2
    <3> HIDE DEF j, r, e, s
    <3>1. CS * j >= e * CS
      BY <1>4, <2>2, MfsAssumption DEF j, r
    <3> QED
      BY <1>2, <1>4, <2>1, <2>2, <2>3, <3>1, MfsAssumption DEF j, r
  <2>5. j \in 0..MaxIndex /\ w[j] # EndMark
    <3>1. j \in 0..MaxIndex
      <4>1. j \in Nat
        BY <2>2
      <4> HIDE DEF j, e
      <4> QED
        BY <1>4, <2>4, <4>1, FatAssumption
    <3> QED
      BY <1>4, <2>4, <3>1
  <2>6. w[j] \in Chain(fat, h)
    BY <2>5 DEF Chain
  <2>7. w[j] \in Index
    <3>1. h # 0
      <4>1. s # 0
        BY <1>2, <2>1
      <4> QED
        BY <1>3, <4>1 DEF ZeroIsEmpty
    <3>2. w[j] # h => w[j] \in Index
      BY <1>1, <1>2, <2>6, ChainInUse
    <3> QED
      BY <1>2, <3>1, <3>2 DEF Cluster
  <2>8. SlotAt(fat, h, k) \in Addr /\ ClusterOf(SlotAt(fat, h, k)) = w[j]
    BY <2>2, <2>7, SlotOfCluster DEF SlotAt, ClusterOf
  <2> QED
    BY <2>5, <2>6, <2>7, <2>8 DEF OnChain
<1>6. ASSUME NEW i \in 1..s
      PROVE  read_file(fat, disk, disk[a], i - 1, 1)[1] = disk[SlotAt(fat, h, i - 1)]
  <2>1. i - 1 \in 0..(s - 1) /\ i - 1 \in Nat /\ i - 1 < s
    BY <1>2
  <2>2. OnChain(h, i - 1)
    BY <1>5, <2>1
  <2> DEFINE de == disk[a]
  <2>3. de.size = s /\ de.head = h
    OBVIOUS
  <2> HIDE DEF de, s, h, w
  <2>4. (i - 1) \div CS \in 0..MaxIndex /\ Walk(fat, de.head)[(i - 1) \div CS] \in Index
    BY <2>2, <2>3 DEF OnChain
  <2>5. read_file(fat, disk, de, i - 1, 1)[1] = disk[SlotAt(fat, de.head, i - 1)]
    BY <1>2, <2>1, <2>3, <2>4, ReadOneSlot
  <2> QED
    BY <2>3, <2>5 DEF de
<1>7. Content(fat, disk, disk[a]) = [i \in 1..s |-> disk[SlotAt(fat, h, i - 1)]]
  BY <1>6 DEF Content
<1> QED
  BY <1>5, <1>7

-----------------------------------------------------------------------------
(* The content a client sees of the file whose entry is a, and where the   *)
(* function FilesFound is defined.                                         *)
View(a) == [i \in 1..disk[a].size |-> Value(disk[SlotAt(fat, disk[a].head, i - 1)])]
FilesShape ==
  LET found == FilesFound(fat, disk, status) IN
  /\ \A q : q \in DOMAIN found <=> q \in Below /\ Entries(q, "file") # {}
  /\ \A q \in Below : \A a \in Entries(q, "file") : found[q] = View(a)
  /\ found = [q \in DOMAIN found |-> found[q]]

(* And these are content, never an entry or blank.                         *)
LEMMA FilesShaped == AInv /\ status = "ok" => FilesShape
<1> SUFFICES ASSUME AInv, status = "ok" PROVE FilesShape
  OBVIOUS
<1>1. TreeShape /\ FilesRead
  BY TreeShaped, FilesAreRead DEF AInv, FInv, LInv
<1> DEFINE D == {r \in Nodes : status = "ok" /\ FileAt(fat, disk, r) # {}}
           Found(q) == CHOOSE a \in FileAt(fat, disk, q) : TRUE
           V(q) == LET c == Content(fat, disk, disk[Found(q)])
                   IN  [i \in DOMAIN c |-> Value(c[i])]
           found == FilesFound(fat, disk, status)
<1>2. found = [q \in D |-> V(q)]
  BY DEF FilesFound
<1>3. \A q : q \in D <=> q \in Below /\ Entries(q, "file") # {}
  BY <1>1 DEF TreeShape, Below
<1>4. ASSUME NEW q \in Below, NEW a \in Entries(q, "file") PROVE V(q) = View(a)
  <2>1. FileAt(fat, disk, q) = Entries(q, "file")
    BY <1>1 DEF TreeShape
  <2>2. \A b \in Entries(q, "file") : b = a
    BY <1>1 DEF TreeShape, Entries
  <2>3. Found(q) = a
    BY <2>1, <2>2
  <2> HIDE DEF Found
  <2>4. a \in EntryAddrs /\ disk[a].attr = "file"
    BY DEF Entries
  <2>5. Content(fat, disk, disk[a]) =
           [i \in 1..disk[a].size |-> disk[SlotAt(fat, disk[a].head, i - 1)]]
    BY <1>1, <2>4 DEF FilesRead
  <2> DEFINE c == Content(fat, disk, disk[a])
  <2>6. DOMAIN c = 1..disk[a].size
        /\ \A i \in 1..disk[a].size : c[i] = disk[SlotAt(fat, disk[a].head, i - 1)]
    BY <2>5
  <2> HIDE DEF c
  <2>7. [i \in DOMAIN c |-> Value(c[i])] = View(a)
    BY <2>6 DEF View
  <2>8. V(q) = [i \in DOMAIN c |-> Value(c[i])]
    BY <2>3 DEF c
  <2> QED
    BY <2>7, <2>8
<1> HIDE DEF V, D
<1>5. \A q \in Below : \A a \in Entries(q, "file") : found[q] = View(a)
  BY <1>2, <1>3, <1>4
<1>6. DOMAIN found = D /\ found = [q \in DOMAIN found |-> found[q]]
  BY <1>2
<1> QED
  BY <1>3, <1>5, <1>6 DEF FilesShape

(* A step that changes neither the entry of a file nor a slot of its chain *)
(* leaves its content as it was.                                           *)
LEMMA ViewKept ==
  ASSUME AInv, status = "ok", NEW a \in EntryAddrs, disk[a].attr = "file",
         disk'[a] = disk[a],
         disk[a].head # 0 => KeepsWalk(fat, fat', disk[a].head),
         \A x \in Addr : ClusterOf(x) \in Chain(fat, disk[a].head) => disk'[x] = disk[x]
  PROVE  View(a)' = View(a)
<1> DEFINE h == disk[a].head
           s == disk[a].size
<1>1. FilesRead /\ ZeroIsEmpty /\ s \in Nat
  BY FilesAreRead, EntryTyped DEF AInv, FInv, LInv, NInv, CInv, IInv
<1>2. View(a)' = [i \in 1..s |-> Value(disk'[SlotAt(fat', h, i - 1)])]
  BY DEF View
<1>3. ASSUME NEW i \in 1..s
      PROVE  disk'[SlotAt(fat', h, i - 1)] = disk[SlotAt(fat, h, i - 1)]
  <2>1. i - 1 \in 0..(s - 1) /\ s # 0
    BY <1>1
  <2>2. KeepsWalk(fat, fat', h)
    BY <1>1, <2>1 DEF ZeroIsEmpty
  <2>3. OnChain(h, i - 1)
    BY <1>1, <2>1 DEF FilesRead
  <2> HIDE DEF h, s
  <2>4. Walk(fat', h)[(i - 1) \div CS] = Walk(fat, h)[(i - 1) \div CS]
    BY <2>2, <2>3, NotAnIndex DEF OnChain, KeepsWalk
  <2>5. SlotAt(fat', h, i - 1) = SlotAt(fat, h, i - 1)
    BY <2>4 DEF SlotAt
  <2>6. SlotAt(fat, h, i - 1) \in Addr /\ ClusterOf(SlotAt(fat, h, i - 1)) \in Chain(fat, h)
    BY <2>3 DEF OnChain
  <2> QED
    BY <2>5, <2>6 DEF h
<1> HIDE DEF h, s
<1>4. [i \in 1..s |-> Value(disk'[SlotAt(fat', h, i - 1)])] =
        [i \in 1..s |-> Value(disk[SlotAt(fat, h, i - 1)])]
  BY <1>3
<1> QED
  BY <1>2, <1>4 DEF View, h, s

-----------------------------------------------------------------------------
(* Making a file or directory adds node r to the tree and changes no other *)
(* node, nor what a file holds.                                            *)
NewNode(r, attr, x) ==
  /\ x \notin EntryAddrs /\ EntryAddrs' = EntryAddrs \cup {x}
  /\ disk'[x].attr = attr /\ disk'[x].size = 0
  /\ \A a \in EntryAddrs : disk'[a] = disk[a]
  /\ \A q \in Below : \A a \in EntryAddrs : ListedAt(q, a)' <=> ListedAt(q, a)
  /\ \A q \in Below : ListedAt(q, x)' <=> q = r
  /\ \A a \in EntryAddrs : disk[a].attr = "file" => View(a)' = View(a)
  /\ \A a \in EntryAddrs : ~ListedAt(r, a)

(* mfs_create and mfs_mkdir add one node to what a lookup finds, and leave *)
(* the others.                                                             *)
LEMMA MakeNodes ==
  ASSUME AInv, AInv', status = "ok", status' = "ok", NEW p \in Paths, NEW n \in Names,
         NEW attr \in FileOrDir, IsDir(fat, disk, p), Absent(p, n),
         Make(p, n, attr)
  PROVE  \E x \in Addr : NewNode(Append(p, n), attr, x)
<1> DEFINE r == Append(p, n)
<1>0. PICK d : d = get_cluster_number(fat, disk, p)
  OBVIOUS
<1>1. /\ d \in DirHeads /\ d \in AllHeads /\ LInv /\ LInv' /\ NInv /\ NInv' /\ CInv' /\ FilesHoldNoEntry'
      /\ IInv /\ TypeOK /\ ZeroIsEmpty
  BY <1>0, DirLeadsToHead, DirHeadsAreHeads DEF AInv, FInv, LInv, NInv, CInv, IInv
<1>2. PICK head \in find_empty_fat_index(fat), x \in Addr :
        d # 0 /\ MadeAt(d, n, attr, head, x)
  BY <1>0, <1>1, MakeEffects
<1>3. /\ x \notin EntryAddrs /\ EntryAddrs' = EntryAddrs \cup {x}
      /\ disk'[x].attr = attr /\ disk'[x].name = n /\ disk'[x].size = 0
      /\ \A a \in EntryAddrs : disk'[a] = disk[a]
  BY <1>1, <1>2, MadeEntries
<1>4. x \in Listed(d)'
  BY <1>1, <1>2, MadeListed
<1>5. KeepsTree /\ SearchesStay
  BY <1>1, <1>2, MadeTree
<1>6. \A q \in Below : \A a \in EntryAddrs : ListedAt(q, a)' <=> ListedAt(q, a)
  BY <1>1, <1>5, SameTree
<1>7. r \in Below /\ DirOf(r) = p /\ r[Len(r)] = n
  BY NodeOf
<1> HIDE DEF r
<1>8. TreeShape'
  <2>1. (LInv /\ status = "ok")'
    BY <1>1
  <2> QED
    BY <2>1, TreeShaped, PTL
<1>9. ListedAt(r, x)'
  <2>1. IsDir(fat', disk', p) /\ get_cluster_number(fat', disk', p) = d
    BY <1>0, <1>1, <1>5, TreeKept
  <2> QED
    BY <1>3, <1>4, <1>7, <2>1 DEF ListedAt, Listed
<1>10. \A q \in Below : ListedAt(q, x)' <=> q = r
  BY <1>7, <1>8, <1>9 DEF TreeShape
<1>11. ASSUME NEW a \in EntryAddrs, ListedAt(r, a) PROVE FALSE
  <2>1. a \in Listed(d) /\ disk[a].name = n
    BY <1>0, <1>7, <1>11 DEF ListedAt
  <2>2. a \in mfs_lookup(fat, disk, d, n)
    BY <1>1, <2>1, LookupIs DEF LookupsAgree
  <2> QED
    BY <1>0, <2>2 DEF Absent, Find
<1>12. ASSUME NEW a \in EntryAddrs, disk[a].attr = "file" PROVE View(a)' = View(a)
  <2> DEFINE h == disk[a].head
  <2>1. h \in AllHeads /\ h \in Cluster /\ disk'[a] = disk[a] /\ fat \in Table
    BY <1>1, <1>3, EntryTyped DEF AllHeads, Heads, TypeOK
  <2>2. h # 0 => KeepsWalk(fat, fat', h)
    BY <1>2, <2>1 DEF MadeAt
  <2>3. ClusterOf(x) \notin Chain(fat, h)
    <3>1. CASE h = 0
      <4>1. Chain(fat, 0) \subseteq {0}
        BY <1>1, <2>1, ZeroAlone DEF ZeroIsEmpty
      <4> QED
        BY <1>2, <3>1, <4>1, NotAnIndex DEF MadeAt
    <3>2. CASE h # 0
      <4>1. ClusterOf(x) \notin Chain(fat', h)
        BY <1>1, <1>3, <1>12, <2>1 DEF FilesHoldNoEntry
      <4>2. Chain(fat, h) \subseteq Chain(fat', h)
        BY <2>2, <3>2 DEF KeepsWalk, Chain
      <4> QED
        BY <4>1, <4>2
    <3> QED
      BY <3>1, <3>2
  <2>4. \A y \in Addr : ClusterOf(y) \in Chain(fat, h) => disk'[y] = disk[y]
    <3>1. disk \in [Addr -> Slot] /\ disk' = [disk EXCEPT ![x] = Dirent(attr, n, head, 0)]
      BY <1>1, <1>2 DEF TypeOK, MadeAt
    <3>2. \A y \in Addr : y # x => disk'[y] = disk[y]
      BY <3>1
    <3> QED
      BY <2>3, <3>2
  <2> QED
    BY <1>12, <2>1, <2>2, <2>4, ViewKept
<1> QED
  BY <1>2, <1>3, <1>6, <1>10, <1>11, <1>12 DEF NewNode, r

-----------------------------------------------------------------------------
(* The variables of the view are what is found on the volume.              *)
Seen == dirs = DirsFound(fat, disk, status) /\ files = FilesFound(fat, disk, status)

(* The paths and buffers of the abstract store are those of the volume.    *)
LEMMA NodesOf ==
  /\ Nodes = Promised!Node \cup {<<>>} /\ Below \subseteq Promised!Node
  /\ Buffers = Promised!Buffer
<1>1. Buffers = Promised!Buffer
  BY DEF Buffers, Promised!Buffer
<1>2. \A k : k \in 0..(MaxDepth + 1) <=> k = 0 \/ k \in 1..(MaxDepth + 1)
  BY MfsAssumption
<1>3. ASSUME NEW q PROVE q \in [1..0 -> Names] <=> q = <<>>
  <2>1. ASSUME q \in [1..0 -> Names] PROVE q = <<>>
    <3>1. 0 \in Nat /\ q \in Seq(Names) /\ Len(q) = 0
      BY <2>1
    <3> QED
      BY <3>1
  <2>2. <<>> \in [1..0 -> Names]
    OBVIOUS
  <2> QED
    BY <2>1, <2>2
<1>4. ASSUME NEW q PROVE q \in Nodes <=> q \in Promised!Node \/ q = <<>>
  BY <1>2, <1>3 DEF Nodes, Promised!Node
<1> QED
  BY <1>1, <1>4 DEF Below

(* They are a step of the abstract store.                                  *)
LEMMA MakeIsPromised ==
  ASSUME AInv, AInv', Seen, Seen', status = "ok", status' = "ok",
         NEW p \in Paths, NEW n \in Names, NEW attr \in FileOrDir,
         IsDir(fat, disk, p), Absent(p, n), Make(p, n, attr)
  PROVE  IF attr = "dir" THEN Promised!Mkdir(Append(p, n)) ELSE Promised!Create(Append(p, n))
<1> DEFINE r == Append(p, n)
<1>1. PICK x \in Addr : NewNode(r, attr, x)
  BY MakeNodes
<1>2. r \in Below /\ DirOf(r) = p /\ p \in Nodes
  BY NodeOf
<1> HIDE DEF r
<1>3. TreeShape /\ TreeShape' /\ FilesShape /\ FilesShape'
  <2>1. (AInv /\ status = "ok")'
    OBVIOUS
  <2>2. (LInv /\ status = "ok")'
    BY DEF AInv, FInv, LInv
  <2>3. TreeShape' /\ FilesShape'
    BY <2>1, <2>2, TreeShaped, FilesShaped, PTL
  <2>4. TreeShape /\ FilesShape
    BY TreeShaped, FilesShaped DEF AInv, FInv, LInv
  <2> QED
    BY <2>3, <2>4
<1>4. ASSUME NEW q \in Below, NEW t
      PROVE  Entries(q, t)' = Entries(q, t) \cup {y \in {x} : q = r /\ t = attr}
  BY <1>1 DEF NewNode, Entries
<1>5. Entries(r, "dir") = {} /\ Entries(r, "file") = {}
  BY <1>1 DEF NewNode, Entries
<1>6. /\ \A q : q \in dirs <=> q \in Nodes /\ (q = <<>> \/ Entries(q, "dir") # {})
      /\ \A q : q \in dirs' <=> q \in Nodes /\ (q = <<>> \/ Entries(q, "dir")' # {})
  BY <1>3 DEF Seen, DirsFound, TreeShape
<1>7. /\ \A q : q \in DOMAIN files <=> q \in Below /\ Entries(q, "file") # {}
      /\ \A q \in Below : \A a \in Entries(q, "file") : files[q] = View(a)
      /\ files = [q \in DOMAIN files |-> files[q]]
  BY <1>3 DEF Seen, FilesShape
<1>8. /\ \A q : q \in DOMAIN files' <=> q \in Below /\ Entries(q, "file")' # {}
      /\ \A q \in Below : \A a \in Entries(q, "file")' : files'[q] = View(a)'
      /\ files' = [q \in DOMAIN files' |-> files'[q]]
  BY <1>3 DEF Seen, FilesShape
<1>9. \A q \in DOMAIN files : q \in DOMAIN files' /\ files'[q] = files[q]
  <2> SUFFICES ASSUME NEW q \in DOMAIN files
               PROVE  q \in DOMAIN files' /\ files'[q] = files[q]
    OBVIOUS
  <2>1. PICK a \in Entries(q, "file") : q \in Below
    BY <1>7
  <2>2. a \in Entries(q, "file")' /\ a \in EntryAddrs /\ disk[a].attr = "file"
    BY <1>4, <2>1 DEF Entries
  <2>3. View(a)' = View(a)
    BY <1>1, <2>2 DEF NewNode
  <2> QED
    BY <1>7, <1>8, <2>1, <2>2, <2>3
<1>10. Promised!Absent(r)
  <2>1. SubSeq(r, 1, Len(r) - 1) = p /\ p \in dirs
    BY <1>2, <1>3, <1>6 DEF DirOf, Prefix, TreeShape
  <2>2. r \notin dirs /\ r \notin DOMAIN files
    BY <1>2, <1>5, <1>6, <1>7 DEF Below
  <2> QED
    BY <2>1, <2>2 DEF Promised!Absent
<1>11. (status = "wrecked")' = (status = "wrecked")
  OBVIOUS
<1>12. CASE attr = "dir"
  <2>1. dirs' = dirs \cup {r}
    BY <1>2, <1>4, <1>6, <1>12 DEF Below
  <2>2. \A q : q \in DOMAIN files' <=> q \in DOMAIN files
    BY <1>4, <1>7, <1>8, <1>12
  <2>3. files' = files
    BY <1>7, <1>8, <1>9, <2>2
  <2> QED
    BY <1>10, <1>11, <1>12, <2>1, <2>3 DEF Promised!Mkdir, r
<1>13. CASE attr = "file"
  <2>1. dirs' = dirs
    <3>1. \A q : q \in dirs' <=> q \in dirs
      BY <1>2, <1>4, <1>6, <1>13 DEF Below
    <3>2. dirs' = {q \in Nodes : q \in dirs'} /\ dirs = {q \in Nodes : q \in dirs}
      BY <1>3 DEF Seen, DirsFound
    <3> QED
      BY <3>1, <3>2
  <2>2. \A q : q \in DOMAIN files' <=> q \in DOMAIN files \cup {r}
    BY <1>2, <1>4, <1>7, <1>8, <1>13
  <2>3. files'[r] = <<>>
    <3>1. x \in Entries(r, "file")' /\ disk'[x].size = 0
      BY <1>1, <1>2, <1>4, <1>13 DEF NewNode
    <3>2. View(x)' = [i \in 1..0 |-> Value(disk'[SlotAt(fat', disk'[x].head, i - 1)])]
      BY <3>1 DEF View
    <3>3. View(x)' = <<>>
      BY <3>2
    <3> QED
      BY <1>2, <1>8, <3>1, <3>3
  <2>4. r \notin DOMAIN files
    BY <1>5, <1>7
  <2>5. files' = [q \in DOMAIN files \cup {r} |-> IF q = r THEN <<>> ELSE files[q]]
    <3>1. \A q \in DOMAIN files' : files'[q] = IF q = r THEN <<>> ELSE files[q]
      BY <1>9, <2>2, <2>3
    <3>2. DOMAIN files' = DOMAIN files \cup {r}
      BY <2>2
    <3> QED
      BY <1>8, <3>1, <3>2
  <2> QED
    BY <1>10, <1>11, <1>13, <2>1, <2>5 DEF Promised!Create, r
<1> QED
  BY <1>12, <1>13 DEF FileOrDir, r

-----------------------------------------------------------------------------
(* A sequence, and the first m elements of another one after it.           *)
Joined(u, v, m) ==
  [i \in 1..(Len(u) + m) |-> IF i <= Len(u) THEN u[i] ELSE v[i - Len(u)]]

(* A sequence that is extended by the beginning of another, place by       *)
(* place.                                                                  *)
LEMMA GoesOn ==
  ASSUME NEW S, NEW u \in Seq(S), NEW v \in Seq(S), NEW m \in 0..Len(v)
  PROVE  u \o SubSeq(v, 1, m) = Joined(u, v, m)
<1> DEFINE z == SubSeq(v, 1, m)
           y == u \o z
           k == Len(u)
           w == [i \in 1..(k + m) |-> IF i <= k THEN u[i] ELSE v[i - k]]
<1>1. z \in Seq(S) /\ Len(z) = m /\ \A j \in 1..m : z[j] = v[j]
  OBVIOUS
<1> HIDE DEF z
<1>2. /\ y \in Seq(S) /\ Len(y) = k + m
      /\ \A i \in 1..(k + m) : y[i] = IF i <= k THEN u[i] ELSE z[i - k]
  BY <1>1, ConcatProperties
<1>3. k \in Nat /\ m \in Nat
  OBVIOUS
<1> HIDE DEF y, k
<1>4. ASSUME NEW i \in 1..(k + m) PROVE y[i] = w[i]
  <2>1. CASE i <= k
    BY <1>2, <1>3, <2>1
  <2>2. CASE i > k
    <3>1. i - k \in 1..m
      BY <1>3, <2>2
    <3>2. z[i - k] = v[i - k]
      BY <1>1, <3>1
    <3>3. y[i] = z[i - k]
      BY <1>2, <1>3, <2>2
    <3> QED
      BY <1>3, <2>2, <3>2, <3>3
  <2> QED
    BY <1>3, <2>1, <2>2
<1>5. y = [i \in 1..(k + m) |-> y[i]]
  BY <1>2, <1>3
<1>6. y = w
  BY <1>4, <1>5
<1> QED
  BY <1>6 DEF y, z, k, Joined

(* A write at the end of the file whose entry is b: the slots that the     *)
(* file had are what they were, those behind them hold what was stored.    *)
SlotsAdded(b, by, buf) ==
  LET h == disk[b].head
      s == disk[b].size
  IN  /\ disk'[b].head = h /\ disk'[b].size = s + by
      /\ s \in Nat /\ by \in Nat \ {0} /\ by <= Len(buf)
      /\ \A i \in 1..s : disk'[SlotAt(fat', h, i - 1)] = disk[SlotAt(fat, h, i - 1)]
      /\ \A j \in 1..by : disk'[SlotAt(fat', h, s + j - 1)] = Datum(buf[j])

(* A write at the end adds slots.                                          *)
LEMMA SlotsExtended ==
  ASSUME AInv, CInv', status = "ok", status' = "ok", NEW b, NEW c, NEW buf \in Buffers,
         AppendedAt(b, c, buf)
  PROVE  SlotsAdded(b, valid_len(Len(buf), disk[b].size % CS), buf)
<1> DEFINE h == disk[b].head
           s == disk[b].size
           q == s \div CS
           co == s % CS
           len == valid_len(Len(buf), co)
           g == fat'
<1>1. /\ b \in EntryAddrs /\ disk[b].attr = "file" /\ h \in AllHeads \ {0} /\ c \in Index
      /\ FitAt(b, c, co, buf) /\ len \in Nat \ {0} /\ co + len <= CS /\ len <= Len(buf)
      /\ KeepsWalk(fat, g, h) /\ q \in 0..MaxIndex /\ Walk(g, h)[q] = c
  BY DEF AppendedAt
<1>2. TypeOK /\ FilesRead /\ s \in Nat /\ FilesHoldNoEntry /\ b \in Addr
  BY <1>1, FilesAreRead, EntryTyped DEF AInv, FInv, LInv, NInv, CInv, IInv
<1>3. disk'[b].head = h /\ disk'[b].size = s + len
  BY <1>1, <1>2, FitEntries DEF FitAt, Grown
<1>4. h \in AllHeads' /\ (ChainsApart(fat, AllHeads) /\ AllHeads \in SUBSET Cluster /\ fat \in Table)'
  <2>1. AllHeads' = AllHeads
    BY <1>1, <1>2, FitEntries
  <2>2. (IInv /\ status = "ok")'
    BY DEF CInv
  <2>3. (ChainsApart(fat, AllHeads) /\ AllHeads \in SUBSET Cluster /\ fat \in Table)'
    BY <2>2, ApartNow, PTL
  <2> QED
    BY <1>1, <2>1, <2>3
<1>5. \A j, k \in 0..MaxIndex : j # k /\ Walk(g, h)[j] = Walk(g, h)[k] => Walk(g, h)[j] = EndMark
  <2> DEFINE H == AllHeads'
  <2>1. ChainsApart(g, H) /\ h \in H /\ H \in SUBSET Cluster /\ g \in Table
    BY <1>4
  <2> HIDE DEF g, H
  <2>2. \A j, k \in 0..MaxIndex : j < k /\ Walk(g, h)[j] = Walk(g, h)[k] => Walk(g, h)[j] = EndMark
    BY <2>1, NoRepeat
  <2>3. \A j, k \in 0..MaxIndex : j # k => j < k \/ k < j
    BY FatAssumption
  <2> QED
    BY <2>2, <2>3
<1>6. s = CS * q + co /\ co \in 0..(CS - 1) /\ q \in Nat
  BY <1>2, DivMod
<1>7. ASSUME NEW i \in 1..s
      PROVE  disk'[SlotAt(g, h, i - 1)] = disk[SlotAt(fat, h, i - 1)]
  <2> DEFINE k == i - 1
             y == SlotAt(fat, h, k)
             e == Walk(fat, h)[k \div CS]
  <2>1. k \in 0..(s - 1) /\ k \in Nat /\ k < s
    BY <1>2
  <2>2. OnChain(h, k)
    BY <1>1, <1>2, <2>1 DEF FilesRead
  <2>3. k \div CS \in 0..MaxIndex /\ e \in Index /\ e \in Chain(fat, h) /\ y \in Addr
        /\ ClusterOf(y) = e
    BY <2>2 DEF OnChain
  <2>4. Walk(g, h)[k \div CS] = e /\ SlotAt(g, h, k) = y
    BY <1>1, <2>3, NotAnIndex DEF KeepsWalk, SlotAt
  <2>5. y # b
    BY <1>1, <1>2, <2>3 DEF FilesHoldNoEntry
  <2>6. k \div CS \in Nat /\ k % CS \in 0..(CS - 1) /\ k = CS * (k \div CS) + (k % CS)
    BY <2>1, DivMod
  <2>7. ASSUME y \in TargetOf(c, co, buf) PROVE FALSE
    <3>1. e = c
      BY <1>1, <2>3, <2>7 DEF FitAt
    <3>2. k \div CS = q
      BY <1>1, <1>5, <2>3, <2>4, <3>1, NotAnIndex
    <3>3. y = Base(c) + (k % CS) /\ Base(c) \in Int
      <4>1. y = Base(c) + (k % CS)
        BY <3>1 DEF SlotAt
      <4>2. Base(c) \in Int
        BY <1>1, MfsAssumption, FatAssumption DEF Base, Index
      <4> QED
        BY <4>1, <4>2
    <3> DEFINE r == k % CS
    <3>4. r < co
      <4>1. r \in Nat /\ co \in Nat /\ k = CS * q + r
        BY <1>6, <2>6, <3>2
      <4> DEFINE z == CS * q
      <4>2. s = z + co /\ k = z + r
        BY <1>6, <4>1
      <4>3. z \in Int
        <5> HIDE DEF q
        <5> QED
          BY <1>6, MfsAssumption
      <4> HIDE DEF z, k, r, s, co, q
      <4> QED
        BY <1>2, <2>1, <4>1, <4>2, <4>3
    <3>5. y >= Base(c) + co
      <4>1. len \in Nat /\ co \in Nat
        BY <1>1, <1>6
      <4> HIDE DEF y, co
      <4> QED
        BY <2>7, <3>3, <4>1 DEF TargetOf
    <3> HIDE DEF y, r, co
    <3>6. r \in Nat /\ co \in Nat
      BY <1>6, <2>6 DEF r
    <3> QED
      BY <3>3, <3>4, <3>5, <3>6 DEF r
  <2> HIDE DEF y, k, h, s, co, len
  <2> QED
    BY <1>1, <2>3, <2>4, <2>5, <2>7 DEF FitAt, k, y
<1>8. ASSUME NEW j \in 1..len
      PROVE  disk'[SlotAt(g, h, s + j - 1)] = Datum(buf[j])
  <2> DEFINE k == s + j - 1
             r == co + (j - 1)
             y == Base(c) + co + (j - 1)
  <2>1. r \in 0..(CS - 1) /\ k = q * CS + r
    <3>1. CS * q \in Int /\ CS * q = q * CS
      <4> HIDE DEF q
      <4> QED
        BY <1>6, MfsAssumption
    <3> DEFINE z == q * CS
    <3>2. s = z + co /\ z \in Int
      BY <1>6, <3>1
    <3>3. co \in Nat /\ len \in Nat /\ co + len <= CS /\ CS \in Nat
      BY <1>1, <1>6, MfsAssumption
    <3> HIDE DEF z, s, co, len
    <3>4. j \in Nat /\ 1 <= j /\ j <= len
      BY <3>3
    <3>5. co + (j - 1) \in 0..(CS - 1)
      BY <3>3, <3>4
    <3>6. s + j - 1 = z + (co + (j - 1))
      BY <3>2, <3>3, <3>4
    <3> QED
      BY <3>5, <3>6 DEF z
  <2>2. k \div CS = q /\ k % CS = r
    <3> HIDE DEF r, k, q
    <3> QED
      BY <1>6, <2>1, DivUnique
  <2>3. Base(c) \in Int
    BY <1>1, MfsAssumption, FatAssumption DEF Base, Index
  <2>4. SlotAt(g, h, k) = y
    <3>1. SlotAt(g, h, k) = Base(c) + r
      BY <1>1, <2>2 DEF SlotAt
    <3> HIDE DEF k, co
    <3> QED
      BY <1>6, <2>3, <3>1
  <2>5. y \in TargetOf(c, co, buf) /\ y - (Base(c) + co) + 1 = j
    <3>1. TargetOf(c, co, buf) = (Base(c) + co)..(Base(c) + co + len - 1)
      BY DEF TargetOf
    <3> HIDE DEF co, len
    <3> QED
      BY <1>1, <1>6, <2>3, <3>1
  <2>6. y \in Addr \ {b}
    BY <1>1, <2>5 DEF FitAt
  <2>7. disk'[y] = Datum(buf[j])
    <3> HIDE DEF y, co
    <3> QED
      BY <1>1, <2>5, <2>6 DEF FitAt
  <2> QED
    BY <2>4, <2>7
<1> HIDE DEF s, len, h, g
<1>9. /\ disk'[b].head = h /\ disk'[b].size = s + len
      /\ s \in Nat /\ len \in Nat \ {0} /\ len <= Len(buf)
      /\ \A i \in 1..s : disk'[SlotAt(g, h, i - 1)] = disk[SlotAt(fat, h, i - 1)]
      /\ \A j \in 1..len : disk'[SlotAt(g, h, s + j - 1)] = Datum(buf[j])
  BY <1>1, <1>2, <1>3, <1>7, <1>8
<1> QED
  BY <1>9 DEF SlotsAdded, s, len, h, g

(* So it adds what it stored to what a client sees.                        *)
LEMMA ViewExtended ==
  ASSUME AInv, CInv', status = "ok", status' = "ok", NEW b, NEW c, NEW buf \in Buffers,
         AppendedAt(b, c, buf)
  PROVE  View(b)' = View(b) \o SubSeq(buf, 1, valid_len(Len(buf), disk[b].size % CS))
<1> DEFINE h == disk[b].head
           s == disk[b].size
           len == valid_len(Len(buf), s % CS)
           g == fat'
<1>1. /\ disk'[b].head = h /\ disk'[b].size = s + len
      /\ s \in Nat /\ len \in Nat \ {0} /\ len <= Len(buf)
      /\ \A i \in 1..s : disk'[SlotAt(g, h, i - 1)] = disk[SlotAt(fat, h, i - 1)]
      /\ \A j \in 1..len : disk'[SlotAt(g, h, s + j - 1)] = Datum(buf[j])
  BY SlotsExtended DEF SlotsAdded
<1> DEFINE new == [i \in 1..(s + len) |-> Value(disk'[SlotAt(g, h, i - 1)])]
<1>2. View(b)' = new
  BY <1>1 DEF View
<1> DEFINE old == View(b)
           S == Data \cup {old[i] : i \in 1..s}
<1>3. old \in Seq(S) /\ Len(old) = s
      /\ \A i \in 1..s : old[i] = Value(disk[SlotAt(fat, h, i - 1)])
  <2>1. old = [i \in 1..s |-> Value(disk[SlotAt(fat, h, i - 1)])]
    BY DEF View
  <2>2. s \in Nat
    BY <1>1
  <2> HIDE DEF old, s
  <2>3. old \in [1..s -> S]
    BY <2>1
  <2> HIDE DEF S
  <2> QED
    BY <2>1, <2>2, <2>3
<1>4. buf \in Seq(S) /\ len \in 0..Len(buf)
  <2>1. PICK m \in 1..MaxLen : buf \in [1..m -> Data]
    BY DEF Buffers
  <2>2. m \in Nat
    BY MfsAssumption
  <2>3. buf \in [1..m -> S]
    BY <2>1
  <2> HIDE DEF S
  <2>4. buf \in Seq(S)
    BY <2>2, <2>3
  <2>5. len \in 0..Len(buf)
    <3>1. Len(buf) \in Nat
      BY <2>4
    <3> HIDE DEF len
    <3> QED
      BY <1>1, <3>1
  <2> QED
    BY <2>4, <2>5
<1>5. /\ \A i \in 1..s : i \in 1..(s + len)
      /\ \A j \in 1..len : s + j \in 1..(s + len) /\ (s + j) - 1 = s + j - 1
  <2> HIDE DEF s, len
  <2> QED
    BY <1>1
<1>6. /\ new = [i \in 1..(s + len) |-> new[i]]
      /\ \A i \in 1..(s + len) : new[i] = Value(disk'[SlotAt(g, h, i - 1)])
  OBVIOUS
<1>7. \A j : Value(Datum(buf[j])) = buf[j]
  BY DEF Value, Datum
<1> HIDE DEF new, old, s, len, h, g, S
<1>8. \A i \in 1..s : new[i] = old[i]
  BY <1>1, <1>3, <1>5, <1>6
<1>9. \A j \in 1..len : new[s + j] = buf[j]
  <2> TAKE j \in 1..len
  <2>1. s + j \in 1..(s + len) /\ (s + j) - 1 = s + j - 1
    BY <1>5
  <2>2. new[s + j] = Value(disk'[SlotAt(g, h, s + j - 1)])
    BY <1>6, <2>1
  <2>3. disk'[SlotAt(g, h, s + j - 1)] = Datum(buf[j])
    BY <1>1
  <2> QED
    BY <1>7, <2>2, <2>3
<1>10. old \o SubSeq(buf, 1, len) =
         [i \in 1..(s + len) |-> IF i <= s THEN old[i] ELSE buf[i - s]]
  <2>1. old \o SubSeq(buf, 1, len) = Joined(old, buf, len)
    BY <1>3, <1>4, GoesOn
  <2> QED
    BY <1>3, <2>1 DEF Joined
<1>11. ASSUME NEW i \in 1..(s + len)
       PROVE  new[i] = IF i <= s THEN old[i] ELSE buf[i - s]
  <2>1. s \in Nat /\ len \in Nat
    BY <1>1
  <2>2. CASE i <= s
    BY <1>8, <2>1, <2>2
  <2>3. CASE i > s
    <3>1. i - s \in 1..len /\ s + (i - s) = i
      BY <2>1, <2>3
    <3>2. new[s + (i - s)] = buf[i - s]
      BY <1>9, <3>1
    <3> QED
      BY <2>1, <2>3, <3>1, <3>2
  <2> QED
    BY <2>1, <2>2, <2>3
<1>12. new = old \o SubSeq(buf, 1, len)
  BY <1>6, <1>10, <1>11
<1> QED
  BY <1>2, <1>12 DEF old, len, s

-----------------------------------------------------------------------------
(* A write at the end of a file extends it and leaves the rest as it was.  *)
LEMMA AppendIsPromised ==
  ASSUME AInv, AInv', Seen, Seen', status' = "ok", NEW p \in Paths, NEW n \in Names,
         NEW buf \in Buffers, AppendFile(p, n, buf)
  PROVE  \E q \in DOMAIN files : Promised!Extend(q, buf)
<1>0. PICK d : d = get_cluster_number(fat, disk, p)
  OBVIOUS
<1>1. /\ status = "ok" /\ d \in DirHeads /\ LInv /\ LInv' /\ NInv /\ NInv' /\ CInv' /\ TypeOK
      /\ FilesHoldNoEntry /\ IsDir(fat, disk, p)
  BY <1>0, AppendShape DEF AInv, FInv, LInv, NInv, CInv, IInv, AppendFile
<1>2. PICK b \in get_dentry(fat, disk, d, n), c \in Index : AppendedAt(b, c, buf)
  BY <1>0, AppendShape
<1> DEFINE r == Append(p, n)
           h == disk[b].head
           co == disk[b].size % CS
           len == valid_len(Len(buf), co)
<1>3. /\ b \in EntryAddrs /\ disk[b].attr = "file" /\ h \in AllHeads \ {0} /\ c \in Index
      /\ FitAt(b, c, co, buf) /\ len \in Nat \ {0} /\ len <= Len(buf)
      /\ \A e \in AllHeads : KeepsWalk(fat, fat', e)
      /\ \A e \in AllHeads : e # h => Chain(fat', e) = Chain(fat, e)
      /\ Chain(fat', h) = Chain(fat, h) \cup {c}
  BY <1>2 DEF AppendedAt
<1>4. r \in Below /\ DirOf(r) = p /\ r[Len(r)] = n
  BY NodeOf
<1> HIDE DEF r
<1>5. b \in Entries(r, "file")
  <2>1. b \in Listed(d) /\ disk[b].name = n
    BY <1>1, <1>2, LookupIs DEF LookupsAgree
  <2> QED
    BY <1>0, <1>1, <1>3, <1>4, <2>1 DEF Entries, ListedAt
<1>6. /\ EntryAddrs' = EntryAddrs /\ AllHeads' = AllHeads
      /\ \A a \in EntryAddrs :
              /\ disk'[a].attr = disk[a].attr /\ disk'[a].head = disk[a].head
              /\ a # b => disk'[a] = disk[a]
  BY <1>1, <1>3, FitEntries
<1>7. KeepsTree /\ SearchesStay
  <2>1. \A e \in AllHeads : Chain(fat, e) \subseteq Chain(fat', e)
    BY <1>3
  <2>2. \E off \in 0..MaxSize : WriteFile(p, n, off, buf)
    BY <1>1, AppendIsWrite
  <2>3. SearchesStay
    BY <1>1, <2>2, WriteKeepsFirst DEF SearchesStay
  <2> QED
    BY <1>1, <1>3, <2>1, <2>3, FitTree
<1>8. ASSUME NEW q \in Below, NEW t PROVE Entries(q, t)' = Entries(q, t)
  <2>1. \A a \in EntryAddrs : ListedAt(q, a)' <=> ListedAt(q, a)
    BY <1>1, <1>7, SameTree
  <2> QED
    BY <1>6, <2>1 DEF Entries
<1>9. TreeShape /\ TreeShape' /\ FilesShape /\ FilesShape'
  <2>1. (AInv /\ status = "ok")'
    OBVIOUS
  <2>2. (LInv /\ status = "ok")'
    BY <1>1
  <2>3. TreeShape' /\ FilesShape'
    BY <2>1, <2>2, TreeShaped, FilesShaped, PTL
  <2>4. TreeShape /\ FilesShape
    BY <1>1, TreeShaped, FilesShaped
  <2> QED
    BY <2>3, <2>4
<1>10. dirs' = dirs
  <2>1. /\ \A q : q \in dirs <=> q \in Nodes /\ (q = <<>> \/ Entries(q, "dir") # {})
        /\ \A q : q \in dirs' <=> q \in Nodes /\ (q = <<>> \/ Entries(q, "dir")' # {})
    BY <1>1, <1>9 DEF Seen, DirsFound, TreeShape
  <2>2. \A q : q \in dirs' <=> q \in dirs
    BY <1>8, <2>1 DEF Below
  <2>3. dirs' = {q \in Nodes : q \in dirs'} /\ dirs = {q \in Nodes : q \in dirs}
    BY <1>1, <1>9 DEF Seen, DirsFound
  <2> QED
    BY <2>2, <2>3
<1>11. /\ \A q : q \in DOMAIN files <=> q \in Below /\ Entries(q, "file") # {}
       /\ \A q \in Below : \A a \in Entries(q, "file") : files[q] = View(a)
       /\ files = [q \in DOMAIN files |-> files[q]]
  BY <1>9 DEF Seen, FilesShape
<1>12. /\ \A q : q \in DOMAIN files' <=> q \in Below /\ Entries(q, "file")' # {}
       /\ \A q \in Below : \A a \in Entries(q, "file")' : files'[q] = View(a)'
       /\ files' = [q \in DOMAIN files' |-> files'[q]]
  BY <1>9 DEF Seen, FilesShape
<1>13. ASSUME NEW q \in DOMAIN files, q # r PROVE files'[q] = files[q]
  <2>1. PICK a \in Entries(q, "file") : q \in Below
    BY <1>11
  <2>2. a \in EntryAddrs /\ disk[a].attr = "file" /\ a # b /\ a \in Entries(q, "file")'
    BY <1>4, <1>5, <1>8, <1>9, <1>13, <2>1 DEF Entries, TreeShape
  <2> DEFINE e == disk[a].head
  <2>3. disk'[a] = disk[a] /\ e \in AllHeads /\ KeepsWalk(fat, fat', e)
    BY <1>3, <1>6, <2>2 DEF AllHeads, Heads
  <2>4. e # h
    BY <1>1, <1>3, <2>2 DEF LInv, NInv, CInv, OwnHeads
  <2>5. c \notin Chain(fat, e)
    <3>1. (ChainsApart(fat, AllHeads) /\ AllHeads \in SUBSET Cluster /\ fat \in Table)'
      <4>1. (IInv /\ status = "ok")'
        BY <1>1 DEF CInv
      <4> QED
        BY <4>1, ApartNow, PTL
    <3> DEFINE g == fat'
               H == AllHeads
    <3>2. ChainsApart(g, H) /\ H \in SUBSET Cluster /\ g \in Table /\ h \in H /\ e \in H
      BY <1>3, <1>6, <2>3, <3>1
    <3> HIDE DEF g, H, h, e
    <3>3. Chain(g, h) \cap Chain(g, e) = {}
      BY <2>4, <3>2, HeadsApart
    <3>4. c \in Chain(g, h) /\ Chain(g, e) = Chain(fat, e)
      BY <1>3, <2>3, <2>4 DEF g
    <3> QED
      BY <3>3, <3>4
  <2>6. \A x \in Addr : ClusterOf(x) \in Chain(fat, e) => disk'[x] = disk[x]
    <3> SUFFICES ASSUME NEW x \in Addr, ClusterOf(x) \in Chain(fat, e)
                 PROVE  disk'[x] = disk[x]
      OBVIOUS
    <3>1. x # b
      BY <1>1, <1>3, <2>2 DEF FilesHoldNoEntry
    <3>2. x \notin TargetOf(c, co, buf)
      BY <1>3, <2>5 DEF FitAt
    <3> QED
      BY <1>3, <3>1, <3>2 DEF FitAt
  <2>7. View(a)' = View(a)
    BY <1>1, <2>2, <2>3, <2>6, ViewKept
  <2> QED
    BY <1>11, <1>12, <2>1, <2>2, <2>7
<1>14. \A q : q \in DOMAIN files' <=> q \in DOMAIN files
  BY <1>8, <1>11, <1>12
<1>15. r \in DOMAIN files
  BY <1>4, <1>5, <1>11
<1>16. files'[r] = files[r] \o SubSeq(buf, 1, len)
  <2>1. View(b)' = View(b) \o SubSeq(buf, 1, len)
    BY <1>1, <1>2, ViewExtended
  <2> QED
    BY <1>4, <1>5, <1>8, <1>11, <1>12, <2>1
<1>17. files' = [files EXCEPT ![r] = files[r] \o SubSeq(buf, 1, len)]
  <2>1. DOMAIN files' = DOMAIN files
    BY <1>14
  <2>2. \A q \in DOMAIN files' :
          files'[q] = [files EXCEPT ![r] = files[r] \o SubSeq(buf, 1, len)][q]
    BY <1>13, <1>15, <1>16, <2>1
  <2> QED
    BY <1>11, <1>12, <2>1, <2>2
<1>18. len \in 1..Len(buf)
  <2>1. Len(buf) \in Nat
    BY MfsAssumption DEF Buffers
  <2> HIDE DEF len
  <2> QED
    BY <1>3, <2>1
<1>19. (status = "wrecked")' = (status = "wrecked")
  BY <1>1
<1>20. Promised!Extend(r, buf)
  <2> HIDE DEF len
  <2> QED
    BY <1>10, <1>17, <1>18, <1>19 DEF Promised!Extend
<1> QED
  BY <1>15, <1>20

(* A volume that has been destroyed promises nothing.                      *)
LEMMA WreckIsPromised ==
  ASSUME AInv, Seen', status = "ok", status' # "ok", TypeOK'
  PROVE  Promised!Lose
<1>1. status' = "wrecked"
  BY DEF TypeOK
<1>2. dirs' = {}
  BY DEF Seen, DirsFound
<1>3. files' = <<>>
  <2>1. \A q : q \notin DOMAIN files'
    BY DEF Seen, FilesFound
  <2>2. files' = [q \in DOMAIN files' |-> files'[q]]
    BY DEF Seen, FilesFound
  <2>3. DOMAIN files' = {}
    BY <2>1
  <2>4. files' \in [1..0 -> {}]
    BY <2>2, <2>3
  <2>5. files' \in Seq({}) /\ Len(files') = 0
    BY <2>4
  <2> QED
    BY <2>5
<1> QED
  BY <1>1, <1>2, <1>3 DEF Promised!Lose

(* The formatted volume shows the empty store.                             *)
LEMMA InitIsPromised == ViewInit => AInv /\ Seen /\ Promised!Init
<1> SUFFICES ASSUME ViewInit PROVE AInv /\ Seen /\ Promised!Init
  OBVIOUS
<1>1. AInv /\ Seen /\ status = "ok"
  BY InitAInv DEF ViewInit, Seen, Init
<1>2. EntryAddrs = {}
  BY DEF ViewInit, Init, EntryAddrs, Blank, FileOrDir
<1>3. TreeShape /\ FilesShape
  BY <1>1, TreeShaped, FilesShaped DEF AInv, FInv, LInv
<1>4. \A q, t : Entries(q, t) = {}
  BY <1>2 DEF Entries
<1>5. dirs = {<<>>}
  <2>1. <<>> \in Nodes
    BY NodesOf
  <2>2. \A q : q \in dirs <=> q \in Nodes /\ IsDir(fat, disk, q)
    BY <1>1 DEF Seen, DirsFound
  <2>3. \A q : q \in dirs <=> q = <<>>
    BY <1>3, <1>4, <2>1, <2>2 DEF TreeShape
  <2>4. dirs = {q \in Nodes : IsDir(fat, disk, q)}
    BY <1>1 DEF Seen, DirsFound
  <2> QED
    BY <2>3, <2>4
<1>6. files = <<>>
  <2>1. \A q : q \notin DOMAIN files
    BY <1>1, <1>3, <1>4 DEF Seen, FilesShape
  <2>2. files = [q \in DOMAIN files |-> files[q]]
    BY <1>1, <1>3 DEF Seen, FilesShape
  <2>3. DOMAIN files = {}
    BY <2>1
  <2>4. files \in [1..0 -> {}]
    BY <2>2, <2>3
  <2>5. files \in Seq({}) /\ Len(files) = 0
    BY <2>4
  <2> QED
    BY <2>5
<1> QED
  BY <1>1, <1>5, <1>6 DEF Promised!Init

(* Every step of the view is a step of FileStore or changes nothing in it. *)
LEMMA StepIsPromised ==
  ASSUME AInv, AInv', Seen, [ViewNext]_viewVars
  PROVE  Seen' /\ [Promised!Next]_(Promised!vars)
<1>1. CASE UNCHANGED viewVars
  <2>1. fat' = fat /\ disk' = disk /\ status' = status /\ dirs' = dirs /\ files' = files
    BY <1>1 DEF viewVars
  <2>2. Seen'
    BY <2>1 DEF Seen
  <2>3. UNCHANGED Promised!vars
    BY <2>1 DEF Promised!vars
  <2> QED
    BY <2>2, <2>3
<1>2. CASE ViewNext
  <2>1. NextAtEnd /\ Seen'
    BY <1>2 DEF ViewNext, Seen
  <2>2. status = "ok"
    BY <2>1 DEF NextAtEnd, CreateNew, MkdirNew, WriteAtEnd, mfs_create, mfs_mkdir, AppendFile
  <2>3. CASE status' # "ok"
    BY <2>1, <2>2, <2>3, WreckIsPromised DEF AInv, FInv, LInv, NInv, CInv, IInv, Promised!Next
  <2>4. CASE status' = "ok" /\ CreateNew
    <3>1. PICK p \in Paths, n \in Names : Absent(p, n) /\ mfs_create(p, n)
      BY <2>4 DEF CreateNew
    <3>2. Promised!Create(Append(p, n))
      <4>1. IF "file" = "dir" THEN Promised!Mkdir(Append(p, n)) ELSE Promised!Create(Append(p, n))
        BY <2>1, <2>4, <3>1, MakeIsPromised DEF mfs_create, FileOrDir
      <4> QED
        BY <4>1
    <3>3. Append(p, n) \in Promised!Node
      BY NodeOf, NodesOf
    <3> QED
      BY <2>1, <3>2, <3>3 DEF Promised!Next
  <2>5. CASE status' = "ok" /\ MkdirNew
    <3>1. PICK p \in Paths, n \in Names : Absent(p, n) /\ mfs_mkdir(p, n)
      BY <2>5 DEF MkdirNew
    <3>2. Promised!Mkdir(Append(p, n))
      <4>1. IF "dir" = "dir" THEN Promised!Mkdir(Append(p, n)) ELSE Promised!Create(Append(p, n))
        BY <2>1, <2>5, <3>1, MakeIsPromised DEF mfs_mkdir, FileOrDir
      <4> QED
        BY <4>1
    <3>3. Append(p, n) \in Promised!Node
      BY NodeOf, NodesOf
    <3> QED
      BY <2>1, <3>2, <3>3 DEF Promised!Next
  <2>6. CASE status' = "ok" /\ WriteAtEnd
    <3>1. PICK p \in Paths, n \in Names, buf \in Buffers : AppendFile(p, n, buf)
      BY <2>6 DEF WriteAtEnd
    <3>2. \E q \in DOMAIN files : Promised!Extend(q, buf)
      BY <2>1, <2>6, <3>1, AppendIsPromised
    <3>3. buf \in Promised!Buffer
      BY NodesOf
    <3> QED
      BY <2>1, <3>2, <3>3 DEF Promised!Next
  <2> QED
    BY <2>1, <2>3, <2>4, <2>5, <2>6 DEF NextAtEnd
<1> QED
  BY <1>1, <1>2

(* What a client that writes at the end of its files sees of a volume is a *)
(* tree of named directories and files in which every call changes the     *)
(* node it names and no other, and what is read back from a file is what   *)
(* was written to it, in order, until the volume is destroyed.             *)
THEOREM ViewIsAFileStore == ViewSpec => ImplementsFileStore
<1>1. ViewInit => AInv /\ Seen /\ Promised!Init
  BY InitIsPromised
<1>2. AInv /\ [ViewNext]_viewVars => AInv'
  BY NextAInv DEF ViewNext, viewVars, vars
<1>3. AInv /\ Seen /\ [ViewNext]_viewVars => Seen' /\ [Promised!Next]_(Promised!vars)
  BY <1>2, StepIsPromised
<1>4. ViewSpec => []AInv /\ []Seen
  BY <1>1, <1>2, <1>3, PTL DEF ViewSpec
<1> QED
  BY <1>1, <1>3, <1>4, PTL DEF ViewSpec, ImplementsFileStore, Promised!Spec

-----------------------------------------------------------------------------
(* What mdbfs copies.                                                      *)

(* The clusters in use are the first ones, but for those at the end of a   *)
(* sector of the FAT, which the probe may pass over.                       *)
Packed(f) == \A i, j \in Index : f[j] # 0 /\ i < j /\ ~LastInSector(i) => f[i] # 0

(* A search for an unused index keeps it so.                               *)
LEMMA PackedKept ==
  ASSUME NEW f \in Table, Packed(f), NEW new \in find_empty_fat_index(f), NEW g,
         \A i \in Index : g[i] # 0 => f[i] # 0 \/ i = new,
         \A i \in Index : f[i] # 0 \/ i = new => g[i] # 0
  PROVE  Packed(g)
<1> SUFFICES ASSUME NEW i \in Index, NEW j \in Index, g[j] # 0, i < j, ~LastInSector(i),
                    f[i] = 0, i # new
             PROVE  FALSE
  BY DEF Packed
<1>1. j = new
  BY DEF Packed
<1>2. i \notin Probed(f)
  BY <1>1, NotAnIndex DEF find_empty_fat_index
<1>3. f[i + 1] # 0
  BY <1>2 DEF Probed
<1>4. i \in Nat /\ j \in Nat /\ i + 1 \in Index /\ i < i + 1
  BY FatAssumption DEF Index
<1> QED
  BY <1>3, <1>4 DEF Packed

(* Then a volume on which the search finds nothing has no cluster left     *)
(* that the probe is sure to see.                                          *)
LEMMA PackedFull ==
  ASSUME NEW f, Packed(f), Full(f), NEW i \in Index, ~LastInSector(i)
  PROVE  f[i] # 0
<1>1. i \in Nat /\ i + 1 \in Index /\ i < i + 1
  BY FatAssumption DEF Index, LastInSector
<1> QED
  BY <1>1 DEF Packed, Full

(* The volume holds test.db, at a, and in it what has been copied.         *)
Copied(a) ==
  /\ EntryAddrs = {a} /\ a \in Db /\ disk[a].size = offset
  /\ \A i \in 1..offset : disk[SlotAt(fat, disk[a].head, i - 1)] = Datum(buff[i])

CopyTyped ==
  buff \in Buffers \cup {<<>>} /\ offset \in 0..Len(buff) /\ pc \in {"create", "write", "done"}
CopyGoesOn ==
  /\ Packed(fat) /\ Chain(fat, RootCluster) = {RootCluster}
  /\ IF pc = "create" THEN Init /\ offset = 0 ELSE \E a \in Addr : Copied(a)
  /\ offset % CS = 0 \/ offset = Len(buff)
  /\ pc = "done" => offset = Len(buff)
TooLong == Len(buff) > CS * Cardinality(SureClusters)
DInv ==
  /\ AInv /\ CopyTyped
  /\ IF status = "ok" THEN CopyGoesOn ELSE TooLong

(* It holds when the volume has been formatted.                            *)
LEMMA InitDInv == CopyInit => DInv
<1> SUFFICES ASSUME CopyInit PROVE CopyTyped /\ status = "ok" /\ CopyGoesOn
  BY InitAInv DEF DInv, CopyInit
<1>1. status = "ok" /\ Init
  BY DEF CopyInit, Init
<1>2. Len(buff) \in Nat /\ buff \in Buffers \cup {<<>>}
  <2>1. \A s : s \in Buffers => Len(s) \in Nat
    BY MfsAssumption DEF Buffers
  <2> QED
    BY <2>1 DEF CopyInit
<1>3. CopyTyped
  BY <1>2 DEF CopyInit, CopyTyped
<1>4. fat \in Table /\ fat[RootCluster] = EndMark /\ RootCluster \in Cluster
  <2>1. RootCluster \in Cluster
    BY FatAssumption DEF Cluster, Index, RootCluster
  <2>2. fat = [i \in Cluster |-> IF i = RootCluster THEN EndMark ELSE 0]
    BY <1>1 DEF Init, FormattedFat
  <2>3. 0 \in Cluster
    BY DEF Cluster
  <2> QED
    BY <2>1, <2>2, <2>3 DEF Table
<1>5. Packed(fat)
  <2>1. ASSUME NEW i \in Index, fat[i] # 0 PROVE i = 2
    <3>1. i \in Cluster
      BY DEF Cluster
    <3> QED
      BY <1>1, <2>1, <3>1 DEF Init, FormattedFat, RootCluster
  <2> QED
    BY <2>1 DEF Packed, Index
<1>6. Chain(fat, RootCluster) = {RootCluster}
  BY <1>4, ChainOfOne
<1>7. 0 % CS = 0
  BY MfsAssumption
<1> QED
  BY <1>1, <1>3, <1>5, <1>6, <1>7 DEF CopyGoesOn, CopyInit

(* The formatted volume has room for the entry in the root directory.      *)
LEMMA RootHasRoom ==
  ASSUME Init, NEW f, Ends(f, RootCluster), RootCluster \in Chain(f, RootCluster)
  PROVE  FirstOnChain(f, RootCluster, Free(disk)) # {}
<1>1. 0 \in Addr /\ 0 \div CS + 2 = RootCluster
  BY MfsAssumption, FatAssumption DEF Addr, RootCluster
<1>2. 0 \in Free(disk)
  BY <1>1 DEF Init, Free
<1> QED
  BY <1>1, <1>2, SearchComplete

(* create_dummy makes test.db.                                             *)
LEMMA CreateDbKeeps == ASSUME DInv, CreateDb PROVE DInv'
<1>1. status = "ok" /\ AInv /\ CopyTyped /\ CopyGoesOn /\ Init /\ offset = 0 /\ pc = "create"
  BY DEF DInv, CopyGoesOn, CreateDb, mfs_create
<1>2. <<>> \in Paths /\ Len(<<>>) = 0
  <2>1. 0 \in 0..MaxDepth /\ <<>> \in [1..0 -> Names]
    BY MfsAssumption
  <2> QED
    BY <2>1 DEF Paths
<1>3. mfs_create(<<>>, DbName) /\ UNCHANGED <<buff, offset>> /\ pc' = "write"
  BY DEF CreateDb
<1>4. AInv'
  <2>1. EntryAddrs = {}
    BY <1>1 DEF Init, EntryAddrs, Blank, FileOrDir
  <2>2. Absent(<<>>, DbName)
    <3> DEFINE d == get_cluster_number(fat, disk, <<>>)
    <3>1. ASSUME NEW a \in mfs_lookup(fat, disk, d, DbName) PROVE a \in EntryAddrs
      BY SearchIsSound DEF mfs_lookup, Named, EntryAddrs
    <3> QED
      BY <2>1, <3>1 DEF Absent, Find
  <2>3. NextAtEnd
    BY <1>2, <1>3, <2>2, DbAssumption DEF NextAtEnd, CreateNew
  <2> QED
    BY <1>1, <2>3, NextAInv
<1>5. /\ IInv /\ NInv /\ TypeOK /\ fat \in Table /\ ChainsApart(fat, AllHeads)
      /\ AllHeads \in SUBSET Cluster /\ RootCluster \in AllHeads /\ RootCluster \in DirHeads
  BY <1>1, ApartNow DEF AInv, FInv, LInv, NInv, CInv, IInv, AllHeads, DirHeads
<1>6. get_cluster_number(fat, disk, <<>>) = RootCluster /\ RootCluster # 0
  <2>1. Prefix(<<>>, 0) = <<>>
    BY <1>2, PathTyped
  <2> QED
    BY <1>2, <2>1, PathStep DEF RootCluster
<1>7. Make(<<>>, DbName, "file")
  BY <1>3 DEF mfs_create
<1> DEFINE de(head) == Dirent("file", DbName, head, 0)
<1>8. PICK head \in find_empty_fat_index(fat) :
        alloc_new_dirent(write_in_fat_index(fat, head, EndMark), RootCluster, de(head))
  BY <1>6, <1>7 DEF Make
<1> DEFINE f == write_in_fat_index(fat, head, EndMark)
<1>9. Chain(f, RootCluster) = {RootCluster} /\ Ends(f, RootCluster)
  <2>1. Walk(f, RootCluster) = Walk(fat, RootCluster)
        /\ Chain(f, RootCluster) = Chain(fat, RootCluster)
    BY <1>5, <1>6, MarkedChain
  <2>2. Ends(fat, RootCluster)
    BY <1>5, WalkEnds
  <2> QED
    BY <1>1, <2>1, <2>2 DEF CopyGoesOn, Ends
<1>10. FirstOnChain(f, RootCluster, Free(disk)) # {}
  BY <1>1, <1>9, RootHasRoom
<1>11. fat' = f /\ status' = "ok"
  BY <1>1, <1>8, <1>10 DEF alloc_new_dirent
<1>12. PICK h \in find_empty_fat_index(fat), x \in Addr : MadeAt(RootCluster, DbName, "file", h, x)
  BY <1>1, <1>5, <1>6, <1>7, <1>11, MakeEffects
<1>13. EntryAddrs' = {x} /\ disk'[x].name = DbName /\ disk'[x].attr = "file" /\ disk'[x].size = 0
  <2>1. EntryAddrs = {}
    BY <1>1 DEF Init, EntryAddrs, Blank, FileOrDir
  <2> QED
    BY <1>1, <1>5, <1>12, <2>1, MadeEntries, DbAssumption DEF FileOrDir
<1>14. x \in Db'
  <2>1. ClusterOf(x) \in Chain(fat', RootCluster)
    BY <1>12 DEF MadeAt
  <2>2. x \in Listed(RootCluster)'
    BY <1>13, <2>1 DEF Listed, ClusterOf
  <2>3. LookupsAgree' /\ RootCluster \in DirHeads'
    <3>1. (LInv /\ status = "ok")'
      BY <1>4, <1>11 DEF AInv, FInv, LInv
    <3>2. LookupsAgree'
      BY <3>1, LookupIs, PTL
    <3> QED
      BY <3>2 DEF DirHeads
  <2> QED
    BY <1>13, <2>2, <2>3 DEF LookupsAgree, Db
<1>15. Copied(x)'
  <2>1. offset' = 0
    BY <1>1, <1>3
  <2> QED
    BY <1>13, <1>14, <2>1 DEF Copied
<1>16. Packed(fat)'
  <2> DEFINE g == fat'
  <2>1. head \in Cluster /\ g[head] = EndMark /\ \A i \in Cluster : i # head => g[i] = fat[i]
    BY <1>5, <1>11, FoundIsUnused DEF write_in_fat_index, Table
  <2>2. EndMark # 0 /\ Index \subseteq Cluster
    BY FatAssumption DEF Cluster
  <2> HIDE DEF g
  <2>3. Packed(g)
    BY <1>1, <1>5, <2>1, <2>2, PackedKept DEF CopyGoesOn
  <2> QED
    BY <2>3 DEF g
<1>17. CopyTyped' /\ (offset % CS = 0 \/ offset = Len(buff))' /\ pc' = "write"
  <2>1. offset % CS = 0 \/ offset = Len(buff)
    BY <1>1 DEF CopyGoesOn
  <2> QED
    BY <1>1, <1>3, <2>1 DEF CopyTyped
<1>18. CopyGoesOn'
  BY <1>9, <1>11, <1>15, <1>16, <1>17 DEF CopyGoesOn
<1> QED
  BY <1>4, <1>11, <1>17, <1>18 DEF DInv

(* A turn of the loop that does not wreck the volume adds to test.db what  *)
(* it takes off the buffer, ...                                            *)
LEMMA CopyOnWrites ==
  ASSUME DInv, AInv', status = "ok", status' = "ok", NEW a \in Addr, Copied(a),
         NEW rest \in Buffers, rest = SubSeq(buff, offset + 1, Len(buff)),
         offset % CS = 0, AppendFile(<<>>, DbName, rest), <<>> \in Paths,
         offset' = offset + valid_len(Len(rest), 0), UNCHANGED buff
  PROVE  Copied(a)'
<1>1. /\ NInv /\ CInv' /\ TypeOK /\ CopyTyped /\ FilesHoldNoEntry
      /\ EntryAddrs = {a} /\ a \in Db /\ disk[a].size = offset
  BY DEF DInv, AInv, FInv, LInv, NInv, CInv, IInv, Copied
<1>2. PICK b \in EntryAddrs, c \in Index : AppendedAt(b, c, rest)
  <2>1. PICK d : d = get_cluster_number(fat, disk, <<>>)
    OBVIOUS
  <2>2. PICK b \in get_dentry(fat, disk, d, DbName), c \in Index : AppendedAt(b, c, rest)
    BY <2>1, AppendShape DEF DInv
  <2> QED
    BY <2>2 DEF AppendedAt
<1>3. b = a
  BY <1>1, <1>2 DEF AppendedAt
<1> DEFINE h == disk[a].head
           len == valid_len(Len(rest), 0)
<1>4. SlotsAdded(a, len, rest)
  BY <1>1, <1>2, <1>3, SlotsExtended DEF DInv
<1>5. EntryAddrs' = {a} /\ a \in Db'
  <2>1. EntryAddrs' = {a} /\ disk'[a].name = disk[a].name /\ disk'[a].attr = disk[a].attr
    BY <1>1, <1>2, <1>3 DEF AppendedAt, FitAt, Grown
  <2>2. RootCluster \in DirHeads /\ RootCluster \in DirHeads' /\ RootCluster \in AllHeads
    BY DEF DirHeads, AllHeads
  <2>3. LookupsAgree /\ LookupsAgree'
    <3>1. (LInv /\ status = "ok")'
      BY DEF AInv, FInv, LInv
    <3>2. LookupsAgree'
      BY <3>1, LookupIs, PTL
    <3>3. LInv
      BY DEF DInv, AInv, FInv, LInv
    <3> QED
      BY <3>2, <3>3, LookupIs
  <2>4. a \in Listed(RootCluster) /\ disk[a].name = DbName /\ disk[a].attr = "file"
    BY <1>1, <2>2, <2>3 DEF LookupsAgree, Db
  <2>5. a \in Listed(RootCluster)'
    BY <1>1, <1>2, <1>3, <2>1, <2>2, <2>4 DEF Listed, AppendedAt
  <2> QED
    BY <2>1, <2>2, <2>3, <2>4, <2>5 DEF LookupsAgree, Db
<1>6. /\ disk'[a].head = h /\ disk'[a].size = offset + len
      /\ offset \in Nat /\ len \in Nat \ {0} /\ len <= Len(rest)
      /\ \A i \in 1..offset : disk'[SlotAt(fat', h, i - 1)] = disk[SlotAt(fat, h, i - 1)]
      /\ \A j \in 1..len : disk'[SlotAt(fat', h, offset + j - 1)] = Datum(rest[j])
  BY <1>1, <1>4 DEF SlotsAdded
<1>7. \A j \in 1..len : rest[j] = buff[offset + j]
  <2>1. buff \in Seq(Data)
    <3>1. \A m \in 1..MaxLen : m \in Nat
      BY MfsAssumption
    <3>2. \A s \in Buffers : s \in Seq(Data)
      BY <3>1 DEF Buffers
    <3> QED
      BY <1>1, <3>2 DEF CopyTyped
  <2>2. offset \in 0..Len(buff) /\ Len(buff) \in Nat
    BY <1>1, <2>1 DEF CopyTyped
  <2>3. \A j \in 1..Len(rest) : rest[j] = buff[offset + j]
    BY <2>1, <2>2
  <2>4. Len(rest) \in Nat
    BY <2>1, <2>2
  <2> HIDE DEF len
  <2> QED
    BY <1>6, <2>3, <2>4
<1>8. ASSUME NEW i \in 1..(offset + len)
      PROVE  disk'[SlotAt(fat', h, i - 1)] = Datum(buff[i])
  <2>1. CASE i <= offset
    <3>1. i \in 1..offset
      BY <2>1
    <3>2. disk[SlotAt(fat, h, i - 1)] = Datum(buff[i])
      BY <3>1 DEF Copied
    <3>3. disk'[SlotAt(fat', h, i - 1)] = disk[SlotAt(fat, h, i - 1)]
      BY <1>6, <3>1
    <3> QED
      BY <3>2, <3>3
  <2>2. CASE i > offset
    <3> DEFINE j == i - offset
    <3> HIDE DEF len
    <3>1. j \in 1..len /\ offset + j = i /\ offset + j - 1 = i - 1
      <4>1. offset \in Nat /\ len \in Nat
        BY <1>6
      <4> QED
        BY <2>2, <4>1
    <3>2. disk'[SlotAt(fat', h, offset + j - 1)] = Datum(rest[j])
      BY <1>6, <3>1
    <3>3. rest[j] = buff[offset + j]
      BY <1>7, <3>1
    <3> HIDE DEF j, h
    <3>4. disk'[SlotAt(fat', h, i - 1)] = Datum(rest[j])
      BY <3>1, <3>2
    <3>5. rest[j] = buff[i]
      BY <3>1, <3>3
    <3> QED
      BY <3>4, <3>5
  <2> HIDE DEF len
  <2> QED
    BY <1>6, <2>1, <2>2
<1> HIDE DEF len, h
<1> QED
  BY <1>5, <1>6, <1>8 DEF Copied, len

(* ... takes the clusters in their order and none for the root, ...        *)
LEMMA CopyOnPacks ==
  ASSUME DInv, status = "ok", status' = "ok", CopyGoesOn, NEW p, NEW n, NEW off, NEW buf,
         WriteFile(p, n, off, buf)
  PROVE  Packed(fat)'
<1>1. fat \in Table /\ Packed(fat)
  BY DEF DInv, AInv, FInv, LInv, NInv, CInv, IInv, TypeOK, CopyGoesOn
<1>2. PICK d, a : WriteInChain(d, disk[a], off, buf) \/ WriteExtending(d, disk[a], off, buf)
  BY DEF WriteFile, WriteEntry
<1>3. CASE WriteInChain(d, disk[a], off, buf)
  BY <1>1, <1>3 DEF WriteInChain
<1>4. CASE WriteExtending(d, disk[a], off, buf)
  <2>1. PICK tail \in Cluster, new \in find_empty_fat_index(fat) :
          /\ fat[tail] = EndMark /\ fat' = Extended(fat, tail, new)
          /\ Store(fat', d, disk[a], new, off % CS, buf)
    BY <1>4 DEF WriteExtending
  <2>2. new # 0
    BY <2>1 DEF Store, Wreck
  <2>3. new \in Index /\ fat[new] = 0
    BY <1>1, <2>2, FoundIsUnused
  <2>4. \A i \in Cluster : fat'[i] = IF i = new THEN EndMark ELSE IF i = tail THEN new ELSE fat[i]
    BY <1>1, <2>1, <2>3, ExtendedFat
  <2>5. EndMark # 0 /\ Index \subseteq Cluster
    BY FatAssumption DEF Cluster
  <2> DEFINE g == fat'
  <2>6. \A i \in Index : g[i] # 0 <=> fat[i] # 0 \/ i = new
    BY <2>1, <2>2, <2>4, <2>5
  <2> HIDE DEF g
  <2>7. Packed(g)
    BY <1>1, <2>6, PackedKept
  <2> QED
    BY <2>7 DEF g
<1> QED
  BY <1>2, <1>3, <1>4

(* ... and wrecks the volume only when no cluster is left that the probe   *)
(* is sure to see, which is when the host file is too long.                *)
LEMMA CopyOnWrecks ==
  ASSUME DInv, status = "ok", status' # "ok", NEW a \in Addr, Copied(a),
         NEW rest \in Buffers, Len(rest) + offset = Len(buff),
         offset % CS = 0, WriteFile(<<>>, DbName, offset, rest)
  PROVE  TooLong
<1> DEFINE h == disk[a].head
           n == offset \div CS
           e == Cardinality(Chain(fat, h))
           w == Walk(fat, h)
<1>1. /\ NInv /\ TypeOK /\ IInv /\ ZeroIsEmpty /\ UsedOwned /\ CopyGoesOn /\ CopyTyped
      /\ EntryAddrs = {a} /\ disk[a].size = offset
      /\ fat \in Table /\ ChainsApart(fat, AllHeads) /\ AllHeads \in SUBSET Cluster
  BY ApartNow DEF DInv, AInv, FInv, LInv, NInv, CInv, IInv, Copied
<1>2. AllHeads = {h, RootCluster} /\ h \in AllHeads
  BY <1>1 DEF AllHeads, Heads
<1>3. Len(rest) \in Nat \ {0} /\ offset \in Nat
  <2>1. \A m \in 1..MaxLen : m \in Nat \ {0}
    BY MfsAssumption
  <2>2. offset \in Nat
    <3>1. \A x \in 0..Len(buff) : x \in Nat
      OBVIOUS
    <3> QED
      BY <1>1, <3>1 DEF CopyTyped
  <2> QED
    BY <2>1, <2>2 DEF Buffers
<1>4. /\ disk[a].size + Len(rest) <= MaxSize
      /\ \E d : WriteInChain(d, disk[a], offset, rest) \/ WriteExtending(d, disk[a], offset, rest)
  <2>1. PICK d : d = get_cluster_number(fat, disk, <<>>)
    OBVIOUS
  <2>2. PICK b \in get_dentry(fat, disk, d, DbName) : WriteEntry(d, b, offset, rest)
    BY <2>1 DEF WriteFile
  <2>3. b = a
    BY <1>1, <2>2, FoundIsEntry
  <2> QED
    BY <2>2, <2>3 DEF WriteEntry
<1>5. n \in 0..MaxIndex /\ offset = CS * n
  <2>1. n \in Nat /\ offset = CS * n + (offset % CS)
    BY <1>3, DivMod
  <2> HIDE DEF n
  <2>2. offset = CS * n
    <3> DEFINE z == CS * n
    <3>1. z \in Int
      BY <2>1, MfsAssumption
    <3> HIDE DEF z
    <3> QED
      BY <2>1, <3>1 DEF z
  <2>3. offset <= CS * MaxIndex
    <3> DEFINE z == CS * MaxIndex
    <3>1. z \in Int /\ MaxSize <= z /\ MaxSize \in Nat
      BY MfsAssumption, FatAssumption
    <3> HIDE DEF z
    <3>2. offset <= z
      BY <1>1, <1>3, <1>4, <3>1
    <3> QED
      BY <3>2 DEF z
  <2> QED
    BY <2>1, <2>2, <2>3, MfsAssumption, FatAssumption
<1>6. valid_len(Len(rest), offset % CS) \in Nat
  BY <1>3, MfsAssumption DEF valid_len
<1>7. ASSUME Full(fat) PROVE SureClusters \subseteq Chain(fat, h)
  <2> SUFFICES ASSUME NEW i \in SureClusters PROVE i \in Chain(fat, h)
    OBVIOUS
  <2>1. i \in Index /\ i # RootCluster /\ ~LastInSector(i)
    BY DEF SureClusters
  <2>2. fat[i] # 0
    BY <1>1, <1>7, <2>1, PackedFull DEF CopyGoesOn
  <2> QED
    BY <1>1, <1>2, <2>1, <2>2 DEF UsedOwned, CopyGoesOn
<1>8. IsFiniteSet(Chain(fat, h)) /\ e \in 1..MaxIndex
  BY <1>1, <1>2, ChainCount
<1>9. ASSUME Full(fat), e <= n PROVE TooLong
  <2>1. Cardinality(SureClusters) <= e /\ Cardinality(SureClusters) \in Nat
    BY <1>7, <1>8, <1>9, FS_Subset, FS_CardinalityType
  <2> DEFINE m == Cardinality(SureClusters)
  <2> HIDE DEF m, e, n
  <2>2. m <= n /\ m \in Nat /\ n \in Nat
    BY <1>5, <1>8, <1>9, <2>1, FatAssumption DEF m
  <2>3. CS * m <= CS * n /\ CS * m \in Int
    BY <2>2, MfsAssumption
  <2> DEFINE z == CS * m
  <2>4. z <= offset /\ z \in Int
    BY <1>5, <2>3
  <2> HIDE DEF z
  <2>5. Len(buff) > z
    BY <1>3, <2>4
  <2> QED
    BY <2>5 DEF TooLong, m, z
<1>10. ASSUME NEW d, WriteInChain(d, disk[a], offset, rest) PROVE TooLong
  <2>1. w[n] = 0 /\ 0 # EndMark
    BY <1>6, <1>10, FatAssumption DEF WriteInChain, Store, Wreck
  <2>2. 0 \in Chain(fat, h)
    BY <1>5, <2>1 DEF Chain
  <2>3. h = 0
    BY <1>1, <1>2, <2>2, ChainInUse, NotAnIndex
  <2>4. Full(fat) /\ offset = 0
    BY <1>1, <2>3 DEF ZeroIsEmpty
  <2>5. Chain(fat, h) \subseteq {0}
    BY <1>1, <2>3, ZeroAlone DEF ZeroIsEmpty
  <2>6. SureClusters = {}
    BY <1>7, <2>4, <2>5, NotAnIndex DEF SureClusters
  <2>7. Cardinality(SureClusters) = 0 /\ CS * 0 = 0
    BY <2>6, FS_EmptySet, MfsAssumption
  <2> QED
    BY <1>3, <2>4, <2>7 DEF TooLong
<1>11. ASSUME NEW d, WriteExtending(d, disk[a], offset, rest) PROVE TooLong
  <2>1. PICK tail \in Cluster, new \in find_empty_fat_index(fat) :
          /\ \E k \in 0..(n - 1) : w[k] = tail
          /\ fat[tail] = EndMark
          /\ Store(fat', d, disk[a], new, offset % CS, rest)
    BY <1>11 DEF WriteExtending
  <2>2. new = 0
    BY <1>6, <2>1 DEF Store, Wreck
  <2>3. Full(fat)
    BY <2>1, <2>2, NoneFound
  <2>4. PICK k \in 0..(n - 1) : w[k] = tail
    BY <2>1
  <2>5. k \in 0..MaxIndex
    <3> HIDE DEF n
    <3> QED
      BY <1>5, FatAssumption
  <2>6. k = e - 1
    <3>1. w[k] # EndMark /\ fat[w[k]] = EndMark
      BY <2>1, <2>4, NotAnIndex
    <3> QED
      BY <1>1, <1>2, <2>5, <3>1, ChainCount
  <2>7. e <= n
    <3> HIDE DEF n, e
    <3> QED
      BY <1>5, <1>8, <2>4, <2>6, FatAssumption
  <2> QED
    BY <1>9, <2>3, <2>7
<1> QED
  BY <1>4, <1>10, <1>11

(* What is left of the host file.                                          *)
LEMMA RestOfBuff ==
  ASSUME CopyTyped, NEW rest, rest = SubSeq(buff, offset + 1, Len(buff)), rest # <<>>
  PROVE  /\ rest \in Buffers /\ Len(rest) \in Nat \ {0} /\ offset \in Nat
         /\ Len(rest) + offset = Len(buff) /\ Len(buff) \in Nat
<1>1. PICK m \in 0..MaxLen : buff \in [1..m -> Data]
  <2>1. CASE buff = <<>>
    <3>1. buff \in [1..0 -> Data] /\ 0 \in 0..MaxLen
      BY <2>1, MfsAssumption
    <3> QED
      BY <3>1
  <2>2. CASE buff \in Buffers
    <3>1. \A m \in 1..MaxLen : m \in 0..MaxLen
      BY MfsAssumption
    <3> QED
      BY <2>2, <3>1 DEF Buffers
  <2> QED
    BY <2>1, <2>2 DEF CopyTyped
<1>2. m \in Nat /\ buff \in Seq(Data) /\ Len(buff) = m /\ m <= MaxLen
  BY <1>1, MfsAssumption
<1>3. offset \in Nat /\ offset <= m
  BY <1>2 DEF CopyTyped
<1>4. rest \in Seq(Data) /\ Len(rest) = m - offset
  BY <1>2, <1>3
<1> DEFINE k == m - offset
<1>5. rest \in [1..k -> Data]
  <2>1. rest \in [1..Len(rest) -> Data]
    BY <1>4, LenProperties
  <2> QED
    BY <1>4, <2>1
<1>6. k # 0
  <2> SUFFICES ASSUME k = 0 PROVE rest = <<>>
    OBVIOUS
  <2> QED
    BY <1>4
<1>7. k \in 1..MaxLen
  BY <1>2, <1>3, <1>6, MfsAssumption
<1>8. rest \in Buffers
  BY <1>5, <1>7 DEF Buffers
<1> QED
  BY <1>2, <1>3, <1>4, <1>6, <1>8

(* A turn of the loop.                                                     *)
LEMMA CopyOnKeeps == ASSUME DInv, CopyOn PROVE DInv'
<1> DEFINE rest == SubSeq(buff, offset + 1, Len(buff))
           len == valid_len(Len(rest), offset % CS)
<1>1. /\ pc = "write" /\ rest # <<>> /\ WriteFile(<<>>, DbName, offset, rest)
      /\ offset' = offset + len /\ pc' = (IF len <= 0 THEN "done" ELSE "write") /\ buff' = buff
  BY DEF CopyOn
<1>2. status = "ok" /\ CopyGoesOn /\ CopyTyped
  <2>1. status = "ok"
    BY <1>1 DEF WriteFile
  <2> QED
    BY <2>1 DEF DInv
<1>3. PICK a \in Addr : Copied(a)
  BY <1>1, <1>2 DEF CopyGoesOn
<1>4. /\ rest \in Buffers /\ Len(rest) \in Nat \ {0} /\ offset \in Nat
      /\ Len(rest) + offset = Len(buff) /\ Len(buff) \in Nat
  BY <1>1, <1>2, RestOfBuff
<1>5. offset % CS = 0
  <2> HIDE DEF rest
  <2> QED
    BY <1>2, <1>4 DEF CopyGoesOn
<1>6. <<>> \in Paths
  <2>1. 0 \in 0..MaxDepth /\ <<>> \in [1..0 -> Names]
    BY MfsAssumption
  <2> QED
    BY <2>1 DEF Paths
<1>7. AppendFile(<<>>, DbName, rest)
  <2>1. PICK d : d = get_cluster_number(fat, disk, <<>>)
    OBVIOUS
  <2>2. PICK b \in get_dentry(fat, disk, d, DbName) : WriteEntry(d, b, offset, rest)
    BY <1>1, <2>1 DEF WriteFile
  <2>3. b = a /\ disk[b].size = offset
    <3>1. TypeOK
      BY DEF DInv, AInv, FInv, LInv, NInv, CInv, IInv
    <3> QED
      BY <1>3, <2>2, <3>1, FoundIsEntry DEF Copied
  <2> HIDE DEF rest
  <2> QED
    BY <1>1, <1>5, <2>1, <2>2, <2>3 DEF WriteFile, AppendFile
<1>8. AInv'
  <2>1. WriteAtEnd
    <3> HIDE DEF rest
    <3> QED
      BY <1>4, <1>6, <1>7, DbAssumption DEF WriteAtEnd
  <2> QED
    BY <2>1, NextAInv DEF NextAtEnd, DInv
<1>9. /\ len \in Nat \ {0} /\ len <= Len(rest) /\ len = valid_len(Len(rest), 0)
      /\ len = CS \/ len = Len(rest)
  <2> HIDE DEF rest
  <2> QED
    BY <1>4, <1>5, MfsAssumption DEF valid_len
<1>10. (offset + len) % CS = 0 \/ offset + len = Len(buff)
  <2>1. CASE len = CS
    <3> DEFINE n == offset \div CS
    <3>1. n \in Nat /\ offset = CS * n + (offset % CS)
      BY <1>4, DivMod
    <3> HIDE DEF n, len
    <3>2. offset + len = (n + 1) * CS + 0 /\ n + 1 \in Nat /\ 0 \in 0..(CS - 1)
      BY <1>5, <2>1, <3>1, MfsAssumption
    <3> DEFINE z == offset + len
    <3> HIDE DEF z
    <3>3. z % CS = 0
      BY <3>2, DivUnique DEF z
    <3> QED
      BY <3>3 DEF z
  <2>2. CASE len = Len(rest)
    <3> HIDE DEF len, rest
    <3> QED
      BY <1>4, <2>2
  <2> QED
    BY <1>9, <2>1, <2>2
<1>11. CopyTyped' /\ pc' = "write"
  <2>1. pc' = "write"
    <3>1. ~(len <= 0)
      <4> HIDE DEF len, rest
      <4> QED
        BY <1>9
    <3> HIDE DEF len
    <3> QED
      BY <1>1, <3>1
  <2>2. offset' \in 0..Len(buff)
    <3> HIDE DEF len, rest
    <3> QED
      BY <1>1, <1>4, <1>9
  <2> QED
    BY <1>1, <1>2, <2>1, <2>2 DEF CopyTyped
<1>12. CASE status' = "ok"
  <2>1. Copied(a)'
    <3> HIDE DEF rest
    <3> QED
      BY <1>1, <1>2, <1>3, <1>4, <1>5, <1>6, <1>7, <1>8, <1>9, <1>12, CopyOnWrites DEF rest
  <2>2. Packed(fat)'
    <3> HIDE DEF rest
    <3> QED
      BY <1>1, <1>2, <1>12, CopyOnPacks
  <2>3. Chain(fat', RootCluster) = {RootCluster}
    <3>1. PICK d : d = get_cluster_number(fat, disk, <<>>)
      OBVIOUS
    <3> HIDE DEF rest
    <3>2. PICK b \in get_dentry(fat, disk, d, DbName), c \in Index : AppendedAt(b, c, rest)
      BY <1>4, <1>6, <1>7, <1>12, <3>1, AppendShape DEF DInv
    <3>3. b \in EntryAddrs /\ disk[b].head # 0
      BY <3>2 DEF AppendedAt
    <3>4. RootCluster \in AllHeads /\ disk[b].head # RootCluster
      BY <1>2, <3>3 DEF DInv, AInv, FInv, LInv, NInv, CInv, OwnHeads, AllHeads
    <3>5. Chain(fat', RootCluster) = Chain(fat, RootCluster)
      BY <3>2, <3>4 DEF AppendedAt
    <3> QED
      BY <1>2, <3>5 DEF CopyGoesOn
  <2> HIDE DEF len, rest
  <2>4. CopyGoesOn'
    BY <1>1, <1>10, <1>11, <2>1, <2>2, <2>3 DEF CopyGoesOn
  <2> QED
    BY <1>8, <1>11, <1>12, <2>4 DEF DInv
<1>13. CASE status' # "ok"
  <2>1. TooLong
    <3> HIDE DEF rest
    <3> QED
      BY <1>1, <1>2, <1>3, <1>4, <1>5, <1>13, CopyOnWrecks
  <2>2. TooLong'
    BY <1>1, <2>1 DEF TooLong, SureClusters
  <2> QED
    BY <1>8, <1>11, <1>13, <2>2 DEF DInv
<1> QED
  BY <1>12, <1>13

(* So every step of the program keeps the invariant.                       *)
LEMMA NextDInv == DInv /\ [CopyNext]_copyVars => DInv'
<1> SUFFICES ASSUME DInv, [CopyNext]_copyVars PROVE DInv'
  OBVIOUS
<1>1. ASSUME UNCHANGED vars, UNCHANGED <<buff, offset>>,
             pc' = pc \/ (pc = "write" /\ pc' = "done" /\ status = "ok" /\ offset = Len(buff))
      PROVE  DInv'
  <2>1. AInv'
    BY <1>1, NextAInv DEF DInv
  <2>2. CopyTyped'
    BY <1>1 DEF DInv, CopyTyped
  <2>3. \A a : Copied(a) => Copied(a)'
    BY <1>1 DEF vars, Copied, EntryAddrs, Db
  <2>4. status = "ok" => CopyGoesOn'
    BY <1>1, <2>3 DEF DInv, CopyGoesOn, vars, Packed, Init
  <2>5. TooLong' = TooLong
    BY <1>1 DEF TooLong, SureClusters
  <2> QED
    BY <1>1, <2>1, <2>2, <2>4, <2>5 DEF DInv, vars
<1>2. CASE CreateDb
  BY <1>2, CreateDbKeeps
<1>3. CASE CopyOn
  BY <1>3, CopyOnKeeps
<1>4. CASE CopyEnd
  BY <1>1, <1>4 DEF CopyEnd, vars
<1>5. CASE UNCHANGED copyVars
  BY <1>1, <1>5 DEF copyVars, vars
<1> QED
  BY <1>2, <1>3, <1>4, <1>5 DEF CopyNext

(* What the file reads as is what has been copied, and the volume is       *)
(* destroyed only when the host file is too long for it.                   *)
LEMMA DInvIsCopied == DInv => CopiedSoFar
<1> SUFFICES ASSUME DInv PROVE CopiedSoFar
  OBVIOUS
<1>1. Len(buff) <= CS * Cardinality(SureClusters) => status = "ok"
  <2> SUFFICES ASSUME status # "ok" PROVE ~(Len(buff) <= CS * Cardinality(SureClusters))
    OBVIOUS
  <2>1. TooLong
    BY DEF DInv
  <2>2. Len(buff) \in Nat
    <3>1. \A s \in Buffers \cup {<<>>} : Len(s) \in Nat
      BY MfsAssumption DEF Buffers
    <3> QED
      BY <3>1 DEF DInv, CopyTyped
  <2>3. CS * Cardinality(SureClusters) \in Nat
    <3>1. IsFiniteSet(SureClusters)
      <4>1. SureClusters \subseteq 2..MaxIndex
        BY DEF SureClusters, Index
      <4>2. 2 \in Int /\ MaxIndex \in Int
        BY FatAssumption
      <4>3. IsFiniteSet(2..MaxIndex)
        BY <4>2, FS_Interval
      <4> QED
        BY <4>1, <4>3, FS_Subset
    <3>2. Cardinality(SureClusters) \in Nat
      BY <3>1, FS_CardinalityType
    <3> QED
      BY <3>2, MfsAssumption
  <2> DEFINE z == CS * Cardinality(SureClusters)
  <2>4. Len(buff) > z
    BY <2>1 DEF TooLong
  <2> HIDE DEF z
  <2>5. ~(Len(buff) <= z)
    BY <2>2, <2>3, <2>4 DEF z
  <2> QED
    BY <2>5 DEF z
<1>2. ASSUME status = "ok", pc # "create"
      PROVE  \E a \in Db : /\ Content(fat, disk, disk[a]) = [i \in 1..offset |-> Datum(buff[i])]
                           /\ pc = "done" => offset = Len(buff)
  <2>1. CopyGoesOn /\ AInv
    BY <1>2 DEF DInv
  <2>2. PICK a \in Addr : Copied(a)
    BY <1>2, <2>1 DEF CopyGoesOn
  <2>3. a \in EntryAddrs /\ a \in Db /\ disk[a].size = offset
        /\ \A i \in 1..offset : disk[SlotAt(fat, disk[a].head, i - 1)] = Datum(buff[i])
    BY <2>2 DEF Copied
  <2>4. disk[a].attr = "file"
    <3>1. LookupsAgree /\ RootCluster \in DirHeads
      BY <1>2, <2>1, LookupIs DEF AInv, FInv, LInv, DirHeads
    <3> QED
      BY <2>3, <3>1 DEF LookupsAgree, Db
  <2>5. Content(fat, disk, disk[a]) =
          [i \in 1..disk[a].size |-> disk[SlotAt(fat, disk[a].head, i - 1)]]
    BY <1>2, <2>1, <2>3, <2>4, FilesAreRead DEF FilesRead
  <2>6. Content(fat, disk, disk[a]) = [i \in 1..offset |-> Datum(buff[i])]
    BY <2>3, <2>5
  <2>7. pc = "done" => offset = Len(buff)
    BY <2>1 DEF CopyGoesOn
  <2> QED
    BY <2>3, <2>6, <2>7
<1> QED
  BY <1>1, <1>2 DEF CopiedSoFar

(* At every turn of create_dummy's loop test.db holds exactly what has     *)
(* been copied, and at the end all of the host file; and a host file that  *)
(* fits the clusters the probe is sure to find is copied without harm, for *)
(* every volume and every host file (mdbfs.c, create_dummy).               *)
THEOREM CopyIsFaithful == CopySpec => []CopiedSoFar
<1>1. CopyInit => DInv
  BY InitDInv
<1>2. DInv /\ [CopyNext]_copyVars => DInv'
  BY NextDInv
<1>3. DInv => CopiedSoFar
  BY DInvIsCopied
<1> QED
  BY <1>1, <1>2, <1>3, PTL DEF CopySpec

=============================================================================
