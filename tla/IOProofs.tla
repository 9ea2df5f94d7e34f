------------------------------ MODULE IOProofs ------------------------------
(***************************************************************************)
(* Theorems about MfsIO, the calls as the transfers they consist of, with  *)
(* one caller, for every volume, set of names and bound.                   *)
(*                                                                         *)
(* That a call implements one action of Mfs cannot be seen from a state:   *)
(* the volume in the middle of a call is none of Mfs. So the invariant     *)
(* (RInv) says what has become of the volume f0, d0 that the call found:   *)
(* Progress, with one case for each phase of a call, which gives the FAT   *)
(* and the data as functions of f0, d0 and of the variables of the call,   *)
(* and says of these what the functions of the code have established: a    *)
(* search that has passed the clusters before this one (Comes, Passes),    *)
(* the sectors of the FAT that hold no empty index (Passed), the end of    *)
(* the chain that is to grow (AtTail), the cluster of the offset (Behind,  *)
(* Reached). Each transfer then takes the call from phase to phase         *)
(* (Moves), or ends it with the volume that one action of Mfs makes of f0, *)
(* d0 (Returns, Outcome).                                                  *)
(*                                                                         *)
(* The theorems about crashes ask that clients write at the end of their   *)
(* files (AtEndOnly). A crash leaves the volume in the middle of a call,   *)
(* and the next call finds that one, so their invariant (XInv) says less   *)
(* of the volume f0, d0 that a call found, but something that a crash does *)
(* not destroy: it is Sound, every entry lies in a directory that a path   *)
(* leads to (Owned), and it has lost (LostOf) one cluster a crash at most. *)
(* What a call has made of f0, d0 is Midway at every moment other than     *)
(* while it grows a chain, and when it returns: sound again, with all its  *)
(* entries where they were and their content as it was (Leaves), and no    *)
(* cluster lost but the one it has marked for an entry not yet written.    *)
(***************************************************************************)
EXTENDS MfsProofs, MfsIO

OneCaller == \E c : Callers = {c}

-----------------------------------------------------------------------------
(* A volume as any call finds it: its entries, where chains start, and     *)
(* chains that are apart.                                                  *)
EntriesOf(dk) == {a \in Addr : dk[a].attr \in FileOrDir}
HeadsOf(dk) == {RootCluster} \cup {dk[a].head : a \in EntriesOf(dk)}
Apart(f, dk) == f \in Table /\ dk \in [Addr -> Slot] /\ ChainsApart(f, HeadsOf(dk))

-----------------------------------------------------------------------------
(* A search for S in the chain of d: it has come to cluster cur, and the   *)
(* clusters before it had nothing; or it has passed cur as well.           *)
Clear(f, d, S, k) == \A j \in 0..(k - 1) : \A a \in S : ClusterOf(a) # Walk(f, d)[j]
Comes(f, d, S, cur) ==
  cur # EndMark /\ \E k \in 0..MaxIndex : Walk(f, d)[k] = cur /\ Clear(f, d, S, k)
Passes(f, d, S, cur) ==
  cur # EndMark /\ \E k \in 0..MaxIndex : Walk(f, d)[k] = cur /\ Clear(f, d, S, k + 1)
Searching(f, d, S, r, at, next) ==
  \/ r.pc = at /\ Comes(f, d, S, r.cur)
  \/ r.pc = next /\ Passes(f, d, S, r.cur)

(* A call and its arguments, which are those of Begin: the path is one of  *)
(* directories, and the write one that a client may ask for.               *)
Fields == {"kind", "path", "name", "off", "buf", "pc", "io", "making", "n", "cur",
           "prev", "dir", "head", "at", "de", "copy"}
Leads(f0, d0, r) == get_cluster_number(f0, d0, r.path)
Opened(f0, d0, r) == get_dentry(f0, d0, Leads(f0, d0, r), r.name)
MayWrite(e, off, buf) ==
  /\ e.size + Len(buf) <= MaxSize
  /\ AtEndOnly => off = e.size /\ (off % CS = 0 \/ (off % CS) + Len(buf) <= CS)
Asked(f0, d0, r) ==
  /\ DOMAIN r = Fields
  /\ r.kind \in FileOrDir \cup {"write"} /\ r.path \in Paths /\ r.name \in Names
  /\ r.making \in BOOLEAN
  /\ IsDir(f0, d0, r.path)
  /\ r.making => r.kind \in FileOrDir /\ Find(f0, d0, r.path, r.name) = {}
  /\ r.kind = "write" =>
       /\ ~r.making /\ r.off \in 0..MaxSize /\ r.buf \in Buffers
       /\ \E a \in Opened(f0, d0, r) : MayWrite(d0[a], r.off, r.buf)

(* The phases of a call. Until a creation marks the head of its entry, and *)
(* a write grows a chain or writes its data, the volume is as it was.      *)
Routing(f0, d0, r) ==
  /\ r.n \in 0..Len(r.path)
  /\ LET d == get_cluster_number(f0, d0, Prefix(r.path, r.n)) IN
     \/ r.pc = "route" /\ r.n = Len(r.path) /\ r.cur = d
     \/ /\ r.n < Len(r.path)
        /\ Searching(f0, d, Named(d0, {"dir"}, r.path[r.n + 1]), r, "route", "route_next")
Looking(f0, d0, r) ==
  /\ r.kind \in FileOrDir /\ ~r.making /\ r.dir = Leads(f0, d0, r)
  /\ Searching(f0, r.dir, Named(d0, FileOrDir, r.name), r, "lookup", "lookup_next")
Opening(f0, d0, r) ==
  /\ r.kind = "write" /\ r.dir = Leads(f0, d0, r)
  /\ Searching(f0, r.dir, Named(d0, {"file"}, r.name), r, "dentry", "dentry_next")

(* find_empty_fat_index has read n sectors and found no empty index.       *)
Passed(f, n) == \A i \in Probed(f) : (i - 2) \div SectorIndices < n => LastInSector(i)
Finding(f0, d0, r) ==
  /\ r.pc = "find" /\ r.making /\ r.dir = Leads(f0, d0, r)
  /\ r.n \in 0..(Sectors - 1) /\ Passed(f0, r.n)
Marking(f0, d0, r) ==
  r.pc = "mark" /\ r.making /\ r.dir = Leads(f0, d0, r) /\ r.head \in find_empty_fat_index(f0)
Marked(f0, r) == IF r.making THEN write_in_fat_index(f0, r.head, EndMark) ELSE f0
Making(f0, d0, r) == r.making /\ r.dir = Leads(f0, d0, r) /\ r.head \in find_empty_fat_index(f0)
Allocating(f0, d0, f, r) ==
  /\ Making(f0, d0, r)
  /\ f = Marked(f0, r)
  /\ r.dir = 0 => r.pc = "alloc" /\ r.cur = 0
  /\ Searching(f, r.dir, Free(d0), r, "alloc", "alloc_next")

(* write_file with the entry it has read; and with the entry as it is      *)
(* going to write it, v slots longer.                                      *)
Has(f0, d0, r) ==
  r.kind = "write" /\ r.dir = Leads(f0, d0, r) /\ \E a \in Opened(f0, d0, r) : r.de = d0[a]
HasGrown(f0, d0, r, v) ==
  /\ r.kind = "write" /\ r.dir = Leads(f0, d0, r)
  /\ \E a \in Opened(f0, d0, r) : r.de = [d0[a] EXCEPT !.size = @ + v]
(* The chain of the directory, or of the file, has been walked to its end, *)
(* and grows: first its last cluster is linked to the new one, then this   *)
(* is marked.                                                              *)
AtTail(f0, d0, r) ==
  LET g == Marked(f0, r) IN
  /\ r.prev \in Cluster /\ g[r.prev] = EndMark
  /\ r.making => /\ r.dir # 0 /\ r.prev \in Chain(g, r.dir)
                 /\ FirstOnChain(g, r.dir, Free(d0)) = {}
  /\ ~r.making => \E k \in 0..(r.off \div CS - 1) : Walk(g, r.de.head)[k] = r.prev
Grows(f0, d0, f, r) ==
  LET g == Marked(f0, r) IN
  /\ IF r.making THEN Making(f0, d0, r) ELSE Has(f0, d0, r)
  /\ AtTail(f0, d0, r)
  /\ \/ /\ r.pc = "grow" /\ f = g
        /\ r.n \in 0..(Sectors - 1) /\ Passed(g, r.n)
     \/ r.pc = "link" /\ f = g /\ r.cur \in find_empty_fat_index(g)
     \/ r.pc = "mark_new" /\ r.cur \in find_empty_fat_index(g)
        /\ f = write_in_fat_index(g, r.prev, r.cur)
(* The slot of the new entry has been found, or is the first of the new    *)
(* cluster.                                                                *)
Entering(f0, d0, f, r) ==
  LET g == Marked(f0, r) IN
  /\ r.pc = "entry" /\ Making(f0, d0, r)
  /\ \/ /\ r.dir # 0 /\ r.cur # 0
        /\ f = g /\ FirstOnChain(g, r.dir, Free(d0)) = {r.at}
     \/ /\ AtTail(f0, d0, r) /\ r.cur \in find_empty_fat_index(g)
        /\ f = Extended(g, r.prev, r.cur) /\ r.at = Base(r.cur)
(* write_file walks to the cluster of its offset; it has reached it, or    *)
(* has added it; it writes there, ...                                      *)
Behind(f0, d0, r) ==
  /\ r.pc = "walk" /\ Has(f0, d0, r) /\ r.n \in 0..MaxIndex
  /\ r.cur = Walk(f0, r.de.head)[r.n] /\ r.cur # EndMark
  /\ r.off >= (r.n + 1) * CS
Reached(f0, d0, f, r, cl) ==
  \/ /\ f = f0 /\ cl \in Cluster /\ cl = Walk(f0, r.de.head)[r.off \div CS]
  \/ /\ AtTail(f0, d0, r) /\ cl \in find_empty_fat_index(f0)
     /\ f = Extended(f0, r.prev, cl)
Storing(f0, d0, f, r) ==
  /\ r.pc = "data" /\ Has(f0, d0, r) /\ Reached(f0, d0, f, r, r.cur)
  /\ r.at = Base(r.cur) + (r.off % CS)

(* ... and then looks for the entry again, and writes back the cluster     *)
(* that has it.                                                            *)
Settled(r) == valid_len(Len(r.buf), r.off % CS)
Stored(dk, cl, r) ==
  LET p == Base(cl) + (r.off % CS) IN
  [a \in Addr |-> IF a \in p..(p + Settled(r) - 1) THEN Datum(r.buf[a - p + 1]) ELSE dk[a]]
Patched(dk, r, a) == [i \in 0..(CS - 1) |-> IF Base(r.cur) + i = a THEN r.de ELSE dk[Base(r.cur) + i]]
Updating(f0, d0, f, dk, r) ==
  /\ HasGrown(f0, d0, r, Settled(r)) /\ Settled(r) >= 0
  /\ \E cl \in Cluster \ {0} : Reached(f0, d0, f, r, cl) /\ dk = Stored(d0, cl, r)
  /\ \/ Searching(f, r.dir, Named(dk, {"file"}, r.name), r, "reread", "reread_next")
     \/ /\ r.pc = "update"
        /\ \E a \in FirstOnChain(f, r.dir, Named(dk, {"file"}, r.name)) :
             ClusterOf(a) = r.cur /\ r.copy = Patched(dk, r, a)

(* The phases together: those that leave the volume alone, those that have *)
(* changed the FAT only, and the one that has written data.                *)
Reading(f0, d0, r) ==
  \/ Routing(f0, d0, r) \/ Looking(f0, d0, r) \/ Opening(f0, d0, r)
  \/ Finding(f0, d0, r) \/ Marking(f0, d0, r) \/ Behind(f0, d0, r)
Doing(f0, d0, f, dk, r) ==
  \/ dk = d0 /\ f = f0 /\ Reading(f0, d0, r)
  \/ /\ dk = d0
     /\ \/ Allocating(f0, d0, f, r) \/ Grows(f0, d0, f, r)
        \/ Entering(f0, d0, f, r) \/ Storing(f0, d0, f, r)
  \/ Updating(f0, d0, f, dk, r)
Progress(f0, d0, f, dk, r) == Asked(f0, d0, r) /\ Doing(f0, d0, f, dk, r)

(* Until a first crash, seen is the volume as the last call left it.       *)
RInv ==
  crashes = 0 /\ status = "ok" =>
    /\ seen = [fat |-> seen.fat, disk |-> seen.disk, status |-> "ok"]
    /\ Apart(seen.fat, seen.disk)
    /\ \A c \in Callers :
         IF calls[c] = Idle THEN fat = seen.fat /\ disk = seen.disk
         ELSE Progress(seen.fat, seen.disk, fat, disk, calls[c])

-----------------------------------------------------------------------------
(* What the entries of a volume may be.                                    *)
LEMMA EntriesTyped ==
  ASSUME NEW dk \in [Addr -> Slot], NEW a \in EntriesOf(dk)
  PROVE  /\ a \in Addr /\ dk[a] \in Dirents /\ dk[a].attr \in FileOrDir
         /\ dk[a].head \in Cluster /\ dk[a].name \in Names /\ dk[a].size \in Nat
         /\ dk[a].head \in HeadsOf(dk)
<1>1. a \in Addr /\ dk[a] \in Slot /\ dk[a].attr \in {"file", "dir"}
  BY DEF EntriesOf, FileOrDir
<1>2. dk[a] \in Dirents
  BY <1>1 DEF Slot, Blank, Datum
<1> QED
  BY <1>1, <1>2 DEF Dirents, FileOrDir, HeadsOf

(* The clusters that chains start at.                                      *)
LEMMA HeadsTyped ==
  ASSUME NEW dk \in [Addr -> Slot]
  PROVE  HeadsOf(dk) \in SUBSET Cluster /\ RootCluster \in HeadsOf(dk) /\ RootCluster \in Index
<1>1. RootCluster \in Cluster /\ RootCluster \in Index
  BY FatAssumption DEF RootCluster, Cluster, Index
<1>2. \A a \in EntriesOf(dk) : dk[a].head \in Cluster
  BY EntriesTyped
<1> QED
  BY <1>1, <1>2 DEF HeadsOf

(* The chain of each head ends, and passes over indices in use.            *)
LEMMA HeadChain ==
  ASSUME NEW f, NEW dk, Apart(f, dk), NEW d \in HeadsOf(dk)
  PROVE  /\ d \in Cluster /\ f[d] # 0 /\ Ends(f, d)
         /\ \A k \in 0..MaxIndex : LET c == Walk(f, d)[k] IN
              c # EndMark => c \in Cluster /\ f[c] # 0 /\ (k # 0 => c \in Index)
<1>1. HeadsOf(dk) \in SUBSET Cluster /\ f \in Table /\ ChainsApart(f, HeadsOf(dk))
  BY HeadsTyped DEF Apart
<1>2. LinkedInUse(f, HeadsOf(dk)) /\ f[d] # 0
  BY <1>1 DEF ChainsApart, HeadsInUse
<1> QED
  BY <1>1, <1>2, WalkEnds, WalkInUse

(* A path leads from directory to directory, each the one entry that a     *)
(* search of the directory before it finds.                                *)
LEMMA RouteFinds ==
  ASSUME NEW f, NEW dk, NEW p \in Paths, IsDir(f, dk, p), NEW k \in 1..Len(p)
  PROVE  \E a \in EntriesOf(dk) :
           LET d == get_cluster_number(f, dk, Prefix(p, k - 1)) IN
           /\ dk[a].attr = "dir" /\ dk[a].name = p[k]
           /\ a \in FirstOnChain(f, d, Named(dk, FileOrDir, p[k]))
           /\ a \in FirstOnChain(f, d, Named(dk, {"dir"}, p[k]))
           /\ get_cluster_number(f, dk, Prefix(p, k)) = dk[a].head
<1> DEFINE d == get_cluster_number(f, dk, Prefix(p, k - 1))
           S == Named(dk, FileOrDir, p[k])
           R == Named(dk, {"dir"}, p[k])
<1>1. PICK a \in FirstOnChain(f, d, S) : dk[a].attr = "dir"
  BY DEF IsDir, Find, mfs_lookup
<1>2. a \in S
  BY SearchIsSound
<1>3. a \in EntriesOf(dk) /\ dk[a].name = p[k] /\ a \in R /\ R \in SUBSET S
  BY <1>1, <1>2 DEF Named, EntriesOf, FileOrDir
<1>4. get_cluster_number(f, dk, Prefix(p, k)) = StepTo(f, dk, d, p[k])
  BY PathStep
<1>5. StepTo(f, dk, d, p[k]) = dk[a].head
  BY <1>1, StepToFound
<1> HIDE DEF d, S, R
<1>6. a \in FirstOnChain(f, d, R)
  <2>1. KeepsWalk(f, f, d)
    BY SameWalk
  <2>2. FirstOnChain(f, d, R) = {a}
    BY <1>1, <1>3, <2>1, SearchAgain
  <2> QED
    BY <2>2
<1> QED
  BY <1>1, <1>3, <1>4, <1>5, <1>6 DEF d, S, R

(* So it leads to heads.                                                   *)
LEMMA PathLeadsToHead ==
  ASSUME NEW f, NEW dk, NEW p \in Paths, IsDir(f, dk, p)
  PROVE  /\ get_cluster_number(f, dk, p) \in HeadsOf(dk)
         /\ \A k \in 0..Len(p) : get_cluster_number(f, dk, Prefix(p, k)) \in HeadsOf(dk)
<1>1. Len(p) \in Nat /\ Prefix(p, Len(p)) = p /\ Len(p) \in 0..Len(p)
  BY PathTyped
<1>2. ASSUME NEW k \in 0..Len(p)
      PROVE  get_cluster_number(f, dk, Prefix(p, k)) \in HeadsOf(dk)
  <2>1. CASE k = 0
    BY <2>1, PathStep DEF HeadsOf
  <2>2. CASE k # 0
    <3>1. k \in 1..Len(p)
      BY <2>2, <1>1
    <3> QED
      BY <3>1, RouteFinds DEF HeadsOf
  <2> QED
    BY <2>1, <2>2
<1> QED
  BY <1>1, <1>2

-----------------------------------------------------------------------------
(* A search, cluster by cluster: it has come to cluster cur, and there was *)
(* nothing before; or nothing there either.                                *)

(* It starts with the first cluster.                                       *)
LEMMA SearchStarts ==
  ASSUME NEW f, NEW d \in Cluster, NEW S
  PROVE  Comes(f, d, S, d)
<1>1. 0 \in 0..MaxIndex /\ Walk(f, d)[0] = d
  BY WalkStep, FatAssumption
<1>2. Clear(f, d, S, 0)
  BY DEF Clear
<1> QED
  BY <1>1, <1>2, NotAnIndex DEF Comes

(* When nothing is in this cluster it has passed it, ...                   *)
LEMMA SearchPasses ==
  ASSUME NEW f, NEW d, NEW S, NEW cur, Comes(f, d, S, cur),
         \A a \in S : ClusterOf(a) # cur
  PROVE  Passes(f, d, S, cur)
<1>1. PICK k \in 0..MaxIndex : Walk(f, d)[k] = cur /\ Clear(f, d, S, k)
  BY DEF Comes
<1>2. Clear(f, d, S, k + 1)
  <2> SUFFICES ASSUME NEW j \in 0..k, NEW a \in S PROVE ClusterOf(a) # Walk(f, d)[j]
    BY <1>1 DEF Clear
  <2>1. j = k \/ j \in 0..(k - 1)
    BY <1>1
  <2> QED
    BY <1>1, <2>1 DEF Clear
<1> QED
  BY <1>1, <1>2 DEF Comes, Passes

(* ... goes on to the next, ...                                            *)
LEMMA SearchGoesOn ==
  ASSUME NEW f, NEW d, Ends(f, d), NEW S, NEW cur \in Cluster, Passes(f, d, S, cur),
         f[cur] # EndMark
  PROVE  Comes(f, d, S, f[cur])
<1>1. PICK k \in 0..MaxIndex : Walk(f, d)[k] = cur /\ Clear(f, d, S, k + 1)
  BY DEF Passes
<1>2. k # MaxIndex
  BY <1>1, NotAnIndex DEF Ends
<1>3. k + 1 \in 0..MaxIndex /\ k \in 0..(MaxIndex - 1)
  BY <1>2, FatAssumption
<1>4. Walk(f, d)[k + 1] = f[cur]
  BY <1>1, <1>3, WalkStep, AfterCluster
<1> QED
  BY <1>1, <1>3, <1>4 DEF Comes

(* ... and has found nothing when there is none.                           *)
LEMMA SearchEnds ==
  ASSUME NEW f \in Table, NEW d \in Cluster, NEW S \in SUBSET Addr, NEW cur \in Cluster,
         Passes(f, d, S, cur), f[cur] = EndMark
  PROVE  FirstOnChain(f, d, S) = {} /\ cur \in Chain(f, d)
<1>1. PICK k \in 0..MaxIndex : Walk(f, d)[k] = cur /\ Clear(f, d, S, k + 1)
  BY DEF Passes
<1>2. cur \in Chain(f, d)
  BY <1>1, NotAnIndex DEF Chain
<1>3. ASSUME NEW a \in FirstOnChain(f, d, S) PROVE FALSE
  <2>1. a \in S
    BY SearchIsSound
  <2>2. PICK j \in 0..MaxIndex : Walk(f, d)[j] = ClusterOf(a) /\ ClusterOf(a) # EndMark
    BY <1>3, SearchOnChain DEF Chain, ClusterOf
  <2>3. CASE j <= k
    BY <1>1, <2>1, <2>2, <2>3 DEF Clear
  <2>4. CASE j > k
    <3>1. k + 1 \in 0..MaxIndex /\ k \in 0..(MaxIndex - 1) /\ j \in (k + 1)..MaxIndex
      BY <2>4, FatAssumption
    <3>2. Walk(f, d)[k + 1] = EndMark
      BY <1>1, <3>1, WalkStep, AfterCluster
    <3> QED
      BY <2>2, <3>1, <3>2, WalkStaysAtEnd
  <2> QED
    BY <2>3, <2>4
<1> QED
  BY <1>2, <1>3

(* What it meets first is what FirstOnChain finds.                         *)
LEMMA SearchMeets ==
  ASSUME NEW f \in Table, NEW d \in Cluster, Ends(f, d), NEW S \in SUBSET Addr, NEW cur,
         Comes(f, d, S, cur), NEW a \in S, ClusterOf(a) = cur,
         \A b \in S : ClusterOf(b) = cur => a <= b
  PROVE  FirstOnChain(f, d, S) = {a}
<1>1. PICK k \in 0..MaxIndex : Walk(f, d)[k] = cur /\ Clear(f, d, S, k)
  BY DEF Comes
<1>2. a \in Addr \cap S /\ ClusterOf(a) \in Chain(f, d) /\ cur # EndMark
  BY <1>1 DEF Chain, Comes
<1>3. PICK b : b \in FirstOnChain(f, d, S)
  BY <1>2, SearchComplete DEF ClusterOf
<1>4. PICK m \in HitsOn(f, d, S) : b = SlotAt(f, d, m) /\ \A j \in HitsOn(f, d, S) : m <= j
  BY <1>3, SearchResult
<1>5. /\ m \in Positions /\ m \in Nat /\ m \div CS \in 0..MaxIndex /\ m % CS \in 0..(CS - 1)
      /\ Walk(f, d)[m \div CS] \notin {0, EndMark}
  BY PositionTyped DEF HitsOn
<1>6. b \in S /\ b \in Addr
  BY <1>3, SearchIsSound
<1>7. ClusterOf(b) = Walk(f, d)[m \div CS] /\ b % CS = m % CS
  <2>1. Walk(f, d)[m \div CS] \in Index
    BY <1>5, WalkTyped DEF Cluster
  <2> QED
    BY <1>4, <1>5, <2>1, SlotOfCluster DEF SlotAt, ClusterOf
<1>8. k # MaxIndex
  BY <1>1, <1>2 DEF Ends
<1> DEFINE n == k * CS + (a % CS)
<1>9. a % CS \in 0..(CS - 1) /\ k \in Nat /\ a \in Nat /\ a = Base(ClusterOf(a)) + (a % CS)
      /\ ClusterOf(a) # 0
  BY <1>2, ClusterOfSlot DEF ClusterOf
<1>10. n \in Positions
  <2>1. k <= MaxIndex - 1
    BY <1>8, FatAssumption
  <2>2. k * CS <= (MaxIndex - 1) * CS /\ k * CS >= 0
    BY <2>1, <1>9, MfsAssumption, FatAssumption
  <2> QED
    BY <2>2, <1>9, MfsAssumption, FatAssumption DEF Positions
<1>11. n \div CS = k /\ n % CS = a % CS
  BY <1>9, DivUnique
<1> HIDE DEF n
<1>12. n \in HitsOn(f, d, S)
  <2>1. SlotAt(f, d, n) = a
    BY <1>1, <1>9, <1>11 DEF SlotAt
  <2> QED
    BY <1>1, <1>2, <1>9, <1>10, <1>11, <2>1 DEF HitsOn
<1>13. m <= n /\ n \in Nat
  BY <1>4, <1>12, <1>10, PositionTyped
<1>14. m \div CS <= k
  BY <1>5, <1>11, <1>13, DivMonotone
<1>15. m \div CS = k
  <2> SUFFICES ASSUME m \div CS # k PROVE FALSE
    OBVIOUS
  <2>1. m \div CS \in 0..(k - 1)
    BY <1>5, <1>14
  <2> QED
    BY <1>1, <1>6, <1>7, <2>1 DEF Clear
<1>16. a <= b /\ ClusterOf(b) = cur
  BY <1>1, <1>6, <1>7, <1>15
<1>17. b <= a
  <2>1. m = CS * k + (b % CS) /\ n = CS * k + (a % CS)
    BY <1>5, <1>7, <1>11, <1>13, <1>15, DivMod
  <2>2. b % CS <= a % CS
    <3>1. CS * k \in Nat /\ b % CS \in 0..(CS - 1)
      BY <1>5, <1>7, <1>9, MfsAssumption
    <3> QED
      BY <1>9, <1>13, <2>1, <3>1
  <2>3. b = Base(cur) + (b % CS) /\ b \in Nat /\ b % CS \in 0..(CS - 1)
    BY <1>6, <1>16, ClusterOfSlot DEF ClusterOf
  <2>4. a = Base(cur) + (a % CS)
    BY <1>9
  <2>5. Base(cur) \in Int
    BY <2>3, <1>16, MfsAssumption DEF Base, ClusterOf
  <2> QED
    BY <1>9, <2>2, <2>3, <2>4, <2>5
<1>18. a = b
  BY <1>6, <1>9, <1>16, <1>17
<1> QED
  BY <1>3, <1>18, SearchFindsOne

(* The search for an unused index, sector by sector.                       *)
LEMMA SectorOrder ==
  ASSUME NEW i \in Nat, NEW j \in Nat, j <= i
  PROVE  (j - 2) \div SectorIndices <= (i - 2) \div SectorIndices
BY FatAssumption

(* There is a sector.                                                      *)
LEMMA FirstSector ==
  ASSUME NEW f
  PROVE  0 \in 0..(Sectors - 1) /\ Sectors \in Nat /\ Passed(f, 0)
<1>1. Sectors \in Nat \ {0}
  BY FatAssumption DEF Sectors
<1>2. \A i \in Index : ~ ((i - 2) \div SectorIndices < 0)
  BY FatAssumption DEF Index
<1> QED
  BY <1>1, <1>2 DEF Passed, Probed

(* The first index of a sector that probes empty is the one the search     *)
(* comes to, ...                                                           *)
LEMMA SectorHit ==
  ASSUME NEW n \in Nat, Passed(fat, n), NEW i \in InSector(n), \A j \in InSector(n) : i <= j
  PROVE  i \in find_empty_fat_index(fat)
<1>1. i \in Probed(fat) /\ (i - 2) \div SectorIndices = n
  BY DEF InSector
<1>2. \A j \in Probed(fat) : j \in Nat
  BY FatAssumption DEF Probed, Index
<1>3. ASSUME NEW j \in Probed(fat), j < i PROVE LastInSector(j)
  <2>1. (j - 2) \div SectorIndices <= n
    BY <1>1, <1>2, <1>3, SectorOrder
  <2>2. j \notin InSector(n)
    BY <1>1, <1>2, <1>3
  <2>3. (j - 2) \div SectorIndices # n
    BY <2>2 DEF InSector
  <2>4. (j - 2) \div SectorIndices \in Int
    BY <1>2, FatAssumption
  <2>5. (j - 2) \div SectorIndices < n
    BY <2>1, <2>3, <2>4
  <2> QED
    BY <2>5 DEF Passed
<1> QED
  BY <1>1, <1>3 DEF find_empty_fat_index

(* ... it goes on to the next when it passes over all of them, ...         *)
LEMMA SectorMiss ==
  ASSUME NEW n \in Nat, Passed(fat, n), \A i \in InSector(n) : LastInSector(i)
  PROVE  Passed(fat, n + 1)
<1> SUFFICES ASSUME NEW i \in Probed(fat), (i - 2) \div SectorIndices < n + 1
             PROVE  LastInSector(i)
  BY DEF Passed
<1>1. (i - 2) \div SectorIndices \in Int
  BY FatAssumption DEF Probed, Index
<1>2. CASE (i - 2) \div SectorIndices < n
  BY <1>2 DEF Passed
<1>3. CASE (i - 2) \div SectorIndices = n
  BY <1>3 DEF InSector
<1> QED
  BY <1>1, <1>2, <1>3

(* ... and after the last it has found none.                               *)
LEMMA SectorsEnd ==
  ASSUME NEW n \in Nat, Passed(fat, n), n >= Sectors
  PROVE  0 \in find_empty_fat_index(fat)
<1>1. ASSUME NEW i \in Probed(fat) PROVE LastInSector(i)
  <2>1. i \in Nat /\ 2 <= i /\ i <= MaxIndex
    BY FatAssumption DEF Probed, Index
  <2>2. SectorIndices \in Nat /\ SectorIndices > 0 /\ MaxIndex - 1 \in Nat
    BY FatAssumption
  <2>3. (MaxIndex - 1) = SectorIndices * Sectors
    BY FatAssumption DEF Sectors
  <2>4. Sectors \in Nat
    BY FirstSector
  <2>5. i - 2 < SectorIndices * Sectors
    BY <2>1, <2>2, <2>3, FatAssumption
  <2>6. (i - 2) \div SectorIndices < Sectors
    <3>1. PICK m \in Nat : m = i - 2
      BY <2>1
    <3>2. m < SectorIndices * Sectors
      BY <2>5, <3>1
    <3>3. m \div SectorIndices < Sectors
      <4>1. m = SectorIndices * (m \div SectorIndices) + (m % SectorIndices)
            /\ m % SectorIndices \in 0..(SectorIndices - 1) /\ m \div SectorIndices \in Nat
        BY <2>2
      <4>2. PICK q \in Nat : q = m \div SectorIndices
        BY <4>1
      <4>3. SectorIndices * q <= m
        BY <2>2, <4>1, <4>2
      <4> SUFFICES ASSUME q >= Sectors PROVE FALSE
        BY <4>2, <2>4
      <4>4. SectorIndices * q >= SectorIndices * Sectors
        BY <2>2, <2>4, <4>2
      <4> QED
        BY <2>2, <2>4, <3>2, <4>2, <4>3, <4>4
    <3> QED
      BY <3>1, <3>3
  <2>7. (i - 2) \div SectorIndices < n
    BY <2>1, <2>2, <2>4, <2>6
  <2> QED
    BY <2>7 DEF Passed
<1> QED
  BY <1>1 DEF find_empty_fat_index

-----------------------------------------------------------------------------
(* The call c goes on as q; what two calls have in common.                 *)
Goes(c, q) == calls' = [calls EXCEPT ![c] = q] /\ seen' = seen /\ status' = status
SameBut(q, x) ==
  /\ q.kind = x.kind /\ q.path = x.path /\ q.name = x.name /\ q.off = x.off /\ q.buf = x.buf
  /\ q.making = x.making /\ q.n = x.n /\ q.cur = x.cur /\ q.prev = x.prev /\ q.dir = x.dir
  /\ q.head = x.head /\ q.at = x.at /\ q.de = x.de /\ q.copy = x.copy
SameCall(q, r) ==
  /\ DOMAIN q = Fields
  /\ q.kind = r.kind /\ q.path = r.path /\ q.name = r.name /\ q.off = r.off /\ q.buf = r.buf
  /\ q.making = r.making

(* The next transfer of a call.                                            *)
LEMMA Going ==
  ASSUME NEW c, NEW x, DOMAIN x = Fields, NEW io, NEW pc, Go(c, x, io, pc), status' = status
  PROVE  \E q : Goes(c, q) /\ DOMAIN q = Fields /\ q.pc = pc /\ SameBut(q, x)
<1>1. PICK q : q = [x EXCEPT !.io = io, !.pc = pc]
  OBVIOUS
<1>2. DOMAIN q = Fields
  BY <1>1
<1>3. q.pc = pc /\ SameBut(q, x)
  BY <1>1 DEF SameBut, Fields
<1> QED
  BY <1>1, <1>2, <1>3 DEF Go, Goes

(* What a call has made of f0, d0 when it returns: nothing; one entry; or  *)
(* a write. These are the actions of Mfs with the volume as parameters.    *)
MadeInto(f0, d0, p, n, attr, head, g, dk, st) ==
  LET f == write_in_fat_index(f0, head, EndMark)
      d == get_cluster_number(f0, d0, p)
      de == Dirent(attr, n, head, 0)
  IN  \/ d = 0 /\ g = f /\ dk = d0 /\ st = "wrecked"
      \/ /\ d # 0 /\ g = f /\ st = "ok"
         /\ \E a \in FirstOnChain(f, d, Free(d0)) : dk = [d0 EXCEPT ![a] = de]
      \/ /\ d # 0 /\ FirstOnChain(f, d, Free(d0)) = {}
         /\ \E tail \in Cluster, new \in find_empty_fat_index(f) :
              /\ tail \in Chain(f, d) /\ f[tail] = EndMark
              /\ g = Extended(f, tail, new)
              /\ IF new = 0 THEN dk = d0 /\ st = "wrecked"
                 ELSE dk = [d0 EXCEPT ![Base(new)] = de] /\ st = "ok"
ArrivedAt(f0, h, off, g, cl) ==
  \/ g = f0 /\ cl = Walk(f0, h)[off \div CS]
  \/ \E tail \in Cluster :
       /\ f0[tail] = EndMark
       /\ \E k \in 0..(off \div CS - 1) : Walk(f0, h)[k] = tail
       /\ cl \in find_empty_fat_index(f0)
       /\ g = Extended(f0, tail, cl)
WroteInto(f0, d0, d, n, a, off, buf, cl, g, dk, st) ==
  LET v == valid_len(Len(buf), off % CS)
      at == Base(cl) + (off % CS)
  IN  IF cl = 0 \/ v < 0 THEN dk = d0 /\ st = "wrecked"
      ELSE /\ st = "ok"
           /\ dk = alloc_new_entry(g, [b \in Addr |-> IF b \in at..(at + v - 1)
                                                     THEN Datum(buf[b - at + 1]) ELSE d0[b]],
                                   d, n, [d0[a] EXCEPT !.size = @ + v])
Outcome(f0, d0, g, dk, st) ==
  \/ g = f0 /\ dk = d0 /\ st = "ok"
  \/ \E p \in Paths, n \in Names, attr \in FileOrDir, head \in find_empty_fat_index(f0) :
       /\ IsDir(f0, d0, p) /\ Find(f0, d0, p, n) = {}
       /\ MadeInto(f0, d0, p, n, attr, head, g, dk, st)
  \/ \E p \in Paths, n \in Names, off \in 0..MaxSize, buf \in Buffers :
       LET d == get_cluster_number(f0, d0, p) IN
       /\ IsDir(f0, d0, p)
       /\ \E a \in get_dentry(f0, d0, d, n), cl \in Cluster :
            /\ MayWrite(d0[a], off, buf)
            /\ ArrivedAt(f0, d0[a].head, off, g, cl)
            /\ WroteInto(f0, d0, d, n, a, off, buf, cl, g, dk, st)

(* What a transfer does: the call goes on, or it returns.                  *)
Moves(f0, d0, c) == \E q : Goes(c, q) /\ Progress(f0, d0, fat', disk', q)
Returns(f0, d0, c) == Return(c) /\ Outcome(f0, d0, fat', disk', status')
Ready(f0, d0, r) ==
  Apart(f0, d0) /\ status = "ok" /\ Asked(f0, d0, r) /\ Doing(f0, d0, fat, disk, r)

(* A call that goes on is still the same call.                             *)
LEMMA Moving ==
  ASSUME NEW f0, NEW d0, NEW c, NEW r, Asked(f0, d0, r), NEW q, SameCall(q, r), Goes(c, q),
         Doing(f0, d0, fat', disk', q)
  PROVE  Moves(f0, d0, c)
<1>1. Asked(f0, d0, q)
  BY DEF Asked, SameCall, Opened, Leads
<1> QED
  BY <1>1 DEF Moves, Progress

(* What a call is doing is told by its next transfer.                      *)
LEMMA Phases ==
  ASSUME NEW f0, NEW d0, NEW f, NEW dk, NEW r, Doing(f0, d0, f, dk, r)
  PROVE  /\ r.pc \in {"route", "route_next"} => dk = d0 /\ f = f0 /\ Routing(f0, d0, r)
         /\ r.pc \in {"lookup", "lookup_next"} => dk = d0 /\ f = f0 /\ Looking(f0, d0, r)
         /\ r.pc \in {"dentry", "dentry_next"} => dk = d0 /\ f = f0 /\ Opening(f0, d0, r)
         /\ r.pc = "find" => dk = d0 /\ f = f0 /\ Finding(f0, d0, r)
         /\ r.pc = "mark" => dk = d0 /\ f = f0 /\ Marking(f0, d0, r)
         /\ r.pc = "walk" => dk = d0 /\ f = f0 /\ Behind(f0, d0, r)
         /\ r.pc \in {"alloc", "alloc_next"} => dk = d0 /\ Allocating(f0, d0, f, r)
         /\ r.pc \in {"grow", "link", "mark_new"} => dk = d0 /\ Grows(f0, d0, f, r)
         /\ r.pc = "entry" => dk = d0 /\ Entering(f0, d0, f, r)
         /\ r.pc = "data" => dk = d0 /\ Storing(f0, d0, f, r)
         /\ r.pc \in {"reread", "reread_next", "update"} => Updating(f0, d0, f, dk, r)
<1>1. Routing(f0, d0, r) => r.pc \in {"route", "route_next"}
  BY DEF Routing, Searching
<1>2. Looking(f0, d0, r) => r.pc \in {"lookup", "lookup_next"}
  BY DEF Looking, Searching
<1>3. Opening(f0, d0, r) => r.pc \in {"dentry", "dentry_next"}
  BY DEF Opening, Searching
<1>4. /\ Finding(f0, d0, r) => r.pc = "find"
      /\ Marking(f0, d0, r) => r.pc = "mark"
      /\ Behind(f0, d0, r) => r.pc = "walk"
      /\ Entering(f0, d0, f, r) => r.pc = "entry"
      /\ Storing(f0, d0, f, r) => r.pc = "data"
  BY DEF Finding, Marking, Behind, Entering, Storing
<1>5. Allocating(f0, d0, f, r) => r.pc \in {"alloc", "alloc_next"}
  BY DEF Allocating, Searching
<1>6. Grows(f0, d0, f, r) => r.pc \in {"grow", "link", "mark_new"}
  BY DEF Grows
<1>7. Updating(f0, d0, f, dk, r) => r.pc \in {"reread", "reread_next", "update"}
  BY DEF Updating, Searching
<1> QED
  BY <1>1, <1>2, <1>3, <1>4, <1>5, <1>6, <1>7 DEF Doing, Reading

(* What follows a transfer that reads a cluster, or the index after it.    *)
LEMMA NextRead ==
  /\ IndexAfter("route") = "route_next" /\ IndexAfter("lookup") = "lookup_next"
  /\ IndexAfter("dentry") = "dentry_next" /\ IndexAfter("reread") = "reread_next"
  /\ IndexAfter("alloc") = "alloc_next"
  /\ ClusterAfter("route_next") = "route" /\ ClusterAfter("lookup_next") = "lookup"
  /\ ClusterAfter("dentry_next") = "dentry" /\ ClusterAfter("reread_next") = "reread"
  /\ ClusterAfter("alloc_next") = "alloc"
<1> USE DEF IndexReads, ClusterReads, Pairs
<1>1. IndexAfter("route") = "route_next" /\ IndexAfter("lookup") = "lookup_next"
  BY DEF IndexAfter
<1>2. IndexAfter("dentry") = "dentry_next" /\ IndexAfter("reread") = "reread_next"
  BY DEF IndexAfter
<1>3. IndexAfter("alloc") = "alloc_next"
  BY DEF IndexAfter
<1>4. ClusterAfter("route_next") = "route" /\ ClusterAfter("lookup_next") = "lookup"
  BY DEF ClusterAfter
<1>5. ClusterAfter("dentry_next") = "dentry" /\ ClusterAfter("reread_next") = "reread"
  BY DEF ClusterAfter
<1>6. ClusterAfter("alloc_next") = "alloc"
  BY DEF ClusterAfter
<1> QED
  BY <1>1, <1>2, <1>3, <1>4, <1>5, <1>6

(* The directory a call works in.                                          *)
LEMMA CallDir ==
  ASSUME NEW f0, NEW d0, NEW r, Apart(f0, d0), Asked(f0, d0, r)
  PROVE  LET d == Leads(f0, d0, r) IN
         /\ d \in HeadsOf(d0) /\ d \in Cluster /\ Ends(f0, d)
         /\ f0 \in Table /\ d0 \in [Addr -> Slot]
         /\ Len(r.path) \in Nat /\ Prefix(r.path, Len(r.path)) = r.path
         /\ \A k \in 0..Len(r.path) :
              LET e == get_cluster_number(f0, d0, Prefix(r.path, k)) IN
              e \in HeadsOf(d0) /\ e \in Cluster /\ Ends(f0, e)
<1>1. r.path \in Paths /\ IsDir(f0, d0, r.path)
  BY DEF Asked
<1>2. Leads(f0, d0, r) \in HeadsOf(d0)
      /\ \A k \in 0..Len(r.path) : get_cluster_number(f0, d0, Prefix(r.path, k)) \in HeadsOf(d0)
  BY <1>1, PathLeadsToHead DEF Leads
<1>3. \A d \in HeadsOf(d0) : d \in Cluster /\ Ends(f0, d)
  BY HeadChain
<1>4. Len(r.path) \in Nat /\ Prefix(r.path, Len(r.path)) = r.path
  BY <1>1, PathTyped
<1>5. f0 \in Table /\ d0 \in [Addr -> Slot]
  BY DEF Apart
<1> QED
  BY <1>2, <1>3, <1>4, <1>5

(* The table with the head of a new entry marked.                          *)
LEMMA MarkedIs ==
  ASSUME NEW f, NEW dk, Apart(f, dk), NEW head \in find_empty_fat_index(f)
  PROVE  LET g == write_in_fat_index(f, head, EndMark)
             H == HeadsOf(dk) \cup {head}
         IN  /\ g \in Table /\ H \in SUBSET Cluster /\ ChainsApart(g, H)
             /\ \A d \in HeadsOf(dk) \ {0} :
                  Ends(g, d) /\ Walk(g, d) = Walk(f, d) /\ Chain(g, d) = Chain(f, d)
<1> DEFINE g == write_in_fat_index(f, head, EndMark)
           H == HeadsOf(dk) \cup {head}
<1>1. f \in Table /\ HeadsOf(dk) \in SUBSET Cluster /\ ChainsApart(f, HeadsOf(dk))
  BY HeadsTyped DEF Apart
<1>2. g \in Table /\ head \in Cluster
  BY <1>1, WriteKeepsTable, FoundIsUnused
<1>3. ChainsApart(g, H) /\ H \in SUBSET Cluster
  BY <1>1, <1>2, MarkKeepsApart
<1>4. \A d \in HeadsOf(dk) \ {0} : Walk(g, d) = Walk(f, d) /\ Chain(g, d) = Chain(f, d)
  BY <1>1, MarkedChain
<1>5. \A d \in H : Ends(g, d)
  BY <1>2, <1>3, WalkEnds
<1> QED
  BY <1>2, <1>3, <1>4, <1>5

(* The table with a chain grown.                                           *)
LEMMA GrownIs ==
  ASSUME NEW f \in Table, NEW H \in SUBSET Cluster, ChainsApart(f, H),
         NEW tail \in Cluster, f[tail] = EndMark, NEW new \in find_empty_fat_index(f), new # 0
  PROVE  LET g == Extended(f, tail, new) IN
         /\ g \in Table /\ ChainsApart(g, H) /\ new \in Index /\ f[new] = 0
         /\ \A d \in H : Ends(g, d) /\ KeepsWalk(f, g, d)
<1> DEFINE g == Extended(f, tail, new)
<1>1. new \in Index /\ f[new] = 0 /\ new \in Cluster
  BY FoundIsUnused
<1>2. g \in Table /\ ChainsApart(g, H)
  BY <1>1, ExtendedIsTable, ExtendKeepsApart
<1>3. \A d \in H : Ends(g, d)
  BY <1>2, WalkEnds
<1>4. \A d \in H : KeepsWalk(f, g, d)
  BY <1>1, ExtendedWalk
<1> QED
  BY <1>1, <1>2, <1>3, <1>4

-----------------------------------------------------------------------------
(* A path has been resolved.                                               *)
LEMMA Arriving ==
  ASSUME NEW f0, NEW d0, NEW c, NEW r, Ready(f0, d0, r), fat = f0, disk = d0, Unwritten,
         Arrive(c, r, Leads(f0, d0, r))
  PROVE  Moves(f0, d0, c)
<1> DEFINE d == Leads(f0, d0, r)
           x == [r EXCEPT !.dir = d, !.cur = d, !.n = 0]
           pc == IF r.kind = "write" THEN "dentry" ELSE IF r.making THEN "find" ELSE "lookup"
<1>1. Asked(f0, d0, r) /\ Apart(f0, d0) /\ DOMAIN r = Fields
  BY DEF Ready, Asked
<1>2. d \in Cluster
  BY <1>1, CallDir
<1>3. DOMAIN x = Fields /\ x.dir = d /\ x.cur = d /\ x.n = 0 /\ SameCall(x, r)
  BY <1>1 DEF Fields, SameCall
<1>4. Go(c, x, "sb", pc) /\ status' = status /\ fat' = f0 /\ disk' = d0
  BY DEF Arrive, Goto, Unwritten
<1> HIDE DEF x
<1>5. PICK q : Goes(c, q) /\ DOMAIN q = Fields /\ q.pc = pc /\ SameBut(q, x)
  <2> HIDE DEF pc
  <2> QED
    BY <1>3, <1>4, Going
<1>6. SameCall(q, r) /\ q.dir = d /\ q.cur = d /\ q.n = 0 /\ d = Leads(f0, d0, q)
  BY <1>3, <1>5 DEF SameCall, SameBut, Leads
<1>7. \A S : Comes(f0, d, S, d)
  BY <1>2, SearchStarts
<1>8. Reading(f0, d0, q)
  <2>1. CASE r.kind = "write"
    <3>1. Opening(f0, d0, q)
      BY <1>5, <1>6, <1>7, <2>1 DEF Opening, Searching, SameCall
    <3> QED
      BY <3>1 DEF Reading
  <2>2. CASE r.kind # "write" /\ r.making
    <3>1. Finding(f0, d0, q)
      BY <1>5, <1>6, <2>2, FirstSector DEF Finding, SameCall
    <3> QED
      BY <3>1 DEF Reading
  <2>3. CASE r.kind # "write" /\ ~r.making
    <3>1. r.kind \in FileOrDir
      BY <1>1, <2>3 DEF Asked
    <3>2. Looking(f0, d0, q)
      BY <1>5, <1>6, <1>7, <2>3, <3>1 DEF Looking, Searching, SameCall
    <3> QED
      BY <3>2 DEF Reading
  <2> QED
    BY <2>1, <2>2, <2>3
<1>9. Doing(f0, d0, fat', disk', q)
  BY <1>4, <1>8 DEF Doing
<1> QED
  BY <1>1, <1>5, <1>6, <1>9, Moving

(* get_cluster_number has come to the end of the path.                     *)
LEMMA RouteEnds ==
  ASSUME NEW f0, NEW d0, NEW c, NEW r, Ready(f0, d0, r), RouteEnd(c, r)
  PROVE  Moves(f0, d0, c)
<1>1. disk = d0 /\ fat = f0 /\ Routing(f0, d0, r) /\ r.n = Len(r.path) /\ r.pc = "route"
  BY Phases DEF RouteEnd, Ready
<1>2. Len(r.path) \in Nat /\ Prefix(r.path, Len(r.path)) = r.path
  BY CallDir DEF Ready
<1>3. r.cur = Leads(f0, d0, r)
  BY <1>1, <1>2 DEF Routing, Leads
<1> QED
  BY <1>1, <1>3, Arriving DEF RouteEnd

(* Whatever a search is for, a cluster without it is passed, ...           *)
LEMMA ReadsOn ==
  ASSUME NEW f0, NEW d0, NEW r, Ready(f0, d0, r), Hits(r) = {}, NEW d, NEW S,
         Sought(r) = S, S \subseteq Addr, Comes(fat, d, S, r.cur)
  PROVE  Passes(fat, d, S, r.cur)
<1>1. ASSUME NEW a \in S, ClusterOf(a) = r.cur PROVE FALSE
  <2> DEFINE here == {b \in S : ClusterOf(b) = r.cur}
  <2>1. here \in SUBSET Nat /\ here # {}
    BY <1>1, ClusterOfSlot
  <2>2. PICK m \in here : \A k \in here : m <= k
    BY <2>1, LeastNumber
  <2>3. r.cur # 0
    BY <1>1, ClusterOfSlot DEF ClusterOf
  <2>4. m \in Hits(r)
    BY <2>2, <2>3 DEF Hits, ClusterOf
  <2> QED
    BY <2>4
<1> QED
  BY <1>1, SearchPasses

(* ... and the first slot that has it is what the search finds.            *)
LEMMA ReadsHit ==
  ASSUME NEW r, NEW a \in Hits(r), NEW d \in Cluster, NEW S,
         Sought(r) = S, S \subseteq Addr, Comes(fat, d, S, r.cur), fat \in Table, Ends(fat, d)
  PROVE  FirstOnChain(fat, d, S) = {a} /\ ClusterOf(a) = r.cur /\ r.cur # 0 /\ r.cur \in Index
         /\ a \in S
<1>1. a \in S /\ r.cur # 0 /\ ClusterOf(a) = r.cur /\ \A b \in S : ClusterOf(b) = r.cur => a <= b
  BY DEF Hits, ClusterOf
<1>2. FirstOnChain(fat, d, S) = {a}
  BY <1>1, SearchMeets
<1>3. ClusterOf(a) \in Index
  BY <1>2, SearchOnChain DEF ClusterOf
<1> QED
  BY <1>1, <1>2, <1>3

(* What each search looks for.                                             *)
LEMMA SoughtIs ==
  ASSUME NEW r
  PROVE  /\ r.pc = "route" => Sought(r) = Named(disk, {"dir"}, r.path[r.n + 1])
         /\ r.pc = "lookup" => Sought(r) = Named(disk, FileOrDir, r.name)
         /\ r.pc = "alloc" => Sought(r) = Free(disk)
         /\ r.pc \in {"dentry", "reread"} => Sought(r) = Named(disk, {"file"}, r.name)
         /\ \A attrs, n : Named(disk, attrs, n) \subseteq Addr
         /\ Free(disk) \subseteq Addr
BY DEF Sought, Named, Free

(* get_cluster_number reads a cluster of a directory on its path.          *)
LEMMA RouteReads ==
  ASSUME NEW f0, NEW d0, NEW c, NEW r, Ready(f0, d0, r), ReadCluster(c, r), r.pc = "route"
  PROVE  Moves(f0, d0, c)
<1>1. /\ disk = d0 /\ fat = f0 /\ Routing(f0, d0, r) /\ r.n < Len(r.path)
      /\ Asked(f0, d0, r) /\ Apart(f0, d0)
  BY Phases DEF ReadCluster, Ready
<1>2. r.path \in Paths /\ IsDir(f0, d0, r.path) /\ DOMAIN r = Fields
  BY <1>1 DEF Asked
<1>3. PICK d : d = get_cluster_number(f0, d0, Prefix(r.path, r.n))
  OBVIOUS
<1>4. PICK S : S = Named(d0, {"dir"}, r.path[r.n + 1])
  OBVIOUS
<1>5. /\ r.n \in 0..Len(r.path) /\ r.n \in Nat /\ Len(r.path) \in Nat
      /\ d \in Cluster /\ Ends(f0, d) /\ f0 \in Table
  BY <1>1, <1>3, CallDir DEF Routing
<1>6. Comes(f0, d, S, r.cur)
  BY <1>1, <1>3, <1>4, <1>5 DEF Routing, Searching
<1>7. Sought(r) = S /\ S \subseteq Addr
  BY <1>1, <1>4, SoughtIs
<1>8. ASSUME NEW a \in Hits(r), Unwritten, Hit(c, r, a) PROVE Moves(f0, d0, c)
  <2>1. PICK x : x = [r EXCEPT !.n = @ + 1, !.cur = disk[a].head]
    OBVIOUS
  <2>2. Go(c, x, "sb", "route") /\ status' = status /\ fat' = f0 /\ disk' = d0
    BY <1>1, <1>8, <2>1 DEF Hit, Goto, Unwritten
  <2>3. DOMAIN x = Fields /\ x.n = r.n + 1 /\ x.cur = d0[a].head /\ SameCall(x, r)
    BY <1>1, <1>2, <2>1 DEF Fields, SameCall
  <2>4. PICK q : Goes(c, q) /\ DOMAIN q = Fields /\ q.pc = "route" /\ SameBut(q, x)
    BY <2>2, <2>3, Going
  <2>5. SameCall(q, r) /\ q.n = r.n + 1 /\ q.cur = d0[a].head
    BY <2>3, <2>4 DEF SameCall, SameBut
  <2>6. FirstOnChain(f0, d, S) = {a}
    BY <1>1, <1>5, <1>6, <1>7, <1>8, ReadsHit
  <2>7. r.n + 1 \in 1..Len(r.path) /\ (r.n + 1) - 1 = r.n /\ r.n + 1 \in 0..Len(r.path)
    BY <1>1, <1>5
  <2>8. PICK b \in EntriesOf(d0) :
          /\ b \in FirstOnChain(f0, d, S)
          /\ get_cluster_number(f0, d0, Prefix(r.path, r.n + 1)) = d0[b].head
    <3>1. PICK m : m = r.n + 1
      OBVIOUS
    <3>2. m \in 1..Len(r.path) /\ m - 1 = r.n
      BY <2>7, <3>1
    <3>3. PICK p : p = r.path
      OBVIOUS
    <3>4. p \in Paths /\ IsDir(f0, d0, p) /\ m \in 1..Len(p)
      BY <1>2, <3>2, <3>3
    <3>5. PICK b \in EntriesOf(d0) :
             LET e == get_cluster_number(f0, d0, Prefix(p, m - 1)) IN
             /\ d0[b].attr = "dir" /\ d0[b].name = p[m]
             /\ b \in FirstOnChain(f0, e, Named(d0, FileOrDir, p[m]))
             /\ b \in FirstOnChain(f0, e, Named(d0, {"dir"}, p[m]))
             /\ get_cluster_number(f0, d0, Prefix(p, m)) = d0[b].head
      BY <3>4, RouteFinds
    <3> QED
      BY <1>3, <1>4, <3>1, <3>2, <3>3, <3>5
  <2>9. q.cur = get_cluster_number(f0, d0, Prefix(r.path, q.n)) /\ q.cur \in Cluster
    <3>1. a = b
      BY <2>6, <2>8
    <3>2. \A k \in 0..Len(r.path) : get_cluster_number(f0, d0, Prefix(r.path, k)) \in Cluster
      BY <1>1, CallDir
    <3> QED
      BY <2>5, <2>7, <2>8, <3>1, <3>2
  <2>10. Routing(f0, d0, q)
    <3>1. q.path = r.path /\ q.n \in 0..Len(q.path) /\ q.n \in Nat
      BY <1>5, <2>5, <2>7 DEF SameCall
    <3>2. \A T : Comes(f0, q.cur, T, q.cur)
      BY <2>9, SearchStarts
    <3>3. CASE q.n = Len(q.path)
      BY <2>4, <2>9, <3>1, <3>3 DEF Routing
    <3>4. CASE q.n # Len(q.path)
      <4>1. q.n < Len(q.path)
        BY <1>5, <3>1, <3>4
      <4> QED
        BY <2>4, <2>9, <3>1, <3>2, <4>1 DEF Routing, Searching
    <3> QED
      BY <3>3, <3>4
  <2>11. Doing(f0, d0, fat', disk', q)
    BY <2>2, <2>10 DEF Doing, Reading
  <2> QED
    BY <1>1, <2>4, <2>5, <2>11, Moving
<1>9. ASSUME Hits(r) = {}, Unwritten, Goto(c, r, IndexAfter(r.pc)) PROVE Moves(f0, d0, c)
  <2>1. Go(c, r, "sb", "route_next") /\ status' = status /\ fat' = f0 /\ disk' = d0
    BY <1>1, <1>9, NextRead DEF Goto, Unwritten
  <2>2. PICK q : Goes(c, q) /\ DOMAIN q = Fields /\ q.pc = "route_next" /\ SameBut(q, r)
    BY <1>2, <2>1, Going
  <2>3. SameCall(q, r) /\ q.n = r.n /\ q.cur = r.cur /\ q.path = r.path
    BY <2>2 DEF SameCall, SameBut
  <2>4. Passes(f0, d, S, q.cur)
    BY <1>1, <1>6, <1>7, <1>9, <2>3, ReadsOn
  <2>5. Routing(f0, d0, q)
    BY <1>1, <1>3, <1>4, <1>5, <2>2, <2>3, <2>4 DEF Routing, Searching
  <2>6. Doing(f0, d0, fat', disk', q)
    BY <2>1, <2>5 DEF Doing, Reading
  <2> QED
    BY <1>1, <2>2, <2>3, <2>6, Moving
<1> QED
  BY <1>8, <1>9 DEF ReadCluster

(* mfs_lookup reads a cluster of the directory.                            *)
LEMMA LookupReads ==
  ASSUME NEW f0, NEW d0, NEW c, NEW r, Ready(f0, d0, r), ReadCluster(c, r), r.pc = "lookup"
  PROVE  Moves(f0, d0, c) \/ Returns(f0, d0, c)
<1>1. /\ disk = d0 /\ fat = f0 /\ Looking(f0, d0, r)
      /\ Asked(f0, d0, r) /\ Apart(f0, d0) /\ status = "ok"
  BY Phases DEF ReadCluster, Ready
<1>2. DOMAIN r = Fields
  BY <1>1 DEF Asked
<1>3. PICK S : S = Named(d0, FileOrDir, r.name)
  OBVIOUS
<1>4. Comes(f0, r.dir, S, r.cur)
  BY <1>1, <1>3 DEF Looking, Searching
<1>5. Sought(r) = S /\ S \subseteq Addr
  BY <1>1, <1>3, SoughtIs
<1>6. ASSUME NEW a \in Hits(r), Unwritten, Hit(c, r, a) PROVE Returns(f0, d0, c)
  BY <1>1, <1>6 DEF Hit, Returns, Outcome, Unwritten
<1>7. ASSUME Hits(r) = {}, Unwritten, Goto(c, r, IndexAfter(r.pc)) PROVE Moves(f0, d0, c)
  <2>1. Go(c, r, "sb", "lookup_next") /\ status' = status /\ fat' = f0 /\ disk' = d0
    BY <1>1, <1>7, NextRead DEF Goto, Unwritten
  <2>2. PICK q : Goes(c, q) /\ DOMAIN q = Fields /\ q.pc = "lookup_next" /\ SameBut(q, r)
    BY <1>2, <2>1, Going
  <2>3. SameCall(q, r) /\ q.cur = r.cur /\ q.dir = r.dir
    BY <2>2 DEF SameCall, SameBut
  <2>4. Passes(f0, r.dir, S, r.cur)
    BY <1>1, <1>4, <1>5, <1>7, ReadsOn
  <2>5. Looking(f0, d0, q)
    BY <1>1, <1>3, <2>2, <2>3, <2>4 DEF Looking, Searching, SameCall, Leads
  <2>6. Doing(f0, d0, fat', disk', q)
    BY <2>1, <2>5 DEF Doing, Reading
  <2> QED
    BY <1>1, <2>2, <2>3, <2>6, Moving
<1> QED
  BY <1>6, <1>7 DEF ReadCluster

(* get_dentry reads a cluster of the directory; the entry it finds tells   *)
(* write_file where the file starts.                                       *)
LEMMA DentryReads ==
  ASSUME NEW f0, NEW d0, NEW c, NEW r, Ready(f0, d0, r), ReadCluster(c, r), r.pc = "dentry"
  PROVE  Moves(f0, d0, c)
<1>1. /\ disk = d0 /\ fat = f0 /\ Opening(f0, d0, r)
      /\ Asked(f0, d0, r) /\ Apart(f0, d0) /\ status = "ok"
  BY Phases DEF ReadCluster, Ready
<1>2. DOMAIN r = Fields /\ r.kind = "write" /\ r.dir = Leads(f0, d0, r)
      /\ ~r.making /\ r.off \in 0..MaxSize
  BY <1>1 DEF Asked, Opening
<1>3. PICK S : S = Named(d0, {"file"}, r.name)
  OBVIOUS
<1>4. Comes(f0, r.dir, S, r.cur)
  BY <1>1, <1>3 DEF Opening, Searching
<1>5. Sought(r) = S /\ S \subseteq Addr
  BY <1>1, <1>3, SoughtIs
<1>6. ASSUME NEW a \in Hits(r), Unwritten, Hit(c, r, a) PROVE Moves(f0, d0, c)
  <2>1. FirstOnChain(f0, r.dir, S) = {a} /\ a \in S
    <3>1. r.dir \in Cluster /\ Ends(f0, r.dir) /\ f0 \in Table
      BY <1>1, <1>2, CallDir
    <3> QED
      BY <1>1, <1>4, <1>5, <1>6, <3>1, ReadsHit
  <2>2. a \in Opened(f0, d0, r)
    BY <1>2, <1>3, <2>1 DEF Opened, get_dentry
  <2>3. PICK h : h = d0[a].head
    OBVIOUS
  <2>4. h \in Cluster /\ Walk(f0, h)[0] = h /\ h # EndMark /\ 0 \in 0..MaxIndex
    <3>1. a \in EntriesOf(d0)
      BY <1>3, <2>1 DEF Named, EntriesOf, FileOrDir
    <3>2. h \in Cluster
      BY <1>1, <2>3, <3>1, EntriesTyped DEF Apart
    <3> QED
      BY <3>2, WalkStep, NotAnIndex, FatAssumption
  <2>5. CASE r.off >= CS
    <3>1. PICK x : x = [r EXCEPT !.de = disk[a], !.cur = disk[a].head, !.n = 0]
      OBVIOUS
    <3>2. Go(c, x, "sb", "walk") /\ status' = status /\ fat' = f0 /\ disk' = d0
      BY <1>1, <1>6, <2>5, <3>1 DEF Hit, Goto, Unwritten
    <3>3. DOMAIN x = Fields /\ x.de = d0[a] /\ x.cur = h /\ x.n = 0 /\ SameCall(x, r)
          /\ x.dir = r.dir
      BY <1>1, <1>2, <2>3, <3>1 DEF Fields, SameCall
    <3>4. PICK q : Goes(c, q) /\ DOMAIN q = Fields /\ q.pc = "walk" /\ SameBut(q, x)
      BY <3>2, <3>3, Going
    <3>5. SameCall(q, r) /\ q.de = d0[a] /\ q.cur = h /\ q.n = 0 /\ q.dir = r.dir
      BY <3>3, <3>4 DEF SameCall, SameBut
    <3>6. Has(f0, d0, q)
      BY <1>2, <2>2, <3>5 DEF Has, SameCall, Opened, Leads
    <3>7. q.off >= (q.n + 1) * CS
      BY <2>5, <3>5, MfsAssumption DEF SameCall
    <3>8. Behind(f0, d0, q)
      BY <2>3, <2>4, <3>4, <3>5, <3>6, <3>7 DEF Behind
    <3>9. Doing(f0, d0, fat', disk', q)
      BY <3>2, <3>8 DEF Doing, Reading
    <3> QED
      BY <1>1, <3>4, <3>5, <3>9, Moving
  <2>6. CASE ~ (r.off >= CS)
    <3>1. PICK x : x = [[r EXCEPT !.de = disk[a], !.cur = disk[a].head, !.n = 0] EXCEPT
                          !.cur = disk[a].head, !.at = Base(disk[a].head) + (r.off % CS)]
      OBVIOUS
    <3>2. Go(c, x, "sb", "data") /\ status' = status /\ fat' = f0 /\ disk' = d0
      <4>1. PICK y : y = [r EXCEPT !.de = disk[a], !.cur = disk[a].head, !.n = 0]
        OBVIOUS
      <4>2. y.cur = disk[a].head /\ y.off = r.off
        BY <1>2, <4>1 DEF Fields
      <4>3. ToData(c, y, y.cur)
        BY <1>1, <1>6, <2>6, <4>1 DEF Hit
      <4>4. ToData(c, y, disk[a].head)
        BY <4>2, <4>3
      <4> QED
        BY <1>1, <1>6, <3>1, <4>1, <4>2, <4>4 DEF ToData, Goto, Unwritten
    <3>3. DOMAIN x = Fields /\ x.de = d0[a] /\ x.cur = h /\ SameCall(x, r) /\ x.dir = r.dir
          /\ x.at = Base(h) + (r.off % CS)
      BY <1>1, <1>2, <2>3, <3>1 DEF Fields, SameCall
    <3>4. PICK q : Goes(c, q) /\ DOMAIN q = Fields /\ q.pc = "data" /\ SameBut(q, x)
      BY <3>2, <3>3, Going
    <3>5. SameCall(q, r) /\ q.de = d0[a] /\ q.cur = h /\ q.dir = r.dir
          /\ q.at = Base(h) + (r.off % CS)
      BY <3>3, <3>4 DEF SameCall, SameBut
    <3>6. Has(f0, d0, q)
      BY <1>2, <2>2, <3>5 DEF Has, SameCall, Opened, Leads
    <3>7. q.off = r.off /\ q.off \div CS = 0
      BY <1>2, <2>6, <3>5, MfsAssumption DEF SameCall
    <3>8. Reached(f0, d0, f0, q, q.cur)
      BY <2>3, <2>4, <3>5, <3>7 DEF Reached
    <3>9. Storing(f0, d0, f0, q)
      BY <3>4, <3>5, <3>6, <3>7, <3>8 DEF Storing
    <3>10. Doing(f0, d0, fat', disk', q)
      BY <3>2, <3>9 DEF Doing
    <3> QED
      BY <1>1, <3>4, <3>5, <3>10, Moving
  <2> QED
    BY <2>5, <2>6
<1>7. ASSUME Hits(r) = {}, Unwritten, Goto(c, r, IndexAfter(r.pc)) PROVE Moves(f0, d0, c)
  <2>1. Go(c, r, "sb", "dentry_next") /\ status' = status /\ fat' = f0 /\ disk' = d0
    BY <1>1, <1>7, NextRead DEF Goto, Unwritten
  <2>2. PICK q : Goes(c, q) /\ DOMAIN q = Fields /\ q.pc = "dentry_next" /\ SameBut(q, r)
    BY <1>2, <2>1, Going
  <2>3. SameCall(q, r) /\ q.cur = r.cur /\ q.dir = r.dir
    BY <2>2 DEF SameCall, SameBut
  <2>4. Passes(f0, r.dir, S, r.cur)
    BY <1>1, <1>4, <1>5, <1>7, ReadsOn
  <2>5. Opening(f0, d0, q)
    BY <1>1, <1>3, <2>2, <2>3, <2>4 DEF Opening, Searching, SameCall, Leads
  <2>6. Doing(f0, d0, fat', disk', q)
    BY <2>1, <2>5 DEF Doing, Reading
  <2> QED
    BY <1>1, <2>2, <2>3, <2>6, Moving
<1> QED
  BY <1>6, <1>7 DEF ReadCluster

(* How a creation ends.                                                    *)
LEMMA MakeEnds ==
  ASSUME NEW f0, NEW d0, NEW c, NEW r, Asked(f0, d0, r), Making(f0, d0, r), Return(c),
         MadeInto(f0, d0, r.path, r.name, r.kind, r.head, fat', disk', status')
  PROVE  Returns(f0, d0, c)
<1>1. PICK p, n, attr, head : p = r.path /\ n = r.name /\ attr = r.kind /\ head = r.head
  OBVIOUS
<1>2. p \in Paths /\ n \in Names /\ attr \in FileOrDir /\ IsDir(f0, d0, p)
      /\ Find(f0, d0, p, n) = {} /\ head \in find_empty_fat_index(f0)
  BY <1>1 DEF Asked, Making
<1>3. MadeInto(f0, d0, p, n, attr, head, fat', disk', status')
  BY <1>1
<1>4. Outcome(f0, d0, fat', disk', status')
  BY <1>2, <1>3 DEF Outcome
<1> QED
  BY <1>4 DEF Returns

(* The table while a creation looks for a slot, and until it has grown.    *)
LEMMA MakingTable ==
  ASSUME NEW f0, NEW d0, NEW r, Apart(f0, d0), Asked(f0, d0, r), Making(f0, d0, r)
  PROVE  LET g == Marked(f0, r) IN
         /\ g = write_in_fat_index(f0, r.head, EndMark) /\ g \in Table
         /\ r.dir \in HeadsOf(d0) /\ r.dir \in Cluster
         /\ HeadsOf(d0) \cup {r.head} \in SUBSET Cluster
         /\ ChainsApart(g, HeadsOf(d0) \cup {r.head})
         /\ r.dir # 0 => Ends(g, r.dir) /\ Walk(g, r.dir) = Walk(f0, r.dir)
                         /\ Chain(g, r.dir) = Chain(f0, r.dir)
<1>1. PICK head : head = r.head
  OBVIOUS
<1>2. head \in find_empty_fat_index(f0) /\ r.making /\ r.dir = Leads(f0, d0, r)
  BY <1>1 DEF Making
<1>3. Marked(f0, r) = write_in_fat_index(f0, head, EndMark)
  BY <1>1, <1>2 DEF Marked
<1>4. r.dir \in HeadsOf(d0) /\ r.dir \in Cluster
  BY <1>2, CallDir
<1> QED
  BY <1>1, <1>2, <1>3, <1>4, MarkedIs

(* alloc_new_dirent reads a cluster of the directory.                      *)
LEMMA AllocReads ==
  ASSUME NEW f0, NEW d0, NEW c, NEW r, Ready(f0, d0, r), ReadCluster(c, r), r.pc = "alloc"
  PROVE  Moves(f0, d0, c) \/ Returns(f0, d0, c)
<1>1. /\ disk = d0 /\ Allocating(f0, d0, fat, r)
      /\ Asked(f0, d0, r) /\ Apart(f0, d0) /\ status = "ok"
  BY Phases DEF ReadCluster, Ready
<1>2. DOMAIN r = Fields /\ Making(f0, d0, r) /\ fat = Marked(f0, r)
      /\ (r.dir = 0 => r.cur = 0) /\ r.dir = Leads(f0, d0, r)
  BY <1>1 DEF Asked, Allocating, Making
<1>3. PICK S : S = Free(d0)
  OBVIOUS
<1>4. Comes(fat, r.dir, S, r.cur)
  BY <1>1, <1>3 DEF Allocating, Searching
<1>5. Sought(r) = S /\ S \subseteq Addr
  BY <1>1, <1>3, SoughtIs
<1>6. /\ fat = write_in_fat_index(f0, r.head, EndMark) /\ fat \in Table /\ r.dir \in Cluster
      /\ r.dir \in HeadsOf(d0)
      /\ r.dir # 0 => Ends(fat, r.dir) /\ Walk(fat, r.dir) = Walk(f0, r.dir)
  BY <1>1, <1>2, MakingTable
<1>7. ASSUME NEW a \in Hits(r), Unwritten, Hit(c, r, a) PROVE Moves(f0, d0, c)
  <2>1. PICK x : x = [r EXCEPT !.at = a]
    OBVIOUS
  <2>2. Go(c, x, "seek", "entry") /\ status' = status /\ fat' = fat /\ disk' = d0
    BY <1>1, <1>7, <2>1 DEF Hit, Onward, Unwritten
  <2>3. DOMAIN x = Fields /\ x.at = a /\ SameCall(x, r)
        /\ x.dir = r.dir /\ x.head = r.head /\ x.cur = r.cur
    BY <1>2, <2>1 DEF Fields, SameCall
  <2>4. PICK q : Goes(c, q) /\ DOMAIN q = Fields /\ q.pc = "entry" /\ SameBut(q, x)
    BY <2>2, <2>3, Going
  <2>5. SameCall(q, r) /\ q.at = a /\ q.dir = r.dir /\ q.head = r.head /\ q.cur = r.cur
    BY <2>3, <2>4 DEF SameCall, SameBut
  <2>6. r.cur # 0
    BY <1>7 DEF Hits
  <2>7. r.dir # 0 /\ FirstOnChain(fat, r.dir, S) = {a}
    BY <1>2, <1>4, <1>5, <1>6, <1>7, <2>6, ReadsHit
  <2>8. Making(f0, d0, q) /\ Marked(f0, q) = fat
    BY <1>2, <2>5 DEF Making, Marked, SameCall, Leads
  <2>9. Entering(f0, d0, fat, q)
    BY <1>3, <2>4, <2>5, <2>6, <2>7, <2>8 DEF Entering
  <2>10. Doing(f0, d0, fat', disk', q)
    BY <2>2, <2>9 DEF Doing
  <2> QED
    BY <1>1, <2>4, <2>5, <2>10, Moving
<1>8. ASSUME r.cur = 0, Ruin(c) PROVE Returns(f0, d0, c)
  <2>1. r.dir = 0
    <3> SUFFICES ASSUME r.dir # 0 PROVE FALSE
      OBVIOUS
    <3>1. PICK k \in 0..MaxIndex : Walk(fat, r.dir)[k] = 0
      BY <1>4, <1>8 DEF Comes
    <3>2. Walk(f0, r.dir)[k] = 0
      BY <1>6, <3>1
    <3>3. k = 0
      BY <1>1, <1>6, <3>2, HeadChain, NotAnIndex, FatAssumption
    <3> QED
      BY <3>2, <3>3, WalkStep
  <2>2. MadeInto(f0, d0, r.path, r.name, r.kind, r.head, fat', disk', status') /\ Return(c)
    BY <1>1, <1>2, <1>6, <1>8, <2>1 DEF MadeInto, Ruin, Leads
  <2> QED
    BY <1>1, <1>2, <2>2, MakeEnds
<1>9. ASSUME Hits(r) = {}, r.cur # 0, Unwritten, Goto(c, r, IndexAfter(r.pc))
      PROVE  Moves(f0, d0, c)
  <2>1. Go(c, r, "sb", "alloc_next") /\ status' = status /\ fat' = fat /\ disk' = d0
    BY <1>1, <1>9, NextRead DEF Goto, Unwritten
  <2>2. PICK q : Goes(c, q) /\ DOMAIN q = Fields /\ q.pc = "alloc_next" /\ SameBut(q, r)
    BY <1>2, <2>1, Going
  <2>3. SameCall(q, r) /\ q.cur = r.cur /\ q.dir = r.dir /\ q.head = r.head
    BY <2>2 DEF SameCall, SameBut
  <2>4. Passes(fat, r.dir, S, r.cur)
    BY <1>1, <1>4, <1>5, <1>9, ReadsOn
  <2>5. Making(f0, d0, q) /\ Marked(f0, q) = fat
    BY <1>2, <2>3 DEF Making, Marked, SameCall, Leads
  <2>6. Allocating(f0, d0, fat, q)
    BY <1>2, <1>3, <1>9, <2>2, <2>3, <2>4, <2>5 DEF Allocating, Searching
  <2>7. Doing(f0, d0, fat', disk', q)
    BY <2>1, <2>6 DEF Doing
  <2> QED
    BY <1>1, <2>2, <2>3, <2>7, Moving
<1> QED
  BY <1>1, <1>7, <1>8, <1>9 DEF ReadCluster

(* The table while write_file updates the entry of its file.               *)
LEMMA WrittenTable ==
  ASSUME NEW f0, NEW d0, NEW f, NEW r, Apart(f0, d0), Asked(f0, d0, r),
         r.kind = "write", r.dir = Leads(f0, d0, r),
         NEW cl \in Cluster \ {0}, Reached(f0, d0, f, r, cl)
  PROVE  /\ f \in Table /\ r.dir \in HeadsOf(d0) /\ r.dir \in Cluster
         /\ ChainsApart(f, HeadsOf(d0)) /\ Ends(f, r.dir) /\ KeepsWalk(f0, f, r.dir)
<1>1. f0 \in Table /\ d0 \in [Addr -> Slot] /\ ChainsApart(f0, HeadsOf(d0))
      /\ HeadsOf(d0) \in SUBSET Cluster
  BY HeadsTyped DEF Apart
<1>2. r.dir \in HeadsOf(d0) /\ r.dir \in Cluster /\ ~r.making
  BY CallDir DEF Asked
<1>3. CASE f = f0
  BY <1>1, <1>2, <1>3, WalkEnds, SameWalk
<1>4. CASE AtTail(f0, d0, r) /\ cl \in find_empty_fat_index(f0) /\ f = Extended(f0, r.prev, cl)
  <2>1. PICK t : t = r.prev
    OBVIOUS
  <2>2. t \in Cluster /\ f0[t] = EndMark /\ f = Extended(f0, t, cl)
    BY <1>2, <1>4, <2>1 DEF AtTail, Marked
  <2> QED
    BY <1>1, <1>2, <1>4, <2>2, GrownIs
<1> QED
  BY <1>3, <1>4 DEF Reached

(* alloc_new_entry reads a cluster of the directory.                       *)
LEMMA EntryReads ==
  ASSUME NEW f0, NEW d0, NEW c, NEW r, Ready(f0, d0, r), ReadCluster(c, r), r.pc = "reread"
  PROVE  Moves(f0, d0, c)
<1>1. /\ Updating(f0, d0, fat, disk, r)
      /\ Asked(f0, d0, r) /\ Apart(f0, d0) /\ status = "ok"
  BY Phases DEF ReadCluster, Ready
<1>2. DOMAIN r = Fields /\ r.kind = "write" /\ r.dir = Leads(f0, d0, r)
  BY <1>1 DEF Asked, Updating, HasGrown
<1>3. PICK S : S = Named(disk, {"file"}, r.name)
  OBVIOUS
<1>4. Comes(fat, r.dir, S, r.cur)
  BY <1>1, <1>3 DEF Updating, Searching
<1>5. Sought(r) = S /\ S \subseteq Addr
  BY <1>1, <1>3, SoughtIs
<1>6. fat \in Table /\ r.dir \in Cluster /\ Ends(fat, r.dir)
  BY <1>1, <1>2, WrittenTable DEF Updating
<1>7. ASSUME NEW q, SameCall(q, r), q.cur = r.cur, q.dir = r.dir, q.prev = r.prev, q.de = r.de
      PROVE  /\ HasGrown(f0, d0, q, Settled(q)) /\ Settled(q) >= 0
             /\ \E cl \in Cluster \ {0} : Reached(f0, d0, fat, q, cl) /\ disk = Stored(d0, cl, q)
  <2>1. ~r.making
    BY <1>1, <1>2 DEF Asked
  <2>2. Settled(q) = Settled(r) /\ \A cl : Stored(d0, cl, q) = Stored(d0, cl, r)
    BY <1>7 DEF Settled, Stored, SameCall
  <2>3. AtTail(f0, d0, q) <=> AtTail(f0, d0, r)
    BY <1>7, <2>1 DEF AtTail, SameCall, Marked
  <2>4. \A cl : Reached(f0, d0, fat, q, cl) <=> Reached(f0, d0, fat, r, cl)
    BY <1>7, <2>3 DEF Reached, SameCall
  <2>5. HasGrown(f0, d0, q, Settled(q))
    BY <1>1, <1>7, <2>2 DEF Updating, HasGrown, SameCall, Opened, Leads
  <2> QED
    BY <1>1, <2>2, <2>4, <2>5 DEF Updating
<1>8. ASSUME NEW a \in Hits(r), Unwritten, Hit(c, r, a) PROVE Moves(f0, d0, c)
  <2>1. PICK copy : copy = Patched(disk, r, a)
    OBVIOUS
  <2>2. PICK x : x = [r EXCEPT !.copy = copy]
    OBVIOUS
  <2>3. Go(c, x, "seek", "update") /\ status' = status /\ fat' = fat /\ disk' = disk
    BY <1>1, <1>8, <2>1, <2>2 DEF Hit, Onward, Unwritten, Patched
  <2>4. /\ DOMAIN x = Fields /\ x.copy = copy /\ SameCall(x, r)
        /\ x.cur = r.cur /\ x.dir = r.dir /\ x.prev = r.prev /\ x.de = r.de
    BY <1>2, <2>2 DEF Fields, SameCall
  <2>5. PICK q : Goes(c, q) /\ DOMAIN q = Fields /\ q.pc = "update" /\ SameBut(q, x)
    BY <2>3, <2>4, Going
  <2>6. /\ SameCall(q, r) /\ q.copy = copy
        /\ q.cur = r.cur /\ q.dir = r.dir /\ q.prev = r.prev /\ q.de = r.de
    BY <2>4, <2>5 DEF SameCall, SameBut
  <2>7. FirstOnChain(fat, r.dir, S) = {a} /\ ClusterOf(a) = r.cur
    BY <1>4, <1>5, <1>6, <1>8, ReadsHit
  <2>8. Patched(disk, q, a) = copy
    BY <2>1, <2>6 DEF Patched
  <2>9. Updating(f0, d0, fat, disk, q)
    BY <1>3, <1>7, <2>5, <2>6, <2>7, <2>8 DEF Updating, SameCall
  <2>10. Doing(f0, d0, fat', disk', q)
    BY <2>3, <2>9 DEF Doing
  <2> QED
    BY <1>1, <2>5, <2>6, <2>10, Moving
<1>9. ASSUME Hits(r) = {}, Unwritten, Goto(c, r, IndexAfter(r.pc)) PROVE Moves(f0, d0, c)
  <2>1. Go(c, r, "sb", "reread_next") /\ status' = status /\ fat' = fat /\ disk' = disk
    BY <1>1, <1>9, NextRead DEF Goto, Unwritten
  <2>2. PICK q : Goes(c, q) /\ DOMAIN q = Fields /\ q.pc = "reread_next" /\ SameBut(q, r)
    BY <1>2, <2>1, Going
  <2>3. /\ SameCall(q, r)
        /\ q.cur = r.cur /\ q.dir = r.dir /\ q.prev = r.prev /\ q.de = r.de
    BY <2>2 DEF SameCall, SameBut
  <2>4. Passes(fat, r.dir, S, r.cur)
    BY <1>1, <1>4, <1>5, <1>9, ReadsOn
  <2>5. Updating(f0, d0, fat, disk, q)
    BY <1>3, <1>7, <2>2, <2>3, <2>4 DEF Updating, Searching, SameCall
  <2>6. Doing(f0, d0, fat', disk', q)
    BY <2>1, <2>5 DEF Doing
  <2> QED
    BY <1>1, <2>2, <2>3, <2>6, Moving
<1> QED
  BY <1>1, <1>8, <1>9 DEF ReadCluster

(* A search reads the index after a cluster it has passed: there is a next *)
(* cluster, or the search has found nothing.                               *)
LEMMA NextOrEnd ==
  ASSUME NEW f \in Table, NEW d \in Cluster, Ends(f, d), NEW S, S \subseteq Addr, NEW cur,
         Passes(f, d, S, cur)
  PROVE  /\ cur \in Cluster
         /\ f[cur] # EndMark => Comes(f, d, S, f[cur])
         /\ f[cur] = EndMark => FirstOnChain(f, d, S) = {} /\ cur \in Chain(f, d)
<1>1. PICK k \in 0..MaxIndex : Walk(f, d)[k] = cur /\ cur # EndMark
  BY DEF Passes
<1>2. cur \in Cluster
  BY <1>1, WalkTyped
<1>3. f[cur] # EndMark => Comes(f, d, S, f[cur])
  BY <1>2, SearchGoesOn
<1>4. f[cur] = EndMark => FirstOnChain(f, d, S) = {} /\ cur \in Chain(f, d)
  BY <1>2, SearchEnds
<1> QED
  BY <1>2, <1>3, <1>4

(* On a path of directories the next name is always found.                 *)
LEMMA RouteNext ==
  ASSUME NEW f0, NEW d0, NEW c, NEW r, Ready(f0, d0, r), ReadIndex(c, r), r.pc = "route_next"
  PROVE  Moves(f0, d0, c)
<1>1. /\ disk = d0 /\ fat = f0 /\ Routing(f0, d0, r) /\ Asked(f0, d0, r) /\ Apart(f0, d0)
  BY Phases DEF ReadIndex, Ready
<1>2. PICK p, m, d, S : /\ p = r.path /\ m = r.n + 1
                        /\ d = get_cluster_number(f0, d0, Prefix(r.path, r.n))
                        /\ S = Named(d0, {"dir"}, r.path[r.n + 1])
  OBVIOUS
<1>3. p \in Paths /\ IsDir(f0, d0, p) /\ DOMAIN r = Fields
  BY <1>1, <1>2 DEF Asked
<1>4. /\ r.n \in 0..Len(p) /\ r.n \in Nat /\ Len(p) \in Nat /\ r.n < Len(p)
      /\ d \in Cluster /\ Ends(f0, d) /\ f0 \in Table /\ Passes(f0, d, S, r.cur)
      /\ S \subseteq Addr
  <2>1. r.n \in 0..Len(p) /\ r.n < Len(p) /\ Passes(f0, d, S, r.cur)
    BY <1>1, <1>2 DEF Routing, Searching
  <2>2. Len(p) \in Nat /\ d \in Cluster /\ Ends(f0, d) /\ f0 \in Table
    BY <1>1, <1>2, <2>1, CallDir
  <2>3. S \subseteq Addr
    BY <1>1, <1>2, SoughtIs
  <2> QED
    BY <2>1, <2>2, <2>3
<1>5. FirstOnChain(f0, d, S) # {}
  <2>1. m \in 1..Len(p) /\ m - 1 = r.n
    BY <1>2, <1>4
  <2>2. \E b \in EntriesOf(d0) :
          b \in FirstOnChain(f0, get_cluster_number(f0, d0, Prefix(p, m - 1)),
                             Named(d0, {"dir"}, p[m]))
    BY <1>3, <2>1, RouteFinds
  <2> QED
    BY <1>2, <2>1, <2>2
<1>6. r.cur \in Cluster /\ fat[r.cur] # EndMark /\ Comes(f0, d, S, f0[r.cur])
  BY <1>1, <1>4, <1>5, NextOrEnd
<1>7. PICK x : x = [r EXCEPT !.cur = fat[r.cur]]
  OBVIOUS
<1>8. Go(c, x, "sb", "route") /\ status' = status /\ fat' = f0 /\ disk' = d0
  BY <1>1, <1>6, <1>7, NextRead DEF ReadIndex, Goto, Unwritten
<1>9. DOMAIN x = Fields /\ x.n = r.n /\ x.cur = f0[r.cur] /\ SameCall(x, r)
  BY <1>1, <1>3, <1>7 DEF Fields, SameCall
<1>10. PICK q : Goes(c, q) /\ DOMAIN q = Fields /\ q.pc = "route" /\ SameBut(q, x)
  BY <1>8, <1>9, Going
<1>11. SameCall(q, r) /\ q.n = r.n /\ q.cur = f0[r.cur] /\ q.path = r.path
  BY <1>9, <1>10 DEF SameCall, SameBut
<1>12. Routing(f0, d0, q)
  BY <1>2, <1>4, <1>6, <1>10, <1>11 DEF Routing, Searching
<1>13. Doing(f0, d0, fat', disk', q)
  BY <1>8, <1>12 DEF Doing, Reading
<1> QED
  BY <1>1, <1>10, <1>11, <1>13, Moving

(* A lookup that finds nothing is followed by the creation.                *)
LEMMA LookupNext ==
  ASSUME NEW f0, NEW d0, NEW c, NEW r, Ready(f0, d0, r), ReadIndex(c, r), r.pc = "lookup_next"
  PROVE  Moves(f0, d0, c)
<1>1. /\ disk = d0 /\ fat = f0 /\ Looking(f0, d0, r) /\ Asked(f0, d0, r) /\ Apart(f0, d0)
  BY Phases DEF ReadIndex, Ready
<1>2. DOMAIN r = Fields /\ r.dir = Leads(f0, d0, r) /\ r.kind \in FileOrDir
  BY <1>1 DEF Asked, Looking
<1>3. PICK S : S = Named(d0, FileOrDir, r.name)
  OBVIOUS
<1>4. /\ Passes(f0, r.dir, S, r.cur) /\ S \subseteq Addr
      /\ f0 \in Table /\ r.dir \in Cluster /\ Ends(f0, r.dir)
  BY <1>1, <1>2, <1>3, SoughtIs, CallDir DEF Looking, Searching
<1>5. /\ r.cur \in Cluster /\ (f0[r.cur] # EndMark => Comes(f0, r.dir, S, f0[r.cur]))
      /\ (f0[r.cur] = EndMark => FirstOnChain(f0, r.dir, S) = {})
  BY <1>4, NextOrEnd
<1>6. ASSUME fat[r.cur] = EndMark, Exhausted(c, r) PROVE Moves(f0, d0, c)
  <2>1. PICK x : x = [Call(r.kind, r.path, r.name, 0, <<>>) EXCEPT !.making = TRUE]
    OBVIOUS
  <2>2. Go(c, x, "sb", "route") /\ status' = status /\ fat' = f0 /\ disk' = d0
    BY <1>1, <1>6, <2>1 DEF Exhausted, Goto, Unwritten
  <2>3. /\ DOMAIN x = Fields /\ x.kind = r.kind /\ x.path = r.path /\ x.name = r.name
        /\ x.making = TRUE /\ x.n = 0 /\ x.cur = RootCluster
    BY <2>1 DEF Fields, Call
  <2>4. PICK q : Goes(c, q) /\ DOMAIN q = Fields /\ q.pc = "route" /\ SameBut(q, x)
    BY <2>2, <2>3, Going
  <2>5. /\ q.kind = r.kind /\ q.path = r.path /\ q.name = r.name
        /\ q.making = TRUE /\ q.n = 0 /\ q.cur = RootCluster
    BY <2>3, <2>4 DEF SameBut
  <2>6. Find(f0, d0, r.path, r.name) = {}
    BY <1>1, <1>2, <1>3, <1>5, <1>6 DEF Find, mfs_lookup, Leads
  <2>7. Asked(f0, d0, q)
    <3>1. r.kind # "write"
      BY <1>2 DEF FileOrDir
    <3> QED
      BY <1>1, <1>2, <2>4, <2>5, <2>6, <3>1 DEF Asked
  <2>8. Routing(f0, d0, q)
    <3>1. PICK p : p = r.path
      OBVIOUS
    <3>2. p \in Paths /\ Len(p) \in Nat
      BY <1>1, <3>1, PathTyped DEF Asked
    <3>3. get_cluster_number(f0, d0, Prefix(p, 0)) = RootCluster
      BY <3>2, PathStep
    <3>4. \A T : Comes(f0, RootCluster, T, RootCluster)
      <4>1. RootCluster \in Cluster
        BY <1>1, HeadsTyped DEF Apart
      <4> QED
        BY <4>1, SearchStarts
    <3> QED
      BY <2>4, <2>5, <3>1, <3>2, <3>3, <3>4 DEF Routing, Searching
  <2>9. Doing(f0, d0, fat', disk', q)
    BY <2>2, <2>8 DEF Doing, Reading
  <2> QED
    BY <2>4, <2>7, <2>9 DEF Moves, Progress
<1>7. ASSUME fat[r.cur] # EndMark, Unwritten, Goto(c, [r EXCEPT !.cur = fat[r.cur]], ClusterAfter(r.pc))
      PROVE  Moves(f0, d0, c)
  <2>1. PICK x : x = [r EXCEPT !.cur = fat[r.cur]]
    OBVIOUS
  <2>2. Go(c, x, "sb", "lookup") /\ status' = status /\ fat' = f0 /\ disk' = d0
    BY <1>1, <1>7, <2>1, NextRead DEF Goto, Unwritten
  <2>3. DOMAIN x = Fields /\ x.dir = r.dir /\ x.cur = f0[r.cur] /\ SameCall(x, r)
    BY <1>1, <1>2, <2>1 DEF Fields, SameCall
  <2>4. PICK q : Goes(c, q) /\ DOMAIN q = Fields /\ q.pc = "lookup" /\ SameBut(q, x)
    BY <2>2, <2>3, Going
  <2>5. SameCall(q, r) /\ q.dir = r.dir /\ q.cur = f0[r.cur]
    BY <2>3, <2>4 DEF SameCall, SameBut
  <2>6. Looking(f0, d0, q)
    BY <1>1, <1>3, <1>5, <1>7, <2>4, <2>5 DEF Looking, Searching, SameCall, Leads
  <2>7. Doing(f0, d0, fat', disk', q)
    BY <2>2, <2>6 DEF Doing, Reading
  <2> QED
    BY <1>1, <2>4, <2>5, <2>7, Moving
<1> QED
  BY <1>6, <1>7 DEF ReadIndex

(* The entry of an open file is always found.                              *)
LEMMA DentryNext ==
  ASSUME NEW f0, NEW d0, NEW c, NEW r, Ready(f0, d0, r), ReadIndex(c, r), r.pc = "dentry_next"
  PROVE  Moves(f0, d0, c)
<1>1. /\ disk = d0 /\ fat = f0 /\ Opening(f0, d0, r) /\ Asked(f0, d0, r) /\ Apart(f0, d0)
  BY Phases DEF ReadIndex, Ready
<1>2. DOMAIN r = Fields /\ r.dir = Leads(f0, d0, r) /\ r.kind = "write"
  BY <1>1 DEF Asked, Opening
<1>3. PICK S : S = Named(d0, {"file"}, r.name)
  OBVIOUS
<1>4. /\ Passes(f0, r.dir, S, r.cur) /\ S \subseteq Addr
      /\ f0 \in Table /\ r.dir \in Cluster /\ Ends(f0, r.dir)
  BY <1>1, <1>2, <1>3, SoughtIs, CallDir DEF Opening, Searching
<1>5. FirstOnChain(f0, r.dir, S) # {}
  BY <1>1, <1>2, <1>3 DEF Asked, Opened, get_dentry
<1>6. r.cur \in Cluster /\ f0[r.cur] # EndMark /\ Comes(f0, r.dir, S, f0[r.cur])
  BY <1>4, <1>5, NextOrEnd
<1>7. PICK x : x = [r EXCEPT !.cur = fat[r.cur]]
  OBVIOUS
<1>8. Go(c, x, "sb", "dentry") /\ status' = status /\ fat' = f0 /\ disk' = d0
  BY <1>1, <1>6, <1>7, NextRead DEF ReadIndex, Goto, Unwritten
<1>9. DOMAIN x = Fields /\ x.dir = r.dir /\ x.cur = f0[r.cur] /\ SameCall(x, r)
  BY <1>1, <1>2, <1>7 DEF Fields, SameCall
<1>10. PICK q : Goes(c, q) /\ DOMAIN q = Fields /\ q.pc = "dentry" /\ SameBut(q, x)
  BY <1>8, <1>9, Going
<1>11. SameCall(q, r) /\ q.dir = r.dir /\ q.cur = f0[r.cur]
  BY <1>9, <1>10 DEF SameCall, SameBut
<1>12. Opening(f0, d0, q)
  BY <1>1, <1>3, <1>6, <1>10, <1>11 DEF Opening, Searching, SameCall, Leads
<1>13. Doing(f0, d0, fat', disk', q)
  BY <1>8, <1>12 DEF Doing, Reading
<1> QED
  BY <1>1, <1>10, <1>11, <1>13, Moving

(* A directory without a free slot has to grow.                            *)
LEMMA AllocNext ==
  ASSUME NEW f0, NEW d0, NEW c, NEW r, Ready(f0, d0, r), ReadIndex(c, r), r.pc = "alloc_next"
  PROVE  Moves(f0, d0, c)
<1>1. /\ disk = d0 /\ Allocating(f0, d0, fat, r) /\ Asked(f0, d0, r) /\ Apart(f0, d0)
  BY Phases DEF ReadIndex, Ready
<1>2. DOMAIN r = Fields /\ Making(f0, d0, r) /\ fat = Marked(f0, r) /\ r.dir # 0 /\ r.making
  BY <1>1 DEF Asked, Allocating, Making
<1>3. PICK S : S = Free(d0)
  OBVIOUS
<1>4. /\ Passes(fat, r.dir, S, r.cur) /\ S \subseteq Addr
      /\ fat \in Table /\ r.dir \in Cluster /\ Ends(fat, r.dir)
  BY <1>1, <1>2, <1>3, SoughtIs, MakingTable DEF Allocating, Searching
<1>5. /\ r.cur \in Cluster /\ (fat[r.cur] # EndMark => Comes(fat, r.dir, S, fat[r.cur]))
      /\ (fat[r.cur] = EndMark => FirstOnChain(fat, r.dir, S) = {} /\ r.cur \in Chain(fat, r.dir))
  BY <1>4, NextOrEnd
<1>6. ASSUME fat[r.cur] = EndMark, Exhausted(c, r) PROVE Moves(f0, d0, c)
  <2>1. PICK x : x = [r EXCEPT !.prev = r.cur, !.n = 0]
    OBVIOUS
  <2>2. Go(c, x, "sb", "grow") /\ status' = status /\ fat' = fat /\ disk' = d0
    BY <1>1, <1>6, <2>1 DEF Exhausted, Goto, Unwritten
  <2>3. /\ DOMAIN x = Fields /\ x.dir = r.dir /\ x.prev = r.cur /\ x.n = 0 /\ x.head = r.head
        /\ SameCall(x, r)
    BY <1>2, <2>1 DEF Fields, SameCall
  <2>4. PICK q : Goes(c, q) /\ DOMAIN q = Fields /\ q.pc = "grow" /\ SameBut(q, x)
    BY <2>2, <2>3, Going
  <2>5. SameCall(q, r) /\ q.dir = r.dir /\ q.prev = r.cur /\ q.n = 0 /\ q.head = r.head
    BY <2>3, <2>4 DEF SameCall, SameBut
  <2>6. Making(f0, d0, q) /\ Marked(f0, q) = fat /\ q.making
    BY <1>2, <2>5 DEF Making, Marked, SameCall, Leads
  <2>7. AtTail(f0, d0, q)
    BY <1>2, <1>3, <1>5, <1>6, <2>5, <2>6 DEF AtTail
  <2>8. Grows(f0, d0, fat, q)
    BY <2>4, <2>5, <2>6, <2>7, FirstSector DEF Grows
  <2>9. Doing(f0, d0, fat', disk', q)
    BY <2>2, <2>8 DEF Doing
  <2> QED
    BY <1>1, <2>4, <2>5, <2>9, Moving
<1>7. ASSUME fat[r.cur] # EndMark, Unwritten, Goto(c, [r EXCEPT !.cur = fat[r.cur]], ClusterAfter(r.pc))
      PROVE  Moves(f0, d0, c)
  <2>1. PICK x : x = [r EXCEPT !.cur = fat[r.cur]]
    OBVIOUS
  <2>2. Go(c, x, "sb", "alloc") /\ status' = status /\ fat' = fat /\ disk' = d0
    BY <1>1, <1>7, <2>1, NextRead DEF Goto, Unwritten
  <2>3. DOMAIN x = Fields /\ x.dir = r.dir /\ x.cur = fat[r.cur] /\ x.head = r.head /\ SameCall(x, r)
    BY <1>2, <2>1 DEF Fields, SameCall
  <2>4. PICK q : Goes(c, q) /\ DOMAIN q = Fields /\ q.pc = "alloc" /\ SameBut(q, x)
    BY <2>2, <2>3, Going
  <2>5. SameCall(q, r) /\ q.dir = r.dir /\ q.cur = fat[r.cur] /\ q.head = r.head
    BY <2>3, <2>4 DEF SameCall, SameBut
  <2>6. Making(f0, d0, q) /\ Marked(f0, q) = fat
    BY <1>2, <2>5 DEF Making, Marked, SameCall, Leads
  <2>7. Allocating(f0, d0, fat, q)
    BY <1>2, <1>3, <1>5, <1>7, <2>4, <2>5, <2>6 DEF Allocating, Searching
  <2>8. Doing(f0, d0, fat', disk', q)
    BY <2>2, <2>7 DEF Doing
  <2> QED
    BY <1>1, <2>4, <2>5, <2>8, Moving
<1> QED
  BY <1>6, <1>7 DEF ReadIndex

(* The entry that a write is about.                                        *)
LEMMA OpenedIs ==
  ASSUME NEW f0, NEW d0, NEW r, Apart(f0, d0), Asked(f0, d0, r), r.kind = "write"
  PROVE  \E a \in EntriesOf(d0) :
           /\ \A b : b \in Opened(f0, d0, r) <=> b = a
           /\ d0[a].attr = "file" /\ d0[a].name = r.name /\ d0[a] \in Dirents
           /\ d0[a].head \in HeadsOf(d0) /\ d0[a].head \in Cluster /\ d0[a].size \in Nat
           /\ Ends(f0, d0[a].head)
           /\ MayWrite(d0[a], r.off, r.buf)
           /\ ClusterOf(a) \in Chain(f0, Leads(f0, d0, r)) /\ ClusterOf(a) \in Index
<1>1. PICK a : a \in Opened(f0, d0, r) /\ MayWrite(d0[a], r.off, r.buf)
  BY DEF Asked
<1>2. PICK S, d : S = Named(d0, {"file"}, r.name) /\ d = Leads(f0, d0, r)
  OBVIOUS
<1>3. Opened(f0, d0, r) = FirstOnChain(f0, d, S)
  BY <1>2 DEF Opened, get_dentry
<1>4. a \in S
  BY <1>1, <1>3, SearchIsSound
<1>5. a \in EntriesOf(d0) /\ d0[a].attr = "file" /\ d0[a].name = r.name
  BY <1>2, <1>4 DEF Named, EntriesOf, FileOrDir
<1>6. \A b : b \in Opened(f0, d0, r) <=> b = a
  BY <1>1, <1>3, SearchFindsOne
<1>7. /\ d0[a] \in Dirents /\ d0[a].head \in HeadsOf(d0)
      /\ d0[a].head \in Cluster /\ d0[a].size \in Nat
  BY <1>5, EntriesTyped DEF Apart
<1>8. Ends(f0, d0[a].head)
  BY <1>7, HeadChain
<1>9. ClusterOf(a) \in Chain(f0, d) /\ ClusterOf(a) \in Index
  BY <1>1, <1>2, <1>3, CallDir, SearchOnChain DEF ClusterOf
<1> QED
  BY <1>1, <1>2, <1>5, <1>6, <1>7, <1>8, <1>9

(* Where a write has come to, for the outcome.                             *)
LEMMA ReachedIs ==
  ASSUME NEW f0, NEW d0, NEW f, NEW r, ~r.making, NEW h, r.de.head = h, NEW cl \in Cluster,
         Reached(f0, d0, f, r, cl)
  PROVE  ArrivedAt(f0, h, r.off, f, cl)
BY DEF Reached, ArrivedAt, AtTail, Marked

(* How a write ends.                                                       *)
LEMMA WriteEnds ==
  ASSUME NEW f0, NEW d0, NEW c, NEW r, Ready(f0, d0, r), Updating(f0, d0, fat, disk, r),
         Return(c), fat' = fat, status' = status,
         disk' = alloc_new_entry(fat, disk, r.dir, r.name, r.de)
  PROVE  Returns(f0, d0, c)
<1>1. Asked(f0, d0, r) /\ Apart(f0, d0) /\ status = "ok"
  BY DEF Ready
<1>2. /\ r.kind = "write" /\ r.dir = Leads(f0, d0, r) /\ ~r.making
      /\ r.path \in Paths /\ r.name \in Names /\ r.off \in 0..MaxSize /\ r.buf \in Buffers
      /\ IsDir(f0, d0, r.path) /\ Settled(r) >= 0
  BY <1>1 DEF Updating, HasGrown, Asked
<1>3. PICK cl \in Cluster \ {0} : Reached(f0, d0, fat, r, cl) /\ disk = Stored(d0, cl, r)
  BY DEF Updating
<1>4. PICK a \in Opened(f0, d0, r) :
        /\ MayWrite(d0[a], r.off, r.buf) /\ r.de = [d0[a] EXCEPT !.size = @ + Settled(r)]
        /\ d0[a] \in Dirents
  BY <1>1, <1>2, OpenedIs DEF Updating, HasGrown
<1>5. r.de.head = d0[a].head
  BY <1>4 DEF Dirents
<1>6. ArrivedAt(f0, d0[a].head, r.off, fat, cl)
  BY <1>2, <1>3, <1>5, ReachedIs
<1>7. Settled(r) \in Int => ~ (Settled(r) < 0)
  BY <1>2
<1>8. Settled(r) \in Int
  <2>1. PICK m \in 1..MaxLen : r.buf \in [1..m -> Data]
    BY <1>2 DEF Buffers
  <2>2. Len(r.buf) \in Nat
    BY <2>1
  <2>3. r.off \in Nat /\ r.off % CS \in Int
    BY <1>2, DivMod, MfsAssumption
  <2> QED
    BY <2>2, <2>3, MfsAssumption DEF Settled, valid_len
<1>9. WroteInto(f0, d0, r.dir, r.name, a, r.off, r.buf, cl, fat', disk', status')
  <2>1. disk' = alloc_new_entry(fat, Stored(d0, cl, r), r.dir, r.name,
                                [d0[a] EXCEPT !.size = @ + Settled(r)])
    BY <1>3, <1>4
  <2> QED
    BY <1>1, <1>3, <1>7, <1>8, <2>1 DEF WroteInto, Stored, Settled
<1>10. PICK p, n, off, buf : p = r.path /\ n = r.name /\ off = r.off /\ buf = r.buf
  OBVIOUS
<1>11. /\ a \in get_dentry(f0, d0, get_cluster_number(f0, d0, p), n) /\ MayWrite(d0[a], off, buf)
       /\ ArrivedAt(f0, d0[a].head, off, fat', cl)
       /\ WroteInto(f0, d0, get_cluster_number(f0, d0, p), n, a, off, buf, cl, fat', disk', status')
  BY <1>2, <1>4, <1>6, <1>9, <1>10 DEF Opened, Leads
<1>12. p \in Paths /\ n \in Names /\ off \in 0..MaxSize /\ buf \in Buffers /\ IsDir(f0, d0, p)
  BY <1>2, <1>10
<1>13. Outcome(f0, d0, fat', disk', status')
  BY <1>3, <1>11, <1>12 DEF Outcome
<1> QED
  BY <1>13 DEF Returns

(* How a write destroys the volume.                                        *)
LEMMA WriteRuins ==
  ASSUME NEW f0, NEW d0, NEW c, NEW r, Ready(f0, d0, r), Storing(f0, d0, fat, r), disk = d0,
         r.cur = 0 \/ Settled(r) < 0, Ruin(c)
  PROVE  Returns(f0, d0, c)
<1>1. Asked(f0, d0, r) /\ Apart(f0, d0)
  BY DEF Ready
<1>2. /\ r.kind = "write" /\ r.dir = Leads(f0, d0, r) /\ ~r.making
      /\ r.path \in Paths /\ r.name \in Names /\ r.off \in 0..MaxSize /\ r.buf \in Buffers
      /\ IsDir(f0, d0, r.path)
  BY <1>1 DEF Storing, Has, Asked
<1>3. PICK cl : cl = r.cur
  OBVIOUS
<1>4. cl \in Cluster /\ Reached(f0, d0, fat, r, cl)
  BY <1>3, FoundIsUnused DEF Storing, Reached
<1>5. PICK a \in Opened(f0, d0, r) : MayWrite(d0[a], r.off, r.buf) /\ r.de = d0[a]
  BY <1>1, <1>2, OpenedIs DEF Storing, Has
<1>6. ArrivedAt(f0, d0[a].head, r.off, fat, cl)
  BY <1>2, <1>4, <1>5, ReachedIs
<1>7. WroteInto(f0, d0, r.dir, r.name, a, r.off, r.buf, cl, fat', disk', status')
  BY <1>3 DEF WroteInto, Settled, Ruin
<1>8. PICK p, n, off, buf : p = r.path /\ n = r.name /\ off = r.off /\ buf = r.buf
  OBVIOUS
<1>9. /\ a \in get_dentry(f0, d0, get_cluster_number(f0, d0, p), n) /\ MayWrite(d0[a], off, buf)
      /\ ArrivedAt(f0, d0[a].head, off, fat', cl)
      /\ WroteInto(f0, d0, get_cluster_number(f0, d0, p), n, a, off, buf, cl, fat', disk', status')
  BY <1>2, <1>5, <1>6, <1>7, <1>8 DEF Opened, Leads, Ruin
<1>10. p \in Paths /\ n \in Names /\ off \in 0..MaxSize /\ buf \in Buffers /\ IsDir(f0, d0, p)
  BY <1>2, <1>8
<1>11. Outcome(f0, d0, fat', disk', status')
  BY <1>4, <1>9, <1>10 DEF Outcome
<1> QED
  BY <1>11 DEF Returns, Ruin

(* alloc_new_entry reads the index after a cluster without the entry.      *)
LEMMA EntryNext ==
  ASSUME NEW f0, NEW d0, NEW c, NEW r, Ready(f0, d0, r), ReadIndex(c, r), r.pc = "reread_next"
  PROVE  Moves(f0, d0, c) \/ Returns(f0, d0, c)
<1>1. /\ Updating(f0, d0, fat, disk, r) /\ Asked(f0, d0, r) /\ Apart(f0, d0) /\ status = "ok"
  BY Phases DEF ReadIndex, Ready
<1>2. DOMAIN r = Fields /\ r.kind = "write" /\ r.dir = Leads(f0, d0, r)
  BY <1>1 DEF Asked, Updating, HasGrown
<1>3. PICK S : S = Named(disk, {"file"}, r.name)
  OBVIOUS
<1>4. Passes(fat, r.dir, S, r.cur) /\ S \subseteq Addr
  BY <1>1, <1>3, SoughtIs DEF Updating, Searching
<1>5. fat \in Table /\ r.dir \in Cluster /\ Ends(fat, r.dir)
  BY <1>1, <1>2, WrittenTable DEF Updating
<1>6. /\ r.cur \in Cluster /\ (fat[r.cur] # EndMark => Comes(fat, r.dir, S, fat[r.cur]))
      /\ (fat[r.cur] = EndMark => FirstOnChain(fat, r.dir, S) = {})
  BY <1>4, <1>5, NextOrEnd
<1>7. ASSUME fat[r.cur] = EndMark, Exhausted(c, r) PROVE Returns(f0, d0, c)
  <2>1. Unwritten /\ Return(c)
    BY <1>1, <1>7 DEF Exhausted
  <2>2. disk \in [Addr -> Slot] \/ \E dk : disk = [a \in Addr |-> dk[a]]
    BY <1>1 DEF Updating, Stored
  <2>3. disk = [a \in Addr |-> disk[a]]
    BY <2>2
  <2>4. disk' = alloc_new_entry(fat, disk, r.dir, r.name, r.de)
    BY <1>3, <1>6, <1>7, <2>1, <2>3 DEF alloc_new_entry, get_dentry, Unwritten
  <2> QED
    BY <1>1, <2>1, <2>4, WriteEnds DEF Unwritten
<1>8. ASSUME fat[r.cur] # EndMark, Unwritten, Goto(c, [r EXCEPT !.cur = fat[r.cur]], ClusterAfter(r.pc))
      PROVE  Moves(f0, d0, c)
  <2>1. PICK x : x = [r EXCEPT !.cur = fat[r.cur]]
    OBVIOUS
  <2>2. Go(c, x, "sb", "reread") /\ status' = status /\ fat' = fat /\ disk' = disk
    BY <1>1, <1>8, <2>1, NextRead DEF Goto, Unwritten
  <2>3. /\ DOMAIN x = Fields /\ x.dir = r.dir /\ x.cur = fat[r.cur] /\ SameCall(x, r)
        /\ x.prev = r.prev /\ x.de = r.de
    BY <1>2, <2>1 DEF Fields, SameCall
  <2>4. PICK q : Goes(c, q) /\ DOMAIN q = Fields /\ q.pc = "reread" /\ SameBut(q, x)
    BY <2>2, <2>3, Going
  <2>5. SameCall(q, r) /\ q.dir = r.dir /\ q.cur = fat[r.cur] /\ q.prev = r.prev /\ q.de = r.de
    BY <2>3, <2>4 DEF SameCall, SameBut
  <2>6. ~r.making
    BY <1>1, <1>2 DEF Asked
  <2>7. Settled(q) = Settled(r) /\ \A cl : Stored(d0, cl, q) = Stored(d0, cl, r)
    BY <2>5 DEF Settled, Stored, SameCall
  <2>8. AtTail(f0, d0, q) <=> AtTail(f0, d0, r)
    BY <2>5, <2>6 DEF AtTail, SameCall, Marked
  <2>9. \A cl : Reached(f0, d0, fat, q, cl) <=> Reached(f0, d0, fat, r, cl)
    BY <2>5, <2>8 DEF Reached, SameCall
  <2>10. HasGrown(f0, d0, q, Settled(q))
    BY <1>1, <2>5, <2>7 DEF Updating, HasGrown, SameCall, Opened, Leads
  <2>11. Searching(fat, q.dir, Named(disk, {"file"}, q.name), q, "reread", "reread_next")
    BY <1>3, <1>6, <1>8, <2>4, <2>5 DEF Searching, SameCall
  <2>12. Updating(f0, d0, fat, disk, q)
    BY <1>1, <2>7, <2>9, <2>10, <2>11 DEF Updating
  <2>13. Doing(f0, d0, fat', disk', q)
    BY <2>2, <2>12 DEF Doing
  <2> QED
    BY <1>1, <2>4, <2>5, <2>13, Moving
<1> QED
  BY <1>7, <1>8 DEF ReadIndex

(* write_file walks the chain of its file.                                 *)
LEMMA WalksOn ==
  ASSUME NEW f0, NEW d0, NEW c, NEW r, Ready(f0, d0, r), Walking(c, r)
  PROVE  Moves(f0, d0, c)
<1>1. /\ disk = d0 /\ fat = f0 /\ Behind(f0, d0, r) /\ Asked(f0, d0, r) /\ Apart(f0, d0)
  BY Phases DEF Walking, Ready
<1>2. /\ DOMAIN r = Fields /\ r.kind = "write" /\ ~r.making /\ r.off \in 0..MaxSize
      /\ Has(f0, d0, r) /\ r.n \in 0..MaxIndex /\ r.cur = Walk(f0, r.de.head)[r.n]
      /\ r.cur # EndMark /\ r.off >= (r.n + 1) * CS
  BY <1>1 DEF Asked, Behind, Has
<1>3. PICK a \in Opened(f0, d0, r) : /\ r.de = d0[a] /\ d0[a].head \in Cluster
                                     /\ Ends(f0, d0[a].head)
  BY <1>1, <1>2, OpenedIs DEF Has
<1>4. PICK h, n, off, cur : h = d0[a].head /\ n = r.n /\ off = r.off /\ cur = r.cur
  OBVIOUS
<1>5. /\ h \in Cluster /\ Ends(f0, h) /\ f0 \in Table /\ cur = Walk(f0, h)[n] /\ cur # EndMark
      /\ n \in 0..MaxIndex /\ off \in 0..MaxSize /\ off >= (n + 1) * CS /\ r.de.head = h
  BY <1>1, <1>2, <1>3, <1>4 DEF Apart
<1>6. cur \in Cluster /\ n # MaxIndex /\ n \in Nat /\ off \in Nat
  BY <1>5, WalkTyped, FatAssumption, MfsAssumption DEF Ends
<1>7. n + 1 \in 0..MaxIndex /\ Walk(f0, h)[n + 1] = f0[cur]
  BY <1>5, <1>6, WalkStep, AfterCluster, FatAssumption
<1>8. ASSUME fat[r.cur] = EndMark, Unwritten, Goto(c, [r EXCEPT !.prev = r.cur, !.n = 0], "grow")
      PROVE  Moves(f0, d0, c)
  <2>1. PICK x : x = [r EXCEPT !.prev = r.cur, !.n = 0]
    OBVIOUS
  <2>2. Go(c, x, "sb", "grow") /\ status' = status /\ fat' = f0 /\ disk' = d0
    BY <1>1, <1>8, <2>1 DEF Goto, Unwritten
  <2>3. DOMAIN x = Fields /\ x.dir = r.dir /\ x.prev = cur /\ x.n = 0 /\ x.de = r.de /\ SameCall(x, r)
    BY <1>2, <1>4, <2>1 DEF Fields, SameCall
  <2>4. PICK q : Goes(c, q) /\ DOMAIN q = Fields /\ q.pc = "grow" /\ SameBut(q, x)
    BY <2>2, <2>3, Going
  <2>5. SameCall(q, r) /\ q.dir = r.dir /\ q.prev = cur /\ q.n = 0 /\ q.de = r.de
    BY <2>3, <2>4 DEF SameCall, SameBut
  <2>6. ~q.making /\ q.off = off
    BY <1>2, <1>4, <2>5 DEF SameCall
  <2>7. Has(f0, d0, q) /\ Marked(f0, q) = f0
    BY <1>2, <2>5, <2>6 DEF Has, SameCall, Opened, Leads, Marked
  <2>8. n \in 0..(off \div CS - 1)
    <3>1. off \div CS \in Nat /\ off = CS * (off \div CS) + (off % CS) /\ off % CS \in 0..(CS - 1)
      BY <1>6, DivMod
    <3>2. PICK m \in Nat : m = off \div CS
      BY <3>1
    <3>3. CS * m + CS > (n + 1) * CS
      BY <1>5, <1>6, <3>1, <3>2, MfsAssumption
    <3>4. m + 1 > n + 1
      <4> SUFFICES ASSUME m <= n PROVE FALSE
        BY <1>6
      <4>1. (m + 1) * CS <= (n + 1) * CS
        BY <1>6, MfsAssumption
      <4> QED
        BY <1>6, <3>3, <4>1, MfsAssumption
    <3> QED
      BY <1>6, <3>2, <3>4
  <2>9. AtTail(f0, d0, q)
    <3>1. q.de.head = h
      BY <1>5, <2>5
    <3> QED
      BY <1>1, <1>4, <1>5, <1>6, <1>8, <2>5, <2>6, <2>7, <2>8, <3>1 DEF AtTail
  <2>10. Grows(f0, d0, f0, q)
    BY <2>4, <2>5, <2>6, <2>7, <2>9, FirstSector DEF Grows
  <2>11. Doing(f0, d0, fat', disk', q)
    BY <2>2, <2>10 DEF Doing
  <2> QED
    BY <1>1, <2>4, <2>5, <2>11, Moving
<1> DEFINE next == fat[r.cur]
           y == [r EXCEPT !.cur = next, !.n = @ + 1]
<1>9. /\ DOMAIN y = Fields /\ y.cur = f0[cur] /\ y.n = n + 1 /\ y.dir = r.dir /\ y.de = r.de
      /\ SameCall(y, r)
  BY <1>1, <1>2, <1>4 DEF Fields, SameCall
<1>10. ASSUME next # EndMark, Unwritten, r.off >= (r.n + 2) * CS, Goto(c, y, "walk")
       PROVE  Moves(f0, d0, c)
  <2>1. Go(c, y, "sb", "walk") /\ status' = status /\ fat' = f0 /\ disk' = d0
    BY <1>1, <1>10 DEF Goto, Unwritten
  <2> HIDE DEF y
  <2>2. PICK q : Goes(c, q) /\ DOMAIN q = Fields /\ q.pc = "walk" /\ SameBut(q, y)
    BY <1>9, <2>1, Going
  <2>3. SameCall(q, r) /\ q.cur = f0[cur] /\ q.n = n + 1 /\ q.dir = r.dir /\ q.de = r.de
    BY <1>9, <2>2 DEF SameCall, SameBut
  <2>4. Has(f0, d0, q)
    BY <1>2, <2>3 DEF Has, SameCall, Opened, Leads
  <2>5. q.off >= (q.n + 1) * CS
    BY <1>4, <1>6, <1>10, <2>3, MfsAssumption DEF SameCall
  <2>6. Behind(f0, d0, q)
    BY <1>1, <1>4, <1>5, <1>7, <1>10, <2>2, <2>3, <2>4, <2>5 DEF Behind
  <2>7. Doing(f0, d0, fat', disk', q)
    BY <2>1, <2>6 DEF Doing, Reading
  <2> QED
    BY <1>1, <2>2, <2>3, <2>7, Moving
<1>11. ASSUME next # EndMark, Unwritten, ~ (r.off >= (r.n + 2) * CS), ToData(c, y, next)
       PROVE  Moves(f0, d0, c)
  <2>1. PICK x : x = [y EXCEPT !.cur = next, !.at = Base(next) + (y.off % CS)]
    OBVIOUS
  <2>2. Go(c, x, "sb", "data") /\ status' = status /\ fat' = f0 /\ disk' = d0
    BY <1>1, <1>11, <2>1 DEF ToData, Goto, Unwritten
  <2>3. /\ DOMAIN x = Fields /\ x.cur = f0[cur] /\ x.dir = r.dir /\ x.de = r.de
        /\ SameCall(x, r) /\ x.at = Base(f0[cur]) + (off % CS)
    <3> HIDE DEF y
    <3>1. next = f0[cur]
      BY <1>1, <1>4
    <3> HIDE DEF next
    <3> QED
      BY <1>4, <1>9, <2>1, <3>1 DEF Fields, SameCall
  <2>4. PICK q : Goes(c, q) /\ DOMAIN q = Fields /\ q.pc = "data" /\ SameBut(q, x)
    BY <2>2, <2>3, Going
  <2>5. /\ SameCall(q, r) /\ q.cur = f0[cur] /\ q.dir = r.dir /\ q.de = r.de
        /\ q.at = Base(f0[cur]) + (off % CS)
    BY <2>3, <2>4 DEF SameCall, SameBut
  <2>6. Has(f0, d0, q) /\ q.off = off
    BY <1>2, <1>4, <2>5 DEF Has, SameCall, Opened, Leads
  <2>7. off \div CS = n + 1
    <3>1. (n + 1) * CS <= off /\ off < (n + 1) * CS + CS
      BY <1>4, <1>5, <1>6, <1>11, MfsAssumption
    <3>2. PICK e \in 0..(CS - 1) : off = (n + 1) * CS + e
      <4>1. (n + 1) * CS \in Nat
        BY <1>6, MfsAssumption
      <4>2. off - (n + 1) * CS \in 0..(CS - 1)
        BY <1>6, <3>1, <4>1, MfsAssumption
      <4>3. off = (n + 1) * CS + (off - (n + 1) * CS)
        BY <1>6, <4>1
      <4> QED
        BY <4>2, <4>3
    <3> QED
      BY <1>6, <3>2, DivUnique
  <2>8. Reached(f0, d0, f0, q, q.cur)
    <3>1. f0[cur] \in Cluster
      BY <1>1, <1>4, <1>5, <1>6, <1>11 DEF Table
    <3> QED
      BY <1>5, <1>7, <2>5, <2>6, <2>7, <3>1 DEF Reached
  <2>9. Storing(f0, d0, f0, q)
    BY <2>4, <2>5, <2>6, <2>8 DEF Storing
  <2>10. Doing(f0, d0, fat', disk', q)
    BY <2>2, <2>9 DEF Doing
  <2> QED
    BY <1>1, <2>4, <2>5, <2>10, Moving
<1>12. next = EndMark => Unwritten /\ Goto(c, [r EXCEPT !.prev = r.cur, !.n = 0], "grow")
  BY DEF Walking
<1>13. next # EndMark => Unwritten /\ IF r.off >= (r.n + 2) * CS THEN Goto(c, y, "walk")
                                      ELSE ToData(c, y, next)
  BY DEF Walking
<1> QED
  BY <1>8, <1>10, <1>11, <1>12, <1>13

(* A call takes the index that a search has found.                         *)
LEMMA TakeMoves ==
  ASSUME NEW f0, NEW d0, NEW c, NEW r, Ready(f0, d0, r), r.pc \in {"find", "grow"}, Unwritten,
         NEW i \in find_empty_fat_index(fat), Take(c, r, i)
  PROVE  Moves(f0, d0, c)
<1>1. disk = d0 /\ Asked(f0, d0, r) /\ DOMAIN r = Fields
  BY Phases DEF Ready, Asked
<1>2. CASE r.pc = "find"
  <2>1. fat = f0 /\ Finding(f0, d0, r)
    BY <1>2, Phases DEF Ready
  <2>2. PICK x : x = [r EXCEPT !.head = i]
    OBVIOUS
  <2>3. Go(c, x, "sb", "mark") /\ status' = status /\ fat' = f0 /\ disk' = d0
    BY <1>1, <1>2, <2>1, <2>2 DEF Take, Goto, Unwritten
  <2>4. DOMAIN x = Fields /\ x.dir = r.dir /\ x.head = i /\ SameCall(x, r)
    BY <1>1, <2>2 DEF Fields, SameCall
  <2>5. PICK q : Goes(c, q) /\ DOMAIN q = Fields /\ q.pc = "mark" /\ SameBut(q, x)
    BY <2>3, <2>4, Going
  <2>6. SameCall(q, r) /\ q.dir = r.dir /\ q.head = i
    BY <2>4, <2>5 DEF SameCall, SameBut
  <2>7. Marking(f0, d0, q)
    BY <2>1, <2>5, <2>6 DEF Finding, Marking, SameCall, Leads
  <2>8. Doing(f0, d0, fat', disk', q)
    BY <2>3, <2>7 DEF Doing, Reading
  <2> QED
    BY <1>1, <2>5, <2>6, <2>8, Moving
<1>3. CASE r.pc = "grow"
  <2>1. Grows(f0, d0, fat, r) /\ fat = Marked(f0, r)
    BY <1>3, Phases DEF Ready, Grows
  <2>2. PICK x : x = [r EXCEPT !.cur = i]
    OBVIOUS
  <2>3. Go(c, x, "sb", "link") /\ status' = status /\ fat' = fat /\ disk' = d0
    BY <1>1, <1>3, <2>2 DEF Take, Goto, Unwritten
  <2>4. /\ DOMAIN x = Fields /\ x.dir = r.dir /\ x.head = r.head /\ x.cur = i /\ SameCall(x, r)
        /\ x.prev = r.prev /\ x.de = r.de
    BY <1>1, <2>2 DEF Fields, SameCall
  <2>5. PICK q : Goes(c, q) /\ DOMAIN q = Fields /\ q.pc = "link" /\ SameBut(q, x)
    BY <2>3, <2>4, Going
  <2>6. /\ SameCall(q, r) /\ q.dir = r.dir /\ q.head = r.head /\ q.cur = i /\ q.prev = r.prev
        /\ q.de = r.de
    BY <2>4, <2>5 DEF SameCall, SameBut
  <2>7. /\ Marked(f0, q) = Marked(f0, r) /\ (Making(f0, d0, q) <=> Making(f0, d0, r))
        /\ (Has(f0, d0, q) <=> Has(f0, d0, r)) /\ q.making = r.making
    BY <2>6 DEF Marked, Making, Has, SameCall, Opened, Leads
  <2>8. AtTail(f0, d0, q) <=> AtTail(f0, d0, r)
    BY <2>6, <2>7 DEF AtTail, SameCall
  <2>9. Grows(f0, d0, fat, q)
    BY <2>1, <2>5, <2>6, <2>7, <2>8 DEF Grows
  <2>10. Doing(f0, d0, fat', disk', q)
    BY <2>3, <2>9 DEF Doing
  <2> QED
    BY <1>1, <2>5, <2>6, <2>10, Moving
<1> QED
  BY <1>2, <1>3

(* It reads a sector of the FAT.                                           *)
LEMMA SectorReads ==
  ASSUME NEW f0, NEW d0, NEW c, NEW r, Ready(f0, d0, r), ReadSector(c, r)
  PROVE  Moves(f0, d0, c)
<1>1. /\ disk = d0 /\ Asked(f0, d0, r) /\ DOMAIN r = Fields /\ r.pc \in {"find", "grow"} /\ Unwritten
      /\ Sectors \in Nat
  BY Phases, FirstSector DEF Ready, Asked, ReadSector
<1>2. r.n \in 0..(Sectors - 1) /\ Passed(fat, r.n)
  <2>1. CASE r.pc = "find"
    BY <2>1, Phases DEF Ready, Finding
  <2>2. CASE r.pc = "grow"
    BY <2>2, Phases DEF Ready, Grows
  <2> QED
    BY <1>1, <2>1, <2>2
<1>3. PICK n : n = r.n
  OBVIOUS
<1>4. n \in Nat /\ Passed(fat, n)
  BY <1>1, <1>2, <1>3
<1>5. ASSUME NEW i \in InSector(r.n), \A j \in InSector(r.n) : i <= j, Take(c, r, i)
      PROVE  Moves(f0, d0, c)
  <2>1. i \in find_empty_fat_index(fat)
    BY <1>3, <1>4, <1>5, SectorHit
  <2> QED
    BY <1>1, <1>5, <2>1, TakeMoves
<1>6. ASSUME \A i \in InSector(r.n) : LastInSector(i) PROVE Passed(fat, n + 1)
  BY <1>3, <1>4, <1>6, SectorMiss
<1>7. ASSUME \A i \in InSector(r.n) : LastInSector(i), ~ (r.n + 1 < Sectors), Take(c, r, 0)
      PROVE  Moves(f0, d0, c)
  <2>1. n + 1 \in Nat /\ n + 1 >= Sectors /\ Passed(fat, n + 1)
    BY <1>1, <1>3, <1>4, <1>6, <1>7
  <2>2. 0 \in find_empty_fat_index(fat)
    BY <2>1, SectorsEnd
  <2> QED
    BY <1>1, <1>7, <2>2, TakeMoves
<1>8. ASSUME \A i \in InSector(r.n) : LastInSector(i), r.n + 1 < Sectors,
             Onward(c, [r EXCEPT !.n = @ + 1], r.pc)
      PROVE  Moves(f0, d0, c)
  <2>1. PICK x, pc : x = [r EXCEPT !.n = @ + 1] /\ pc = r.pc
    OBVIOUS
  <2>2. Go(c, x, "seek", pc) /\ status' = status /\ fat' = fat /\ disk' = d0
    BY <1>1, <1>8, <2>1 DEF Onward, Unwritten
  <2>3. /\ DOMAIN x = Fields /\ x.dir = r.dir /\ x.head = r.head /\ x.n = n + 1 /\ SameCall(x, r)
        /\ x.prev = r.prev /\ x.de = r.de
    BY <1>1, <1>3, <2>1 DEF Fields, SameCall
  <2>4. PICK q : Goes(c, q) /\ DOMAIN q = Fields /\ q.pc = pc /\ SameBut(q, x)
    BY <2>2, <2>3, Going
  <2>5. /\ SameCall(q, r) /\ q.dir = r.dir /\ q.head = r.head /\ q.n = n + 1 /\ q.prev = r.prev
        /\ q.de = r.de /\ q.pc = r.pc
    BY <2>1, <2>3, <2>4 DEF SameCall, SameBut
  <2>6. q.n \in 0..(Sectors - 1) /\ Passed(fat, q.n)
    BY <1>1, <1>3, <1>4, <1>6, <1>8, <2>5
  <2>7. CASE r.pc = "find"
    <3>1. fat = f0 /\ Finding(f0, d0, r)
      BY <2>7, Phases DEF Ready
    <3>2. Finding(f0, d0, q)
      BY <2>5, <2>6, <3>1 DEF Finding, SameCall, Leads
    <3>3. Doing(f0, d0, fat', disk', q)
      BY <2>2, <3>1, <3>2 DEF Doing, Reading
    <3> QED
      BY <1>1, <2>4, <2>5, <3>3, Moving
  <2>8. CASE r.pc = "grow"
    <3>1. Grows(f0, d0, fat, r) /\ fat = Marked(f0, r)
      BY <2>8, Phases DEF Ready, Grows
    <3>2. /\ Marked(f0, q) = Marked(f0, r) /\ (Making(f0, d0, q) <=> Making(f0, d0, r))
          /\ (Has(f0, d0, q) <=> Has(f0, d0, r)) /\ q.making = r.making
      BY <2>5 DEF Marked, Making, Has, SameCall, Opened, Leads
    <3>3. AtTail(f0, d0, q) <=> AtTail(f0, d0, r)
      BY <2>5, <3>2 DEF AtTail, SameCall
    <3>4. Grows(f0, d0, fat, q)
      BY <2>5, <2>6, <2>8, <3>1, <3>2, <3>3 DEF Grows
    <3>5. Doing(f0, d0, fat', disk', q)
      BY <2>2, <3>4 DEF Doing
    <3> QED
      BY <1>1, <2>4, <2>5, <3>5, Moving
  <2> QED
    BY <1>1, <2>7, <2>8
<1> QED
  BY <1>5, <1>7, <1>8 DEF ReadSector

(* What a call has found, and what it has made of the FAT, does not change *)
(* as long as it is about the same things.                                 *)
LEMMA SameState ==
  ASSUME NEW f0, NEW d0, NEW r, NEW q, SameCall(q, r), q.dir = r.dir, q.head = r.head,
         q.prev = r.prev, q.de = r.de
  PROVE  /\ Marked(f0, q) = Marked(f0, r) /\ (Making(f0, d0, q) <=> Making(f0, d0, r))
         /\ (Has(f0, d0, q) <=> Has(f0, d0, r)) /\ (AtTail(f0, d0, q) <=> AtTail(f0, d0, r))
<1>1. Marked(f0, q) = Marked(f0, r)
  BY DEF Marked, SameCall
<1>2. /\ (Making(f0, d0, q) <=> Making(f0, d0, r)) /\ (Has(f0, d0, q) <=> Has(f0, d0, r))
  BY DEF Making, Has, SameCall, Opened, Leads
<1>3. AtTail(f0, d0, q) <=> AtTail(f0, d0, r)
  BY <1>1 DEF AtTail, SameCall
<1> QED
  BY <1>1, <1>2, <1>3

(* The cluster of a new entry is marked.                                   *)
LEMMA MarkWrites ==
  ASSUME NEW f0, NEW d0, NEW c, NEW r, Ready(f0, d0, r), r.pc = "mark", WriteIndex(c, r)
  PROVE  Moves(f0, d0, c)
<1>1. /\ disk = d0 /\ fat = f0 /\ Marking(f0, d0, r) /\ Asked(f0, d0, r) /\ Apart(f0, d0)
      /\ DOMAIN r = Fields
  BY Phases DEF Ready, Asked
<1>2. PICK x : x = [r EXCEPT !.cur = r.dir]
  OBVIOUS
<1>3. /\ Go(c, x, "sb", "alloc") /\ status' = status /\ disk' = d0
      /\ fat' = write_in_fat_index(f0, r.head, EndMark)
  BY <1>1, <1>2 DEF WriteIndex, Goto
<1>4. DOMAIN x = Fields /\ x.cur = r.dir /\ x.dir = r.dir /\ x.head = r.head /\ SameCall(x, r)
  BY <1>1, <1>2 DEF Fields, SameCall
<1>5. PICK q : Goes(c, q) /\ DOMAIN q = Fields /\ q.pc = "alloc" /\ SameBut(q, x)
  BY <1>3, <1>4, Going
<1>6. SameCall(q, r) /\ q.cur = q.dir /\ q.dir = r.dir /\ q.head = r.head
  BY <1>4, <1>5 DEF SameCall, SameBut
<1>7. Making(f0, d0, q) /\ fat' = Marked(f0, q)
  BY <1>1, <1>3, <1>6 DEF Marking, Making, Marked, SameCall, Leads
<1>8. q.dir \in Cluster
  BY <1>1, <1>6, CallDir DEF Marking
<1>9. PICK S : S = Free(d0)
  OBVIOUS
<1>10. Comes(fat', q.dir, S, q.dir)
  BY <1>8, SearchStarts
<1>11. Allocating(f0, d0, fat', q)
  BY <1>5, <1>6, <1>7, <1>9, <1>10 DEF Allocating, Searching
<1>12. Doing(f0, d0, fat', disk', q)
  BY <1>3, <1>11 DEF Doing
<1> QED
  BY <1>1, <1>5, <1>6, <1>12, Moving

(* A new cluster is linked to the chain.                                   *)
LEMMA LinkWrites ==
  ASSUME NEW f0, NEW d0, NEW c, NEW r, Ready(f0, d0, r), r.pc = "link", WriteIndex(c, r)
  PROVE  Moves(f0, d0, c)
<1>1. disk = d0 /\ Grows(f0, d0, fat, r) /\ Asked(f0, d0, r) /\ DOMAIN r = Fields
  BY Phases DEF Ready, Asked
<1>2. /\ Go(c, r, "sb", "mark_new") /\ status' = status /\ disk' = d0
      /\ fat' = write_in_fat_index(fat, r.prev, r.cur)
  BY <1>1 DEF WriteIndex, Goto
<1>3. PICK q : Goes(c, q) /\ DOMAIN q = Fields /\ q.pc = "mark_new" /\ SameBut(q, r)
  BY <1>1, <1>2, Going
<1>4. /\ SameCall(q, r) /\ q.dir = r.dir /\ q.head = r.head /\ q.prev = r.prev /\ q.de = r.de
      /\ q.cur = r.cur
  BY <1>3 DEF SameCall, SameBut
<1>5. /\ Marked(f0, q) = Marked(f0, r) /\ (Making(f0, d0, q) <=> Making(f0, d0, r))
      /\ (Has(f0, d0, q) <=> Has(f0, d0, r)) /\ (AtTail(f0, d0, q) <=> AtTail(f0, d0, r))
  BY <1>4, SameState
<1>6. fat = Marked(f0, r) /\ r.cur \in find_empty_fat_index(Marked(f0, r))
  BY <1>1 DEF Grows
<1>7. Grows(f0, d0, fat', q)
  BY <1>1, <1>2, <1>3, <1>4, <1>5, <1>6 DEF Grows, SameCall
<1>8. Doing(f0, d0, fat', disk', q)
  BY <1>2, <1>7 DEF Doing
<1> QED
  BY <1>1, <1>3, <1>4, <1>8, Moving

(* The new cluster is marked as the end of the chain.                      *)
LEMMA MarkNewWrites ==
  ASSUME NEW f0, NEW d0, NEW c, NEW r, Ready(f0, d0, r), r.pc = "mark_new", WriteIndex(c, r)
  PROVE  Moves(f0, d0, c)
<1>1. disk = d0 /\ Grows(f0, d0, fat, r) /\ Asked(f0, d0, r) /\ DOMAIN r = Fields
  BY Phases DEF Ready, Asked
<1>2. /\ status' = status /\ disk' = d0
      /\ fat' = write_in_fat_index(fat, r.cur, EndMark)
      /\ IF r.kind = "write" THEN ToData(c, r, r.cur)
         ELSE Goto(c, [r EXCEPT !.at = Base(r.cur)], "entry")
  BY <1>1 DEF WriteIndex
<1>3. /\ AtTail(f0, d0, r) /\ r.cur \in find_empty_fat_index(Marked(f0, r))
      /\ fat = write_in_fat_index(Marked(f0, r), r.prev, r.cur)
      /\ IF r.making THEN Making(f0, d0, r) ELSE Has(f0, d0, r)
  BY <1>1 DEF Grows
<1>4. fat' = Extended(Marked(f0, r), r.prev, r.cur)
  BY <1>2, <1>3 DEF Extended
<1>5. CASE r.kind = "write"
  <2>1. ~r.making /\ Has(f0, d0, r) /\ Marked(f0, r) = f0
    BY <1>1, <1>3, <1>5 DEF Asked, Marked
  <2>2. PICK x : x = [r EXCEPT !.cur = r.cur, !.at = Base(r.cur) + (r.off % CS)]
    OBVIOUS
  <2>3. Go(c, x, "sb", "data")
    BY <1>2, <1>5, <2>2 DEF ToData, Goto
  <2>4. /\ DOMAIN x = Fields /\ x.cur = r.cur /\ x.dir = r.dir /\ x.head = r.head /\ SameCall(x, r)
        /\ x.prev = r.prev /\ x.de = r.de /\ x.at = Base(r.cur) + (r.off % CS)
    BY <1>1, <2>2 DEF Fields, SameCall
  <2>5. PICK q : Goes(c, q) /\ DOMAIN q = Fields /\ q.pc = "data" /\ SameBut(q, x)
    BY <1>2, <2>3, <2>4, Going
  <2>6. /\ SameCall(q, r) /\ q.dir = r.dir /\ q.head = r.head /\ q.prev = r.prev /\ q.de = r.de
        /\ q.cur = r.cur /\ q.at = Base(q.cur) + (q.off % CS)
    BY <2>4, <2>5 DEF SameCall, SameBut
  <2>7. Has(f0, d0, q) /\ AtTail(f0, d0, q)
    BY <1>3, <2>1, <2>6, SameState
  <2>8. Reached(f0, d0, fat', q, q.cur)
    BY <1>3, <1>4, <2>1, <2>6, <2>7 DEF Reached
  <2>9. Storing(f0, d0, fat', q)
    BY <2>5, <2>6, <2>7, <2>8 DEF Storing
  <2>10. Doing(f0, d0, fat', disk', q)
    BY <1>2, <2>9 DEF Doing
  <2> QED
    BY <1>1, <2>5, <2>6, <2>10, Moving
<1>6. CASE r.kind # "write"
  <2>1. r.making /\ Making(f0, d0, r)
    BY <1>3, <1>6 DEF Has
  <2>2. PICK x : x = [r EXCEPT !.at = Base(r.cur)]
    OBVIOUS
  <2>3. Go(c, x, "sb", "entry")
    BY <1>2, <1>6, <2>2 DEF Goto
  <2>4. /\ DOMAIN x = Fields /\ x.cur = r.cur /\ x.dir = r.dir /\ x.head = r.head /\ SameCall(x, r)
        /\ x.prev = r.prev /\ x.de = r.de /\ x.at = Base(r.cur)
    BY <1>1, <2>2 DEF Fields, SameCall
  <2>5. PICK q : Goes(c, q) /\ DOMAIN q = Fields /\ q.pc = "entry" /\ SameBut(q, x)
    BY <1>2, <2>3, <2>4, Going
  <2>6. /\ SameCall(q, r) /\ q.dir = r.dir /\ q.head = r.head /\ q.prev = r.prev /\ q.de = r.de
        /\ q.cur = r.cur /\ q.at = Base(q.cur)
    BY <2>4, <2>5 DEF SameCall, SameBut
  <2>7. Making(f0, d0, q) /\ AtTail(f0, d0, q) /\ Marked(f0, q) = Marked(f0, r)
    BY <1>3, <2>1, <2>6, SameState
  <2>8. Entering(f0, d0, fat', q)
    BY <1>3, <1>4, <2>5, <2>6, <2>7 DEF Entering
  <2>9. Doing(f0, d0, fat', disk', q)
    BY <1>2, <2>8 DEF Doing
  <2> QED
    BY <1>1, <2>5, <2>6, <2>9, Moving
<1> QED
  BY <1>5, <1>6

(* The entry of a new file or directory is written.                        *)
LEMMA DirentWrites ==
  ASSUME NEW f0, NEW d0, NEW c, NEW r, Ready(f0, d0, r), WriteDirent(c, r)
  PROVE  Returns(f0, d0, c)
<1>1. /\ disk = d0 /\ Entering(f0, d0, fat, r) /\ Asked(f0, d0, r) /\ Apart(f0, d0)
      /\ status = "ok"
  BY Phases DEF Ready, WriteDirent
<1>2. Making(f0, d0, r) /\ r.dir = Leads(f0, d0, r)
      /\ Marked(f0, r) = write_in_fat_index(f0, r.head, EndMark)
  BY <1>1 DEF Entering, Making, Marked
<1>3. PICK f, d : f = Marked(f0, r) /\ d = r.dir
  OBVIOUS
<1>4. Return(c)
  BY DEF WriteDirent, Ruin
<1>5. /\ r.cur = 0 => fat' = fat /\ disk' = d0 /\ status' = "wrecked"
      /\ r.cur # 0 => /\ fat' = fat /\ status' = "ok"
                      /\ disk' = [d0 EXCEPT ![r.at] = Dirent(r.kind, r.name, r.head, 0)]
  BY <1>1 DEF WriteDirent, Ruin
<1>6. MadeInto(f0, d0, r.path, r.name, r.kind, r.head, fat', disk', status')
  <2>1. f = write_in_fat_index(f0, r.head, EndMark) /\ d = get_cluster_number(f0, d0, r.path)
    BY <1>2, <1>3 DEF Leads
  <2>2. CASE r.dir # 0 /\ r.cur # 0 /\ fat = f /\ FirstOnChain(f, d, Free(d0)) = {r.at}
    <3>1. r.at \in FirstOnChain(f, d, Free(d0))
      BY <2>2
    <3> QED
      BY <1>3, <1>5, <2>1, <2>2, <3>1 DEF MadeInto
  <2>3. CASE /\ AtTail(f0, d0, r) /\ r.cur \in find_empty_fat_index(f)
             /\ fat = Extended(f, r.prev, r.cur) /\ r.at = Base(r.cur)
    <3>1. PICK t, new : t = r.prev /\ new = r.cur
      OBVIOUS
    <3>2. /\ t \in Cluster /\ f[t] = EndMark /\ d # 0 /\ t \in Chain(f, d)
          /\ FirstOnChain(f, d, Free(d0)) = {} /\ new \in find_empty_fat_index(f)
      BY <1>2, <1>3, <2>3, <3>1 DEF AtTail, Making
    <3>3. /\ fat' = Extended(f, t, new)
          /\ IF new = 0 THEN disk' = d0 /\ status' = "wrecked"
             ELSE disk' = [d0 EXCEPT ![Base(new)] = Dirent(r.kind, r.name, r.head, 0)] /\ status' = "ok"
      BY <1>5, <2>3, <3>1
    <3> QED
      BY <2>1, <3>2, <3>3 DEF MadeInto
  <2> QED
    BY <1>1, <1>3, <2>2, <2>3 DEF Entering
<1> QED
  BY <1>1, <1>2, <1>4, <1>6, MakeEnds

(* The length a write settles on is a number.                              *)
LEMMA SettledTyped ==
  ASSUME NEW f0, NEW d0, NEW r, Asked(f0, d0, r), r.kind = "write"
  PROVE  Settled(r) \in Int
<1>1. PICK m \in 1..MaxLen : r.buf \in [1..m -> Data]
  BY DEF Asked, Buffers
<1>2. Len(r.buf) \in Nat
  BY <1>1
<1>3. r.off \in Nat /\ r.off % CS \in Int
  BY DivMod, MfsAssumption DEF Asked
<1> QED
  BY <1>2, <1>3, MfsAssumption DEF Settled, valid_len

(* The data is written.                                                    *)
LEMMA DataWrites ==
  ASSUME NEW f0, NEW d0, NEW c, NEW r, Ready(f0, d0, r), WriteData(c, r)
  PROVE  Moves(f0, d0, c) \/ Returns(f0, d0, c)
<1>1. /\ disk = d0 /\ Storing(f0, d0, fat, r) /\ Asked(f0, d0, r) /\ Apart(f0, d0)
      /\ status = "ok" /\ DOMAIN r = Fields
  BY Phases DEF Ready, WriteData, Asked
<1>2. /\ r.kind = "write" /\ ~r.making /\ Has(f0, d0, r) /\ Reached(f0, d0, fat, r, r.cur)
      /\ r.at = Base(r.cur) + (r.off % CS) /\ r.dir = Leads(f0, d0, r)
  BY <1>1 DEF Storing, Has, Asked
<1>3. PICK v : v = Settled(r)
  OBVIOUS
<1>4. v \in Int
  BY <1>1, <1>2, <1>3, SettledTyped
<1>5. CASE r.cur = 0 \/ v < 0
  <2>1. Ruin(c)
    BY <1>3, <1>5 DEF WriteData, Settled
  <2> QED
    BY <1>1, <1>3, <1>5, <2>1, WriteRuins
<1>6. CASE ~ (r.cur = 0 \/ v < 0)
  <2>1. PICK x : x = [r EXCEPT !.de.size = @ + v, !.cur = r.dir]
    OBVIOUS
  <2>2. /\ Go(c, x, "sb", "reread") /\ fat' = fat /\ status' = status
        /\ disk' = [a \in Addr |-> IF a \in r.at..(r.at + v - 1)
                                   THEN Datum(r.buf[a - r.at + 1]) ELSE disk[a]]
    BY <1>3, <1>6, <2>1 DEF WriteData, Settled, Goto
  <2>3. /\ DOMAIN x = Fields /\ x.cur = r.dir /\ x.dir = r.dir /\ x.prev = r.prev /\ SameCall(x, r)
        /\ x.head = r.head /\ x.de = [r.de EXCEPT !.size = @ + v]
    BY <1>1, <2>1 DEF Fields, SameCall
  <2>4. PICK q : Goes(c, q) /\ DOMAIN q = Fields /\ q.pc = "reread" /\ SameBut(q, x)
    BY <2>2, <2>3, Going
  <2>5. /\ SameCall(q, r) /\ q.cur = r.dir /\ q.dir = r.dir /\ q.prev = r.prev
        /\ q.de = [r.de EXCEPT !.size = @ + v]
    BY <2>3, <2>4 DEF SameCall, SameBut
  <2>6. PICK a \in Opened(f0, d0, r) : r.de = d0[a] /\ d0[a] \in Dirents
    BY <1>1, <1>2, OpenedIs DEF Has
  <2>7. Settled(q) = v /\ Opened(f0, d0, q) = Opened(f0, d0, r) /\ Leads(f0, d0, q) = r.dir
    BY <1>2, <1>3, <2>5 DEF Settled, SameCall, Opened, Leads
  <2>8. HasGrown(f0, d0, q, Settled(q)) /\ q.de.head = r.de.head
    <3>1. q.de = [d0[a] EXCEPT !.size = @ + v] /\ q.de.head = d0[a].head
      BY <2>5, <2>6 DEF Dirents
    <3> QED
      BY <1>2, <2>5, <2>6, <2>7, <3>1 DEF HasGrown, SameCall
  <2>9. PICK cl : cl = r.cur
    OBVIOUS
  <2>10. cl \in Cluster \ {0} /\ Reached(f0, d0, fat, r, cl)
    BY <1>2, <1>6, <2>9, FoundIsUnused DEF Reached
  <2>11. AtTail(f0, d0, q) <=> AtTail(f0, d0, r)
    BY <1>2, <2>5, <2>8 DEF AtTail, SameCall, Marked
  <2>12. Reached(f0, d0, fat', q, cl)
    BY <2>2, <2>5, <2>8, <2>10, <2>11 DEF Reached, SameCall
  <2>13. disk' = Stored(d0, cl, q)
    BY <1>1, <1>2, <2>2, <2>5, <2>7, <2>9 DEF Stored, SameCall
  <2>14. q.dir \in Cluster
    BY <1>1, <1>2, <2>5, CallDir
  <2>15. Comes(fat', q.dir, Named(disk', {"file"}, q.name), q.cur)
    BY <2>5, <2>14, SearchStarts
  <2>16. Updating(f0, d0, fat', disk', q)
    BY <1>4, <1>6, <2>4, <2>7, <2>8, <2>10, <2>12, <2>13, <2>15 DEF Updating, Searching
  <2>17. Doing(f0, d0, fat', disk', q)
    BY <2>16 DEF Doing
  <2> QED
    BY <1>1, <2>4, <2>5, <2>17, Moving
<1> QED
  BY <1>5, <1>6

(* The cluster with the entry is written back.                             *)
LEMMA ClusterWrites ==
  ASSUME NEW f0, NEW d0, NEW c, NEW r, Ready(f0, d0, r), WriteCluster(c, r)
  PROVE  Returns(f0, d0, c)
<1>1. /\ Updating(f0, d0, fat, disk, r) /\ Asked(f0, d0, r) /\ Apart(f0, d0)
      /\ r.pc = "update" /\ Return(c) /\ fat' = fat /\ status' = status
  BY Phases DEF Ready, WriteCluster
<1>2. r.kind = "write" /\ r.dir = Leads(f0, d0, r) /\ r.dir \in Cluster
  BY <1>1, CallDir DEF Updating, HasGrown
<1>3. PICK a \in FirstOnChain(fat, r.dir, Named(disk, {"file"}, r.name)) :
        ClusterOf(a) = r.cur /\ r.copy = Patched(disk, r, a)
  BY <1>1 DEF Updating, Searching
<1>4. \A b : b \in get_dentry(fat, disk, r.dir, r.name) <=> b = a
  BY <1>3, SearchFindsOne DEF get_dentry
<1>5. a \in Addr
  BY <1>3, SearchIsSound DEF Named
<1>6. ASSUME NEW b \in Addr
      PROVE  (IF b \div CS + 2 = r.cur THEN r.copy[b % CS] ELSE disk[b])
               = IF b \in get_dentry(fat, disk, r.dir, r.name) THEN r.de ELSE disk[b]
  <2>1. CASE b \div CS + 2 = r.cur
    <3>1. b % CS \in 0..(CS - 1) /\ Base(r.cur) + (b % CS) = b
      BY <2>1, ClusterOfSlot
    <3>2. r.copy[b % CS] = IF b = a THEN r.de ELSE disk[b]
      BY <1>3, <3>1 DEF Patched
    <3> QED
      BY <1>4, <2>1, <3>2
  <2>2. CASE b \div CS + 2 # r.cur
    <3>1. b # a
      BY <1>3, <2>2 DEF ClusterOf
    <3> QED
      BY <1>4, <2>2, <3>1
  <2> QED
    BY <2>1, <2>2
<1>7. disk' = [b \in Addr |-> IF b \in get_dentry(fat, disk, r.dir, r.name) THEN r.de ELSE disk[b]]
  BY <1>6 DEF WriteCluster
<1>8. disk' = alloc_new_entry(fat, disk, r.dir, r.name, r.de)
  BY <1>7 DEF alloc_new_entry
<1> QED
  BY <1>1, <1>8, WriteEnds

-----------------------------------------------------------------------------
(* Every transfer takes a call on or ends it.                              *)
LEMMA Effects ==
  ASSUME NEW f0, NEW d0, NEW c, NEW r, Ready(f0, d0, r), Effect(c, r)
  PROVE  Moves(f0, d0, c) \/ Returns(f0, d0, c)
<1>1. CASE RouteEnd(c, r)
  BY <1>1, RouteEnds
<1>2. CASE ReadCluster(c, r)
  <2>1. r.pc \in ClusterReads
    BY <1>2 DEF ReadCluster
  <2> QED
    BY <1>2, <2>1, RouteReads, LookupReads, DentryReads, AllocReads, EntryReads DEF ClusterReads
<1>3. CASE ReadIndex(c, r)
  <2>1. r.pc \in IndexReads \ {"walk"}
    BY <1>3 DEF ReadIndex
  <2> QED
    BY <1>3, <2>1, RouteNext, LookupNext, DentryNext, AllocNext, EntryNext DEF IndexReads
<1>4. CASE Walking(c, r)
  BY <1>4, WalksOn
<1>5. CASE ReadSector(c, r)
  BY <1>5, SectorReads
<1>6. CASE WriteIndex(c, r)
  <2>1. r.pc \in {"mark", "link", "mark_new"}
    BY <1>6 DEF WriteIndex
  <2> QED
    BY <1>6, <2>1, MarkWrites, LinkWrites, MarkNewWrites
<1>7. CASE WriteDirent(c, r)
  BY <1>7, DirentWrites
<1>8. CASE WriteData(c, r)
  BY <1>8, DataWrites
<1>9. CASE WriteCluster(c, r)
  BY <1>9, ClusterWrites
<1> QED
  BY <1>1, <1>2, <1>3, <1>4, <1>5, <1>6, <1>7, <1>8, <1>9 DEF Effect

(* The instance of Mfs means by its operators what Mfs means.              *)
LEMMA AtomicTables ==
  ASSUME NEW f
  PROVE  /\ Atomic!find_empty_fat_index(f) = find_empty_fat_index(f)
         /\ \A i, v : Atomic!write_in_fat_index(f, i, v) = write_in_fat_index(f, i, v)
         /\ \A t, i : Atomic!Extended(f, t, i) = Extended(f, t, i)
         /\ \A h : Atomic!Walk(f, h) = Walk(f, h) /\ Atomic!Chain(f, h) = Chain(f, h)
<1>1. Atomic!find_empty_fat_index(f) = find_empty_fat_index(f)
  BY DEF Atomic!find_empty_fat_index, find_empty_fat_index, Atomic!Probed, Probed, Atomic!Index, Index,
         Atomic!LastInSector, LastInSector
<1>2. /\ \A i, v : Atomic!write_in_fat_index(f, i, v) = write_in_fat_index(f, i, v)
      /\ \A t, i : Atomic!Extended(f, t, i) = Extended(f, t, i)
  BY DEF Atomic!write_in_fat_index, write_in_fat_index, Atomic!Extended, Extended
<1>3. \A h : Atomic!Walk(f, h) = Walk(f, h)
  BY DEF Atomic!Walk, Walk, Atomic!After, After, Atomic!read_fat_index, read_fat_index
<1>4. \A h : Atomic!Chain(f, h) = Chain(f, h)
  BY <1>3 DEF Atomic!Chain, Chain
<1> QED
  BY <1>1, <1>2, <1>3, <1>4

(* So do its searches, ...                                                 *)
LEMMA AtomicSearches ==
  ASSUME NEW f, NEW dk
  PROVE  /\ \A d, S : Atomic!FirstOnChain(f, d, S) = FirstOnChain(f, d, S)
         /\ Atomic!Free(dk) = Free(dk) /\ Atomic!Cluster = Cluster /\ Atomic!Paths = Paths
         /\ \A d, n : Atomic!get_dentry(f, dk, d, n) = get_dentry(f, dk, d, n)
<1> USE DEF Atomic!FirstOnChain, FirstOnChain, Atomic!Walk, Walk, Atomic!After, After,
            Atomic!read_fat_index, read_fat_index, Atomic!Base, Base, Atomic!Addr, Addr
<1>1. \A d, S : Atomic!FirstOnChain(f, d, S) = FirstOnChain(f, d, S)
  OBVIOUS
<1>2. Atomic!Free(dk) = Free(dk)
  BY DEF Atomic!Free, Free, Atomic!Blank, Blank
<1>3. Atomic!Cluster = Cluster /\ Atomic!Paths = Paths
  BY DEF Atomic!Cluster, Cluster, Atomic!Index, Index, Atomic!Paths, Paths
<1>4. \A d, n : Atomic!get_dentry(f, dk, d, n) = get_dentry(f, dk, d, n)
  BY DEF Atomic!get_dentry, get_dentry, Atomic!Named, Named
<1> QED
  BY <1>1, <1>2, <1>3, <1>4

(* ... its paths, ...                                                      *)
LEMMA AtomicPaths ==
  ASSUME NEW f, NEW dk, NEW p
  PROVE  /\ Atomic!get_cluster_number(f, dk, p) = get_cluster_number(f, dk, p)
         /\ Atomic!IsDir(f, dk, p) = IsDir(f, dk, p)
         /\ \A n : Atomic!Find(f, dk, p, n) = Find(f, dk, p, n)
<1> USE DEF Atomic!get_cluster_number, get_cluster_number, Atomic!RootCluster, RootCluster,
            Atomic!FirstOnChain, FirstOnChain, Atomic!Walk, Walk, Atomic!After, After,
            Atomic!read_fat_index, read_fat_index, Atomic!Base, Base,
            Atomic!Named, Named, Atomic!Addr, Addr
<1>1. Atomic!get_cluster_number(f, dk, p) = get_cluster_number(f, dk, p)
  OBVIOUS
<1>2. Atomic!IsDir(f, dk, p) = IsDir(f, dk, p)
  BY DEF Atomic!IsDir, IsDir, Atomic!Find, Find, Atomic!mfs_lookup, mfs_lookup, Atomic!Prefix,
         Prefix, Atomic!FileOrDir, FileOrDir
<1>3. \A n : Atomic!Find(f, dk, p, n) = Find(f, dk, p, n)
  BY DEF Atomic!Find, Find, Atomic!mfs_lookup, mfs_lookup, Atomic!FileOrDir, FileOrDir
<1> QED
  BY <1>1, <1>2, <1>3

(* ... and its entries.                                                    *)
LEMMA AtomicEntries ==
  ASSUME NEW f, NEW dk, NEW d, NEW n, NEW de
  PROVE  /\ Atomic!alloc_new_entry(f, dk, d, n, de) = alloc_new_entry(f, dk, d, n, de)
         /\ \A attr, head, size : Atomic!Dirent(attr, n, head, size) = Dirent(attr, n, head, size)
         /\ \A v : Atomic!Datum(v) = Datum(v)
         /\ \A len, co : Atomic!valid_len(len, co) = valid_len(len, co)
         /\ \A cl : Atomic!Base(cl) = Base(cl)
         /\ Atomic!Addr = Addr /\ Atomic!Buffers = Buffers
<1>1. Atomic!alloc_new_entry(f, dk, d, n, de) = alloc_new_entry(f, dk, d, n, de)
  BY DEF Atomic!alloc_new_entry, alloc_new_entry, Atomic!get_dentry, get_dentry,
         Atomic!FirstOnChain, FirstOnChain, Atomic!Walk, Walk, Atomic!After, After,
         Atomic!read_fat_index, read_fat_index, Atomic!Base, Base,
         Atomic!Named, Named, Atomic!Addr, Addr
<1>2. \A attr, head, size : Atomic!Dirent(attr, n, head, size) = Dirent(attr, n, head, size)
  BY DEF Atomic!Dirent, Dirent
<1>3. /\ \A v : Atomic!Datum(v) = Datum(v)
      /\ \A len, co : Atomic!valid_len(len, co) = valid_len(len, co)
      /\ \A cl : Atomic!Base(cl) = Base(cl)
      /\ Atomic!Addr = Addr /\ Atomic!Buffers = Buffers
  BY DEF Atomic!Datum, Datum, Atomic!valid_len, valid_len, Atomic!Base, Base, Atomic!Addr, Addr,
         Atomic!Buffers, Buffers
<1> QED
  BY <1>1, <1>2, <1>3

-----------------------------------------------------------------------------
(* The variables of the instance.                                          *)
WasSeen(f0, d0) == seen = [fat |-> f0, disk |-> d0, status |-> "ok"]
IsSeen(g, dk, st) == seen' = [fat |-> g, disk |-> dk, status |-> st]

(* A creation, as an action of the instance.                               *)
LEMMA MakeSteps ==
  ASSUME NEW f0, NEW d0, NEW g, NEW dk, NEW st, WasSeen(f0, d0), IsSeen(g, dk, st),
         NEW p, NEW n, NEW attr, NEW head \in find_empty_fat_index(f0),
         MadeInto(f0, d0, p, n, attr, head, g, dk, st)
  PROVE  Atomic!Make(p, n, attr)
<1>1. /\ seen.fat = f0 /\ seen.disk = d0 /\ seen.status = "ok"
      /\ seen'.fat = g /\ seen'.disk = dk /\ seen'.status = st
  BY DEF WasSeen, IsSeen
<1> DEFINE f == write_in_fat_index(f0, head, EndMark)
           d == get_cluster_number(f0, d0, p)
           de == Dirent(attr, n, head, 0)
<1>2. SUFFICES IF d = 0 THEN g = f /\ Atomic!Wreck ELSE Atomic!alloc_new_dirent(f, d, de)
  <2>1. /\ head \in Atomic!find_empty_fat_index(f0) /\ Atomic!write_in_fat_index(f0, head, EndMark) = f
        /\ Atomic!get_cluster_number(f0, d0, p) = d /\ Atomic!Dirent(attr, n, head, 0) = de
    BY AtomicTables, AtomicPaths, AtomicEntries
  <2> HIDE DEF f, d, de
  <2>2. ASSUME IF d = 0 THEN g = f /\ Atomic!Wreck ELSE Atomic!alloc_new_dirent(f, d, de)
        PROVE  Atomic!Make(p, n, attr)
    BY <1>1, <2>1, <2>2 DEF Atomic!Make
  <2> QED
    BY <2>2
<1>3. CASE d = 0 /\ g = f /\ dk = d0 /\ st = "wrecked"
  BY <1>1, <1>3 DEF Atomic!Wreck
<1> DEFINE slots == FirstOnChain(f, d, Free(d0))
<1>4. Atomic!FirstOnChain(f, d, Atomic!Free(d0)) = slots
  BY AtomicSearches
<1>5. CASE d # 0 /\ g = f /\ st = "ok" /\ \E a \in slots : dk = [d0 EXCEPT ![a] = de]
  <2> HIDE DEF f, d, de, slots
  <2> QED
    BY <1>1, <1>4, <1>5 DEF Atomic!alloc_new_dirent
<1>6. CASE /\ d # 0 /\ slots = {}
           /\ \E tail \in Cluster, new \in find_empty_fat_index(f) :
                /\ tail \in Chain(f, d) /\ f[tail] = EndMark
                /\ g = Extended(f, tail, new)
                /\ IF new = 0 THEN dk = d0 /\ st = "wrecked"
                   ELSE dk = [d0 EXCEPT ![Base(new)] = de] /\ st = "ok"
  <2> HIDE DEF f, d, de, slots
  <2>1. PICK tail \in Cluster, new \in find_empty_fat_index(f) :
                /\ tail \in Chain(f, d) /\ f[tail] = EndMark
                /\ g = Extended(f, tail, new)
                /\ IF new = 0 THEN dk = d0 /\ st = "wrecked"
                   ELSE dk = [d0 EXCEPT ![Base(new)] = de] /\ st = "ok"
    BY <1>6
  <2>2. /\ tail \in Atomic!Cluster /\ new \in Atomic!find_empty_fat_index(f)
        /\ tail \in Atomic!Chain(f, d) /\ g = Atomic!Extended(f, tail, new)
        /\ Atomic!Base(new) = Base(new)
    BY <2>1, AtomicTables, AtomicSearches, AtomicEntries
  <2>3. IF new = 0 THEN Atomic!Wreck
        ELSE seen'.disk = [seen.disk EXCEPT ![Base(new)] = de] /\ seen'.status = seen.status
    BY <1>1, <2>1 DEF Atomic!Wreck
  <2> QED
    BY <1>1, <1>4, <1>6, <2>1, <2>2, <2>3 DEF Atomic!alloc_new_dirent
<1> QED
  BY <1>3, <1>5, <1>6 DEF MadeInto

(* A write, as an action of the instance.                                  *)
LEMMA WriteSteps ==
  ASSUME NEW f0, NEW d0, NEW g, NEW dk, NEW st, Apart(f0, d0), WasSeen(f0, d0), IsSeen(g, dk, st),
         NEW d, NEW n, NEW off \in 0..MaxSize, NEW buf,
         NEW a \in get_dentry(f0, d0, d, n), NEW cl \in Cluster,
         d0[a].size + Len(buf) <= MaxSize,
         ArrivedAt(f0, d0[a].head, off, g, cl), WroteInto(f0, d0, d, n, a, off, buf, cl, g, dk, st)
  PROVE  Atomic!WriteEntry(d, a, off, buf)
<1>1. /\ seen.fat = f0 /\ seen.disk = d0 /\ seen.status = "ok"
      /\ seen'.fat = g /\ seen'.disk = dk /\ seen'.status = st
  BY DEF WasSeen, IsSeen
<1>2. a \in EntriesOf(d0) /\ d0[a].name = n
  BY SearchIsSound DEF get_dentry, Named, EntriesOf, FileOrDir
<1>3. d0[a].head \in HeadsOf(d0) /\ d0[a].head \in Cluster
  BY <1>2, EntriesTyped DEF Apart
<1> DEFINE w == Walk(f0, d0[a].head)
           q == off \div CS
<1>4. Atomic!Walk(f0, d0[a].head) = w
  BY AtomicTables
<1>5. Atomic!Store(g, d, d0[a], cl, off % CS, buf)
  <2>1. PICK co : co = off % CS
    OBVIOUS
  <2> DEFINE v == valid_len(Len(buf), co)
             at == Base(cl) + co
             stored == [b \in Addr |-> IF b \in at..(at + v - 1) THEN Datum(buf[b - at + 1]) ELSE d0[b]]
             de == [d0[a] EXCEPT !.size = @ + v]
  <2>2. /\ Atomic!valid_len(Len(buf), co) = v /\ Atomic!Base(cl) = Base(cl) /\ Atomic!Addr = Addr
        /\ \A x : Atomic!Datum(x) = Datum(x)
        /\ Atomic!alloc_new_entry(g, stored, d, n, de) = alloc_new_entry(g, stored, d, n, de)
    BY AtomicEntries
  <2>3. [b \in Addr |-> IF b \in at..(at + v - 1) THEN Atomic!Datum(buf[b - at + 1]) ELSE d0[b]] = stored
    BY <2>2
  <2>4. IF cl = 0 \/ v < 0 THEN dk = d0 /\ st = "wrecked"
        ELSE st = "ok" /\ dk = alloc_new_entry(g, stored, d, n, de)
    BY <2>1 DEF WroteInto
  <2>5. IF cl = 0 \/ v < 0 THEN Atomic!Wreck
        ELSE seen'.disk = Atomic!alloc_new_entry(g, stored, d, n, de) /\ seen'.status = seen.status
    <3> HIDE DEF v, stored, de
    <3> QED
      BY <1>1, <2>2, <2>4 DEF Atomic!Wreck
  <2> SUFFICES Atomic!Store(g, d, d0[a], cl, co, buf)
    BY <2>1
  <2>6. /\ d0[a].name = n
    BY <1>2
  <2> QED
    BY <1>1, <2>2, <2>3, <2>5, <2>6 DEF Atomic!Store
<1>6. q \in 0..MaxIndex
  <2>1. off \in Nat /\ off <= CS * MaxIndex
    BY MfsAssumption, FatAssumption
  <2>2. q \in Nat /\ off = CS * q + (off % CS) /\ off % CS \in 0..(CS - 1)
    BY <2>1, DivMod
  <2> HIDE DEF q
  <2>3. q <= MaxIndex
    <3> SUFFICES ASSUME q >= MaxIndex + 1 PROVE FALSE
      BY <2>2, FatAssumption
    <3>1. CS * q >= CS * (MaxIndex + 1)
      BY <2>2, FatAssumption, MfsAssumption
    <3>2. CS * (MaxIndex + 1) = CS * MaxIndex + CS /\ CS * MaxIndex \in Nat /\ CS * q \in Nat
      BY <2>2, FatAssumption, MfsAssumption
    <3> QED
      BY <2>1, <2>2, <3>1, <3>2, MfsAssumption
  <2> QED
    BY <2>2, <2>3, FatAssumption
<1>7. CASE g = f0 /\ cl = w[q]
  <2>1. \A k \in 0..q : w[k] # EndMark
    <3> SUFFICES ASSUME NEW k \in 0..q, w[k] = EndMark PROVE FALSE
      OBVIOUS
    <3> HIDE DEF q
    <3>1. k \in 0..MaxIndex /\ q \in k..MaxIndex
      BY <1>6, FatAssumption
    <3>2. w[q] = EndMark
      BY <3>1, WalkStaysAtEnd
    <3> QED
      BY <1>7, <3>2, NotAnIndex
  <2>2. Atomic!WriteInChain(d, d0[a], off, buf)
    <3> HIDE DEF w, q
    <3>1. cl \in Atomic!Cluster /\ seen'.fat = seen.fat
      BY <1>1, <1>7, AtomicSearches
    <3>2. Atomic!Store(seen.fat, d, d0[a], cl, off % CS, buf)
      BY <1>1, <1>5, <1>7
    <3>3. \A k \in 0..q : Atomic!Walk(seen.fat, d0[a].head)[k] # EndMark
      BY <1>1, <1>4, <2>1
    <3>4. cl = Atomic!Walk(seen.fat, d0[a].head)[q]
      BY <1>1, <1>4, <1>7
    <3> QED
      BY <3>1, <3>2, <3>3, <3>4 DEF Atomic!WriteInChain, q
  <2> QED
    BY <1>1, <2>2 DEF Atomic!WriteEntry
<1>8. CASE \E tail \in Cluster :
             /\ f0[tail] = EndMark
             /\ \E k \in 0..(q - 1) : w[k] = tail
             /\ cl \in find_empty_fat_index(f0)
             /\ g = Extended(f0, tail, cl)
  <2> HIDE DEF w, q
  <2>1. PICK tail \in Cluster :
             /\ f0[tail] = EndMark
             /\ \E k \in 0..(q - 1) : w[k] = tail
             /\ cl \in find_empty_fat_index(f0)
             /\ g = Extended(f0, tail, cl)
    BY <1>8
  <2>2. /\ tail \in Atomic!Cluster /\ cl \in Atomic!find_empty_fat_index(f0)
        /\ g = Atomic!Extended(f0, tail, cl)
    BY <2>1, AtomicTables, AtomicSearches
  <2>3. Atomic!WriteExtending(d, d0[a], off, buf)
    BY <1>1, <1>4, <1>5, <2>1, <2>2 DEF Atomic!WriteExtending, q
  <2> QED
    BY <1>1, <2>3 DEF Atomic!WriteEntry
<1> QED
  BY <1>7, <1>8 DEF ArrivedAt

(* What a call has done to the volume when it returns, Mfs does in a step. *)
LEMMA OutcomeSteps ==
  ASSUME NEW f0, NEW d0, NEW g, NEW dk, NEW st, Apart(f0, d0), WasSeen(f0, d0), IsSeen(g, dk, st),
         Outcome(f0, d0, g, dk, st)
  PROVE  [Atomic!NextLookedUp]_seen
<1>1. /\ seen.fat = f0 /\ seen.disk = d0 /\ seen.status = "ok"
      /\ seen'.fat = g /\ seen'.disk = dk /\ seen'.status = st
  BY DEF WasSeen, IsSeen
<1>2. CASE g = f0 /\ dk = d0 /\ st = "ok"
  BY <1>2 DEF WasSeen, IsSeen
<1>3. ASSUME NEW p \in Paths, NEW n \in Names, NEW attr \in FileOrDir,
             NEW head \in find_empty_fat_index(f0),
             IsDir(f0, d0, p), Find(f0, d0, p, n) = {},
             MadeInto(f0, d0, p, n, attr, head, g, dk, st)
      PROVE  Atomic!NextLookedUp
  <2>1. Atomic!Make(p, n, attr)
    BY <1>3, MakeSteps
  <2>2. p \in Atomic!Paths /\ Atomic!IsDir(f0, d0, p) /\ Atomic!Find(f0, d0, p, n) = {}
    BY <1>3, AtomicSearches, AtomicPaths
  <2>3. attr = "file" \/ attr = "dir"
    BY DEF FileOrDir
  <2>4. Atomic!mfs_create(p, n) \/ Atomic!mfs_mkdir(p, n)
    BY <1>1, <2>1, <2>2, <2>3 DEF Atomic!mfs_create, Atomic!mfs_mkdir
  <2> QED
    BY <1>1, <2>2, <2>4
       DEF Atomic!NextLookedUp, Atomic!CreateNew, Atomic!MkdirNew, Atomic!Absent
<1>4. ASSUME NEW p \in Paths, NEW n \in Names, NEW off \in 0..MaxSize, NEW buf \in Buffers,
             IsDir(f0, d0, p), NEW a \in get_dentry(f0, d0, get_cluster_number(f0, d0, p), n),
             NEW cl \in Cluster, MayWrite(d0[a], off, buf),
             ArrivedAt(f0, d0[a].head, off, g, cl),
             WroteInto(f0, d0, get_cluster_number(f0, d0, p), n, a, off, buf, cl, g, dk, st)
      PROVE  Atomic!NextLookedUp
  <2>1. PICK d : d = get_cluster_number(f0, d0, p)
    OBVIOUS
  <2>2. Atomic!WriteEntry(d, a, off, buf)
    BY <1>4, <2>1, WriteSteps DEF MayWrite
  <2>3. p \in Atomic!Paths /\ Atomic!IsDir(f0, d0, p) /\ Atomic!get_cluster_number(f0, d0, p) = d
        /\ a \in Atomic!get_dentry(f0, d0, d, n) /\ buf \in Atomic!Buffers
    BY <1>4, <2>1, AtomicSearches, AtomicPaths, AtomicEntries
  <2>4. Atomic!WriteFile(p, n, off, buf)
    BY <1>1, <2>2, <2>3 DEF Atomic!WriteFile
  <2> QED
    BY <2>3, <2>4 DEF Atomic!NextLookedUp, Atomic!Write
<1>5. CASE \E p \in Paths, n \in Names, attr \in FileOrDir, head \in find_empty_fat_index(f0) :
             /\ IsDir(f0, d0, p) /\ Find(f0, d0, p, n) = {}
             /\ MadeInto(f0, d0, p, n, attr, head, g, dk, st)
  BY <1>3, <1>5
<1>6. CASE \E p \in Paths, n \in Names, off \in 0..MaxSize, buf \in Buffers :
             LET d == get_cluster_number(f0, d0, p) IN
             /\ IsDir(f0, d0, p)
             /\ \E a \in get_dentry(f0, d0, d, n), cl \in Cluster :
                  /\ MayWrite(d0[a], off, buf)
                  /\ ArrivedAt(f0, d0[a].head, off, g, cl)
                  /\ WroteInto(f0, d0, d, n, a, off, buf, cl, g, dk, st)
  BY <1>4, <1>6
<1> QED
  BY <1>2, <1>5, <1>6 DEF Outcome

(* What a call leaves has chains apart when it found them so: a creation   *)
(* adds one entry, whose head it has marked, ...                           *)
LEMMA MadeApart ==
  ASSUME NEW f0, NEW d0, NEW g, NEW dk, Apart(f0, d0), NEW p, NEW n \in Names,
         NEW attr \in FileOrDir, NEW head \in find_empty_fat_index(f0),
         MadeInto(f0, d0, p, n, attr, head, g, dk, "ok")
  PROVE  Apart(g, dk)
<1> DEFINE f == write_in_fat_index(f0, head, EndMark)
           d == get_cluster_number(f0, d0, p)
           de == Dirent(attr, n, head, 0)
           H == HeadsOf(d0) \cup {head}
<1>1. f \in Table /\ H \in SUBSET Cluster /\ ChainsApart(f, H)
  BY MarkedIs
<1>2. head \in Cluster /\ d0 \in [Addr -> Slot]
  BY FoundIsUnused DEF Apart
<1>3. de \in Slot /\ de.head = head
  BY <1>2 DEF Dirent, Dirents, Slot
<1> HIDE DEF f, de, H, d
<1>4. ASSUME NEW a \in Addr, dk = [d0 EXCEPT ![a] = de]
      PROVE  dk \in [Addr -> Slot] /\ HeadsOf(dk) \in SUBSET H
  <2>1. dk \in [Addr -> Slot] /\ dk[a] = de /\ \A b \in Addr \ {a} : dk[b] = d0[b]
    BY <1>2, <1>3, <1>4
  <2>2. \A b \in EntriesOf(dk) : b = a \/ b \in EntriesOf(d0)
    BY <2>1 DEF EntriesOf
  <2>3. \A b \in EntriesOf(dk) : dk[b].head \in H
    BY <1>3, <2>1, <2>2 DEF HeadsOf, H, EntriesOf
  <2> QED
    BY <2>1, <2>3 DEF HeadsOf, H
<1>5. CASE g = f /\ \E a \in FirstOnChain(f, d, Free(d0)) : dk = [d0 EXCEPT ![a] = de]
  <2>1. \E a \in Addr : dk = [d0 EXCEPT ![a] = de]
    BY <1>5, SearchIsSound DEF Free
  <2> QED
    BY <1>1, <1>4, <1>5, <2>1, FewerHeads DEF Apart
<1>6. CASE \E tail \in Cluster, new \in find_empty_fat_index(f) :
             /\ f[tail] = EndMark /\ g = Extended(f, tail, new) /\ new # 0
             /\ dk = [d0 EXCEPT ![Base(new)] = de]
  <2>1. PICK tail \in Cluster, new \in find_empty_fat_index(f) :
             /\ f[tail] = EndMark /\ g = Extended(f, tail, new) /\ new # 0
             /\ dk = [d0 EXCEPT ![Base(new)] = de]
    BY <1>6
  <2>2. g \in Table /\ ChainsApart(g, H) /\ new \in Index
    BY <1>1, <2>1, GrownIs
  <2>3. 0 \in 0..(CS - 1) /\ Base(new) + 0 = Base(new)
    BY <2>2, MfsAssumption, FatAssumption DEF Base, Index
  <2>4. Base(new) \in Addr
    BY <2>2, <2>3, SlotOfCluster
  <2> QED
    BY <1>4, <2>1, <2>2, <2>4, FewerHeads DEF Apart
<1>7. "ok" # "wrecked"
  OBVIOUS
<1> QED
  BY <1>5, <1>6, <1>7 DEF MadeInto, f, d, de

(* ... a write adds none.                                                  *)
LEMMA WroteApart ==
  ASSUME NEW f0, NEW d0, NEW g, NEW dk, Apart(f0, d0), NEW d, NEW n, NEW off \in 0..MaxSize,
         NEW buf \in Buffers, NEW a \in get_dentry(f0, d0, d, n), NEW cl \in Cluster,
         ArrivedAt(f0, d0[a].head, off, g, cl),
         WroteInto(f0, d0, d, n, a, off, buf, cl, g, dk, "ok")
  PROVE  Apart(g, dk)
<1> DEFINE v == valid_len(Len(buf), off % CS)
           at == Base(cl) + (off % CS)
           stored == [b \in Addr |-> IF b \in at..(at + v - 1) THEN Datum(buf[b - at + 1]) ELSE d0[b]]
           de == [d0[a] EXCEPT !.size = @ + v]
<1>1. cl # 0 /\ ~ (v < 0) /\ dk = alloc_new_entry(g, stored, d, n, de)
  BY DEF WroteInto
<1>2. off \in Nat /\ off % CS \in 0..(CS - 1)
  BY DivMod, MfsAssumption
<1>3. Len(buf) \in Nat /\ buf \in [1..Len(buf) -> Data]
  BY DEF Buffers
<1>4. v \in Nat /\ v <= Len(buf)
  <2>1. v \in Int
    BY <1>2, <1>3, MfsAssumption DEF valid_len
  <2> QED
    BY <1>1, <1>2, <1>3, <2>1, ValidLenFits
<1>5. /\ a \in EntriesOf(d0) /\ d0 \in [Addr -> Slot] /\ d0[a] \in Dirents
      /\ d0[a].head \in HeadsOf(d0)
  <2>1. a \in EntriesOf(d0)
    BY SearchIsSound DEF get_dentry, Named, EntriesOf, FileOrDir
  <2> QED
    BY <2>1, EntriesTyped DEF Apart
<1>6. de \in Dirents /\ de.head = d0[a].head
  <2>1. d0[a].size + v \in Nat
    BY <1>4, <1>5 DEF Dirents
  <2> HIDE DEF v
  <2> QED
    BY <1>5, <2>1 DEF Dirents
<1>7. at \in Int
  <2>1. cl \in Int
    BY FatAssumption DEF Cluster, Index
  <2> QED
    BY <1>2, <2>1, MfsAssumption DEF Base
<1> HIDE DEF v, at, de
<1>8. ASSUME NEW b \in Addr
      PROVE  stored[b] \in Slot /\ (b \in EntriesOf(stored) => b \in EntriesOf(d0) /\ stored[b] = d0[b])
  <2>1. CASE b \in at..(at + v - 1)
    <3>1. b \in Int /\ b - at + 1 \in 1..Len(buf)
      BY <1>3, <1>4, <1>7, <2>1
    <3>2. buf[b - at + 1] \in Data
      BY <1>3, <3>1
    <3>3. stored[b] = Datum(buf[b - at + 1])
      BY <2>1
    <3>4. stored[b] \in Slot /\ stored[b].attr = "data"
      BY <3>2, <3>3 DEF Datum, Slot
    <3> QED
      BY <3>4 DEF EntriesOf, FileOrDir
  <2>2. CASE b \notin at..(at + v - 1)
    <3>1. stored[b] = d0[b]
      BY <2>2
    <3> QED
      BY <1>5, <3>1 DEF EntriesOf
  <2> QED
    BY <2>1, <2>2
<1> HIDE DEF stored
<1>9. \A b \in Addr : dk[b] = IF b \in get_dentry(g, stored, d, n) THEN de ELSE stored[b]
  BY <1>1 DEF alloc_new_entry
<1>10. dk \in [Addr -> Slot]
  BY <1>1, <1>6, <1>8 DEF alloc_new_entry, Slot
<1>11. HeadsOf(dk) \in SUBSET HeadsOf(d0)
  <2>1. ASSUME NEW b \in EntriesOf(dk) PROVE dk[b].head \in HeadsOf(d0)
    <3>1. b \in Addr
      BY DEF EntriesOf
    <3>2. CASE dk[b] = de
      BY <1>5, <1>6, <3>2
    <3>3. CASE dk[b] = stored[b]
      <4>1. b \in EntriesOf(stored)
        BY <3>1, <3>3 DEF EntriesOf
      <4> QED
        BY <1>8, <3>1, <3>3, <4>1 DEF HeadsOf
    <3> QED
      BY <1>9, <3>1, <3>2, <3>3
  <2> QED
    BY <2>1 DEF HeadsOf
<1>12. g \in Table /\ ChainsApart(g, HeadsOf(d0))
  <2>1. f0 \in Table /\ ChainsApart(f0, HeadsOf(d0)) /\ HeadsOf(d0) \in SUBSET Cluster
    BY HeadsTyped DEF Apart
  <2>2. CASE g = f0
    BY <2>1, <2>2
  <2>3. CASE \E tail \in Cluster : /\ f0[tail] = EndMark /\ cl \in find_empty_fat_index(f0)
                                   /\ g = Extended(f0, tail, cl)
    BY <1>1, <2>1, <2>3, GrownIs
  <2> QED
    BY <2>2, <2>3 DEF ArrivedAt
<1> QED
  BY <1>10, <1>11, <1>12, FewerHeads DEF Apart

(* So the chains are apart whenever no call is under way.                  *)
LEMMA OutcomeApart ==
  ASSUME NEW f0, NEW d0, NEW g, NEW dk, Apart(f0, d0), Outcome(f0, d0, g, dk, "ok")
  PROVE  Apart(g, dk)
<1>1. CASE g = f0 /\ dk = d0
  BY <1>1
<1>2. CASE \E p \in Paths, n \in Names, attr \in FileOrDir, head \in find_empty_fat_index(f0) :
             MadeInto(f0, d0, p, n, attr, head, g, dk, "ok")
  BY <1>2, MadeApart
<1>3. CASE \E p \in Paths, n \in Names, off \in 0..MaxSize, buf \in Buffers :
             LET d == get_cluster_number(f0, d0, p) IN
             \E a \in get_dentry(f0, d0, d, n), cl \in Cluster :
               /\ ArrivedAt(f0, d0[a].head, off, g, cl)
               /\ WroteInto(f0, d0, d, n, a, off, buf, cl, g, dk, "ok")
  BY <1>3, WroteApart
<1> QED
  BY <1>1, <1>2, <1>3 DEF Outcome

-----------------------------------------------------------------------------
(* A call as it begins.                                                    *)
LEMMA Begins ==
  ASSUME NEW f0, NEW d0, NEW c, Apart(f0, d0), Begin(c), fat = f0, disk = d0, c \in DOMAIN calls
  PROVE  Progress(f0, d0, f0, d0, calls'[c])
<1>1. PICK p \in Paths, n \in Names :
       /\ IsDir(fat, disk, p)
       /\ \/ \E kind \in FileOrDir : calls' = [calls EXCEPT ![c] = Call(kind, p, n, 0, <<>>)]
          \/ \E a \in get_dentry(fat, disk, get_cluster_number(fat, disk, p), n),
                off \in 0..MaxSize, buf \in Buffers :
               /\ MayWrite(disk[a], off, buf)
               /\ calls' = [calls EXCEPT ![c] = Call("write", p, n, off, buf)]
  BY DEF Begin, MayWrite
<1>2. ASSUME NEW kind, NEW off, NEW buf, calls'[c] = Call(kind, p, n, off, buf),
             Asked(f0, d0, calls'[c])
      PROVE  Progress(f0, d0, f0, d0, calls'[c])
  <2>1. PICK r : r = calls'[c]
    OBVIOUS
  <2>2. r.pc = "route" /\ r.n = 0 /\ r.cur = RootCluster /\ r.path = p
    BY <1>2, <2>1 DEF Call
  <2>3. Len(p) \in Nat /\ get_cluster_number(f0, d0, Prefix(p, 0)) = RootCluster
    BY PathTyped, PathStep
  <2>4. RootCluster \in Cluster
    BY FatAssumption DEF RootCluster, Cluster, Index
  <2>5. \A S : Comes(f0, RootCluster, S, RootCluster)
    BY <2>4, SearchStarts
  <2>6. Routing(f0, d0, r)
    BY <2>2, <2>3, <2>5 DEF Routing, Searching
  <2> QED
    BY <1>2, <2>1, <2>6 DEF Progress, Doing, Reading
<1>4. ASSUME NEW kind \in FileOrDir, calls' = [calls EXCEPT ![c] = Call(kind, p, n, 0, <<>>)]
      PROVE  Progress(f0, d0, f0, d0, calls'[c])
  <2>1. calls'[c] = Call(kind, p, n, 0, <<>>)
    BY <1>4
  <2>2. Asked(f0, d0, calls'[c])
    <3>1. kind # "write"
      BY DEF FileOrDir
    <3>2. PICK r : r = calls'[c]
      OBVIOUS
    <3>3. DOMAIN r = Fields /\ r.kind = kind /\ r.path = p /\ r.name = n /\ r.making = FALSE
      BY <2>1, <3>2 DEF Call, Fields
    <3>4. Asked(f0, d0, r)
      BY <1>1, <3>1, <3>3 DEF Asked
    <3> QED
      BY <3>2, <3>4
  <2> QED
    BY <1>2, <2>1, <2>2
<1>5. ASSUME NEW a \in get_dentry(fat, disk, get_cluster_number(fat, disk, p), n),
             NEW off \in 0..MaxSize, NEW buf \in Buffers,
             MayWrite(disk[a], off, buf), calls' = [calls EXCEPT ![c] = Call("write", p, n, off, buf)]
      PROVE  Progress(f0, d0, f0, d0, calls'[c])
  <2>1. calls'[c] = Call("write", p, n, off, buf)
    BY <1>5
  <2>2. PICK r : r = calls'[c]
    OBVIOUS
  <2>3. /\ DOMAIN r = Fields /\ r.kind = "write" /\ r.path = p /\ r.name = n
        /\ r.off = off /\ r.buf = buf /\ r.making = FALSE
    BY <2>1, <2>2 DEF Call, Fields
  <2>4. a \in Opened(f0, d0, r)
    BY <1>5, <2>3 DEF Opened, Leads
  <2>5. Asked(f0, d0, r)
    BY <1>1, <1>5, <2>3, <2>4 DEF Asked
  <2> QED
    BY <1>2, <2>1, <2>2, <2>5
<1> QED
  BY <1>1, <1>4, <1>5

(* What a call has come to does not depend on where its io stands.         *)
LEMMA IoAside ==
  ASSUME NEW f0, NEW d0, NEW f, NEW dk, NEW r, NEW io, Progress(f0, d0, f, dk, r)
  PROVE  Progress(f0, d0, f, dk, [r EXCEPT !.io = io])
<1>1. PICK q : q = [r EXCEPT !.io = io]
  OBVIOUS
<1>2. Asked(f0, d0, r) /\ Doing(f0, d0, f, dk, r) /\ DOMAIN r = Fields
  BY DEF Progress, Asked
<1>3. SameCall(q, r) /\ q.pc = r.pc /\ SameBut(q, r)
  BY <1>1, <1>2 DEF SameCall, SameBut, Fields
<1>4. Asked(f0, d0, q)
  BY <1>2, <1>3 DEF Asked, SameCall, Opened, Leads
<1>5. /\ q.kind = r.kind /\ q.path = r.path /\ q.name = r.name /\ q.off = r.off /\ q.buf = r.buf
      /\ q.making = r.making /\ q.n = r.n /\ q.cur = r.cur /\ q.prev = r.prev /\ q.dir = r.dir
      /\ q.head = r.head /\ q.at = r.at /\ q.de = r.de /\ q.copy = r.copy /\ q.pc = r.pc
  BY <1>3 DEF SameBut
<1>6. Reading(f0, d0, r) => Reading(f0, d0, q)
  <2>1. /\ Routing(f0, d0, r) => Routing(f0, d0, q)
        /\ Looking(f0, d0, r) => Looking(f0, d0, q)
        /\ Opening(f0, d0, r) => Opening(f0, d0, q)
    BY <1>5 DEF Routing, Looking, Opening, Searching, Leads
  <2>2. /\ Finding(f0, d0, r) => Finding(f0, d0, q)
        /\ Marking(f0, d0, r) => Marking(f0, d0, q)
        /\ Behind(f0, d0, r) => Behind(f0, d0, q)
    BY <1>5 DEF Finding, Marking, Behind, Has, Leads, Opened
  <2> QED
    BY <2>1, <2>2 DEF Reading
<1>7. /\ Marked(f0, q) = Marked(f0, r) /\ (Making(f0, d0, q) <=> Making(f0, d0, r))
      /\ (Has(f0, d0, q) <=> Has(f0, d0, r)) /\ (AtTail(f0, d0, q) <=> AtTail(f0, d0, r))
  BY <1>3, <1>5, SameState
<1>8. Allocating(f0, d0, f, r) => Allocating(f0, d0, f, q)
  BY <1>5, <1>7 DEF Allocating, Searching
<1>9. Grows(f0, d0, f, r) => Grows(f0, d0, f, q)
  BY <1>5, <1>7 DEF Grows
<1>10. Entering(f0, d0, f, r) => Entering(f0, d0, f, q)
  BY <1>5, <1>7 DEF Entering
<1>11. \A cl : Reached(f0, d0, f, r, cl) => Reached(f0, d0, f, q, cl)
  BY <1>5, <1>7 DEF Reached
<1>12. Storing(f0, d0, f, r) => Storing(f0, d0, f, q)
  BY <1>5, <1>7, <1>11 DEF Storing
<1>13. Updating(f0, d0, f, dk, r) => Updating(f0, d0, f, dk, q)
  <2>1. Settled(q) = Settled(r) /\ \A cl : Stored(d0, cl, q) = Stored(d0, cl, r)
    BY <1>5 DEF Settled, Stored
  <2>2. HasGrown(f0, d0, r, Settled(r)) => HasGrown(f0, d0, q, Settled(q))
    BY <1>5, <2>1 DEF HasGrown, Opened, Leads
  <2>3. \A a : Patched(dk, q, a) = Patched(dk, r, a)
    BY <1>5 DEF Patched
  <2>4. ASSUME NEW S, Searching(f, r.dir, S, r, "reread", "reread_next")
        PROVE  Searching(f, q.dir, S, q, "reread", "reread_next")
    BY <1>5, <2>4 DEF Searching
  <2>5. ASSUME Updating(f0, d0, f, dk, r) PROVE Updating(f0, d0, f, dk, q)
    <3>1. HasGrown(f0, d0, q, Settled(q)) /\ Settled(q) >= 0
      BY <2>1, <2>2, <2>5 DEF Updating
    <3>2. \E cl \in Cluster \ {0} : Reached(f0, d0, f, q, cl) /\ dk = Stored(d0, cl, q)
      BY <1>11, <2>1, <2>5 DEF Updating
    <3>3. CASE Searching(f, r.dir, Named(dk, {"file"}, r.name), r, "reread", "reread_next")
      BY <1>5, <2>4, <3>1, <3>2, <3>3 DEF Updating
    <3>4. CASE /\ r.pc = "update"
               /\ \E a \in FirstOnChain(f, r.dir, Named(dk, {"file"}, r.name)) :
                    ClusterOf(a) = r.cur /\ r.copy = Patched(dk, r, a)
      BY <1>5, <2>3, <3>1, <3>2, <3>4 DEF Updating
    <3> QED
      BY <2>5, <3>3, <3>4 DEF Updating
  <2> QED
    BY <2>5
<1>14. Doing(f0, d0, f, dk, q)
  BY <1>2, <1>6, <1>8, <1>9, <1>10, <1>12, <1>13 DEF Doing
<1> QED
  BY <1>1, <1>4, <1>14 DEF Progress

(* The invariant.                                                          *)
MInv ==
  /\ crashes \in Nat
  /\ \E m : calls = [c \in Callers |-> m[c]]
  /\ RInv

(* Before any call.                                                        *)
LEMMA InitMInv == IOInit => MInv /\ Atomic!Init
<1> SUFFICES ASSUME IOInit PROVE MInv /\ Atomic!Init
  OBVIOUS
<1>1. Init /\ seen = [fat |-> fat, disk |-> disk, status |-> status] /\ crashes = 0
      /\ calls = [c \in Callers |-> Idle]
  BY DEF IOInit
<1>2. status = "ok" /\ IInv
  BY <1>1, InitIInv DEF Init
<1>3. HeadsOf(disk) = AllHeads
  BY DEF HeadsOf, AllHeads, Heads, EntriesOf, EntryAddrs
<1>4. Apart(fat, disk)
  BY <1>2, <1>3 DEF Apart, IInv, TypeOK, NoMergedChains, ChainsApart, AllHeads
<1>5. seen.fat = fat /\ seen.disk = disk /\ seen.status = "ok"
  BY <1>1, <1>2
<1>6. RInv
  BY <1>1, <1>2, <1>4, <1>5 DEF RInv
<1>7. Atomic!Init
  BY <1>1, <1>5 DEF Init, Atomic!Init, FormattedFat, Atomic!FormattedFat, Cluster, Atomic!Cluster,
        Index, Atomic!Index, RootCluster, Atomic!RootCluster, Addr, Atomic!Addr, Blank, Atomic!Blank
<1>8. \E m : calls = [c \in Callers |-> m[c]]
  <2>1. calls = [c \in Callers |-> calls[c]]
    BY <1>1
  <2> QED
    BY <2>1
<1> QED
  BY <1>1, <1>6, <1>7, <1>8 DEF MInv

(* A call is not idle.                                                     *)
LEMMA BusyFields ==
  ASSUME NEW r, DOMAIN r = Fields
  PROVE  r # Idle
<1>1. DOMAIN Idle = {"pc"}
  BY DEF Idle
<1> QED
  BY <1>1 DEF Fields

(* What it says of a caller, before and after a step, and what a step does *)
(* to what was seen.                                                       *)
Held(c) ==
  IF calls[c] = Idle THEN fat = seen.fat /\ disk = seen.disk
  ELSE Progress(seen.fat, seen.disk, fat, disk, calls[c])
HeldNext(c) ==
  IF calls'[c] = Idle THEN fat' = seen'.fat /\ disk' = seen'.disk
  ELSE Progress(seen'.fat, seen'.disk, fat', disk', calls'[c])
Kept(c) ==
  /\ seen' = [fat |-> seen'.fat, disk |-> seen'.disk, status |-> status']
  /\ status' = "ok" => Apart(seen'.fat, seen'.disk) /\ HeldNext(c)
  /\ [Atomic!NextLookedUp]_seen

(* A call begins.                                                          *)
LEMMA BeginKeeps ==
  ASSUME NEW c \in DOMAIN calls, WasSeen(seen.fat, seen.disk), Apart(seen.fat, seen.disk), Held(c),
         status = "ok", Begin(c)
  PROVE  Kept(c)
<1>1. /\ calls[c] = Idle /\ fat' = fat /\ disk' = disk /\ seen' = seen /\ status' = status
  BY DEF Begin
<1>2. fat = seen.fat /\ disk = seen.disk
  BY <1>1 DEF Held
<1>3. Progress(seen.fat, seen.disk, seen.fat, seen.disk, calls'[c])
  BY <1>2, Begins
<1>4. HeldNext(c)
  BY <1>1, <1>2, <1>3 DEF HeldNext
<1> QED
  BY <1>1, <1>4 DEF Kept, WasSeen

(* A call seeks, or reads the super block.                                 *)
LEMMA SeekKeeps ==
  ASSUME NEW c \in DOMAIN calls, WasSeen(seen.fat, seen.disk), Apart(seen.fat, seen.disk), Held(c),
         status = "ok", Seek(c) \/ ReadSb(c)
  PROVE  Kept(c)
<1>1. /\ calls[c] # Idle /\ fat' = fat /\ disk' = disk /\ seen' = seen /\ status' = status
      /\ \E io : Set(c, io)
  BY DEF Seek, ReadSb, Io
<1>2. PICK io : calls' = [calls EXCEPT ![c].io = io]
  BY <1>1 DEF Set
<1>3. PICK r, q : r = calls[c] /\ q = [r EXCEPT !.io = io]
  OBVIOUS
<1>4. calls'[c] = q
  BY <1>2, <1>3
<1>5. Progress(seen.fat, seen.disk, fat, disk, r)
  BY <1>1, <1>3 DEF Held
<1>6. Progress(seen.fat, seen.disk, fat, disk, q)
  BY <1>3, <1>5, IoAside
<1>7. q # Idle
  BY <1>6, BusyFields DEF Progress, Asked
<1>8. HeldNext(c)
  BY <1>1, <1>4, <1>6, <1>7 DEF HeldNext
<1> QED
  BY <1>1, <1>8 DEF Kept, WasSeen

(* A call makes a transfer.                                                *)
LEMMA TransferKeeps ==
  ASSUME NEW c \in DOMAIN calls, WasSeen(seen.fat, seen.disk), Apart(seen.fat, seen.disk), Held(c),
         status = "ok", crashes = 0, Transfer(c)
  PROVE  Kept(c)
<1>1. calls[c] # Idle /\ Effect(c, calls[c])
  BY DEF Transfer, Io
<1>2. PICK r, f0, d0 : r = calls[c] /\ f0 = seen.fat /\ d0 = seen.disk
  OBVIOUS
<1>3. Progress(f0, d0, fat, disk, r)
  BY <1>1, <1>2 DEF Held
<1>4. Ready(f0, d0, r) /\ Effect(c, r)
  BY <1>1, <1>2, <1>3 DEF Ready, Progress
<1>5. Moves(f0, d0, c) \/ Returns(f0, d0, c)
  BY <1>4, Effects
<1>6. CASE Moves(f0, d0, c)
  <2>1. PICK q : Goes(c, q) /\ Progress(f0, d0, fat', disk', q)
    BY <1>6 DEF Moves
  <2>2. calls'[c] = q /\ seen' = seen /\ status' = status
    BY <2>1 DEF Goes
  <2>3. q # Idle
    BY <2>1, BusyFields DEF Progress, Asked
  <2>4. HeldNext(c)
    BY <1>2, <2>1, <2>2, <2>3 DEF HeldNext
  <2> QED
    BY <2>2, <2>4 DEF Kept, WasSeen
<1>7. CASE Returns(f0, d0, c)
  <2>1. PICK g, dk, st : g = fat' /\ dk = disk' /\ st = status'
    OBVIOUS
  <2>2. Outcome(f0, d0, g, dk, st)
    BY <1>7, <2>1 DEF Returns
  <2>3. calls'[c] = Idle /\ IsSeen(g, dk, st)
    BY <1>7, <2>1 DEF Returns, Return, IsSeen
  <2>4. WasSeen(f0, d0) /\ Apart(f0, d0)
    BY <1>2
  <2>5. [Atomic!NextLookedUp]_seen
    BY <2>2, <2>3, <2>4, OutcomeSteps
  <2>6. st = "ok" => Apart(g, dk)
    BY <2>2, <2>4, OutcomeApart
  <2>7. seen'.fat = g /\ seen'.disk = dk
    BY <2>3 DEF IsSeen
  <2>8. HeldNext(c)
    BY <2>1, <2>3, <2>7 DEF HeldNext
  <2> QED
    BY <2>1, <2>3, <2>5, <2>6, <2>7, <2>8 DEF Kept, IsSeen
<1> QED
  BY <1>5, <1>6, <1>7

(* Nothing happens any more once the volume is destroyed, and crashes are  *)
(* only counted.                                                           *)
LEMMA StepsNeed ==
  ASSUME IONext
  PROVE  /\ status = "ok"
         /\ Crash \/ crashes' = crashes
<1>1. CASE Crash
  BY <1>1 DEF Crash
<1>2. ASSUME NEW c \in Callers, Begin(c) \/ Step(c)
      PROVE  status = "ok" /\ crashes' = crashes
  BY <1>2 DEF Begin, Step, Seek, ReadSb, Transfer, Io
<1> QED
  BY <1>1, <1>2 DEF IONext

(* What the steps make of calls.                                           *)
LEMMA CallsStay ==
  ASSUME NEW m, calls = [c \in Callers |-> m[c]], IONext
  PROVE  \E n : calls' = [c \in Callers |-> n[c]]
<1>1. CASE Crash
  <2>1. calls' = [c \in Callers |-> calls'[c]]
    BY <1>1 DEF Crash
  <2> QED
    BY <2>1
<1>2. ASSUME NEW c \in Callers, NEW x, calls' = [calls EXCEPT ![c] = x]
      PROVE  calls' = [d \in Callers |-> calls'[d]]
  BY <1>2
<1>3. ASSUME NEW c \in Callers, Begin(c) \/ Seek(c) \/ ReadSb(c)
      PROVE  \E x : calls' = [calls EXCEPT ![c] = x]
  BY <1>3 DEF Begin, Seek, ReadSb, Set
<1>4. ASSUME NEW c \in Callers, NEW r, Effect(c, r)
      PROVE  \E x : calls' = [calls EXCEPT ![c] = x]
  <2>1. (\E x, io, pc : Go(c, x, io, pc)) \/ Return(c)
    <3>1. CASE RouteEnd(c, r) \/ ReadCluster(c, r)
      BY <3>1 DEF RouteEnd, ReadCluster, Arrive, Goto, Onward, Hit, Ruin, ToData
    <3>2. CASE ReadIndex(c, r) \/ Walking(c, r) \/ ReadSector(c, r)
      BY <3>2 DEF ReadIndex, Exhausted, Walking, ReadSector, Take, Arrive, Goto, Onward, Ruin, ToData
    <3>3. CASE WriteIndex(c, r) \/ WriteDirent(c, r) \/ WriteData(c, r) \/ WriteCluster(c, r)
      BY <3>3 DEF WriteIndex, WriteDirent, WriteData, WriteCluster, Goto, Ruin, ToData
    <3> QED
      BY <1>4, <3>1, <3>2, <3>3 DEF Effect
  <2>2. CASE Return(c)
    BY <2>2 DEF Return
  <2>3. CASE \E x, io, pc : Go(c, x, io, pc)
    BY <2>3 DEF Go
  <2> QED
    BY <2>1, <2>2, <2>3
<1>5. ASSUME NEW c \in Callers, Transfer(c) PROVE \E x : calls' = [calls EXCEPT ![c] = x]
  BY <1>4, <1>5 DEF Transfer
<1> QED
  BY <1>1, <1>2, <1>3, <1>5 DEF IONext, Step

(* Every step of the one caller.                                           *)
LEMMA NextMInv ==
  ASSUME OneCaller, MInv, [IONext]_ioVars
  PROVE  MInv' /\ (crashes' = 0 => [Atomic!NextLookedUp]_seen)
<1>1. CASE UNCHANGED ioVars
  <2>1. /\ fat' = fat /\ disk' = disk /\ status' = status /\ calls' = calls /\ crashes' = crashes
        /\ seen' = seen
    BY <1>1 DEF ioVars
  <2>2. RInv'
    BY <2>1 DEF MInv, RInv
  <2> QED
    BY <2>1, <2>2 DEF MInv
<1>2. CASE IONext
  <2>1. PICK m : calls = [c \in Callers |-> m[c]]
    BY DEF MInv
  <2>2. \E n : calls' = [c \in Callers |-> n[c]]
    BY <1>2, <2>1, CallsStay
  <2>3. status = "ok" /\ (Crash \/ crashes' = crashes) /\ crashes \in Nat /\ RInv
    BY <1>2, StepsNeed DEF MInv
  <2>4. CASE Crash
    <3>1. crashes' \in Nat /\ crashes' # 0
      BY <2>3, <2>4 DEF Crash
    <3>2. RInv'
      BY <3>1 DEF RInv
    <3> QED
      BY <2>2, <3>1, <3>2 DEF MInv
  <2>5. CASE crashes' = crashes /\ crashes # 0
    BY <2>2, <2>3, <2>5 DEF MInv, RInv
  <2>6. CASE crashes' = crashes /\ crashes = 0 /\ ~Crash
    <3>1. PICK c : Callers = {c}
      BY DEF OneCaller
    <3>2. c \in DOMAIN calls /\ c \in Callers
      BY <2>1, <3>1
    <3>3. WasSeen(seen.fat, seen.disk) /\ Apart(seen.fat, seen.disk) /\ Held(c)
      BY <2>3, <2>6, <3>2 DEF RInv, WasSeen, Held
    <3>4. Begin(c) \/ Seek(c) \/ ReadSb(c) \/ Transfer(c)
      BY <1>2, <2>6, <3>1 DEF IONext, Step
    <3>5. Kept(c)
      BY <2>3, <2>6, <3>2, <3>3, <3>4, BeginKeeps, SeekKeeps, TransferKeeps
    <3>6. RInv'
      BY <3>1, <3>5 DEF RInv, Kept, HeldNext
    <3> QED
      BY <2>2, <2>3, <2>6, <3>5, <3>6 DEF MInv, Kept
  <2> QED
    BY <2>3, <2>4, <2>5, <2>6
<1> QED
  BY <1>1, <1>2

(* One caller at a time, until a crash: a call is many transfers, and does *)
(* to the volume what one action of Mfs does.                              *)
THEOREM CallsImplementMfs == OneCaller => (IOSpec => ImplementsMfs)
<1> SUFFICES ASSUME OneCaller PROVE IOSpec => ImplementsMfs
  OBVIOUS
<1>1. IOInit => MInv /\ Atomic!Init
  BY InitMInv
<1>2. MInv /\ [IONext]_ioVars => MInv'
  BY NextMInv
<1>3. MInv /\ [IONext]_ioVars => [crashes' = 0 => [Atomic!NextLookedUp]_seen]_ioVars
  BY NextMInv
<1> QED
  BY <1>1, <1>2, <1>3, PTL DEF IOSpec, ImplementsMfs

-----------------------------------------------------------------------------
(* A volume as calls that write at the end of their files leave it, even   *)
(* when crashes have cost it clusters: its chains are apart, each entry    *)
(* has a head of its own and lies in a cluster in use that no file has,    *)
(* and the chain of a file has room for its size.                          *)
OwnHeadsOf(dk) ==
  \A a \in EntriesOf(dk) :
    /\ dk[a].head # RootCluster
    /\ \A b \in EntriesOf(dk) : a # b /\ dk[a].head = dk[b].head => dk[a].head = 0
EntriesHeld(f, dk) ==
  \A a \in EntriesOf(dk) :
    /\ ClusterOf(a) \in Index /\ f[ClusterOf(a)] # 0
    /\ \A b \in EntriesOf(dk) : dk[b].attr = "file" => ClusterOf(a) \notin Chain(f, dk[b].head)
Fits(f, e) == e.size <= CS * Cardinality(Chain(f, e.head)) /\ (e.head = 0 => e.size = 0)
Sized(f, dk) == \A a \in EntriesOf(dk) : dk[a].attr = "file" => Fits(f, dk[a])
Sound(f, dk) ==
  /\ Apart(f, dk) /\ f[0] \in {0, EndMark}
  /\ OwnHeadsOf(dk) /\ EntriesHeld(f, dk) /\ Sized(f, dk)

(* What the lemmas about tables and chains ask for.                        *)
LEMMA SoundTyped ==
  ASSUME NEW f, NEW dk, Sound(f, dk)
  PROVE  /\ f \in Table /\ dk \in [Addr -> Slot] /\ HeadsOf(dk) \in SUBSET Cluster
         /\ ChainsApart(f, HeadsOf(dk)) /\ RootCluster \in HeadsOf(dk)
BY HeadsTyped DEF Sound, Apart

(* More clusters do not make a chain too short.                            *)
LEMMA RoomGrows ==
  ASSUME NEW f, NEW g, NEW H \in SUBSET Cluster, f \in Table, g \in Table,
         ChainsApart(f, H), ChainsApart(g, H), NEW h \in H, Chain(f, h) \subseteq Chain(g, h)
  PROVE  /\ Cardinality(Chain(f, h)) \in Nat /\ Cardinality(Chain(g, h)) \in Nat
         /\ CS * Cardinality(Chain(f, h)) <= CS * Cardinality(Chain(g, h))
<1>1. /\ IsFiniteSet(Chain(f, h)) /\ Cardinality(Chain(f, h)) \in Nat
      /\ IsFiniteSet(Chain(g, h)) /\ Cardinality(Chain(g, h)) \in Nat
  BY ChainCount
<1>2. Cardinality(Chain(f, h)) <= Cardinality(Chain(g, h))
  BY <1>1, FS_Subset
<1>3. PICK m \in Nat, n \in Nat : m = Cardinality(Chain(f, h)) /\ n = Cardinality(Chain(g, h))
  BY <1>1
<1>4. CS * m <= CS * n
  BY <1>2, <1>3, MfsAssumption
<1> QED
  BY <1>1, <1>3, <1>4

(* A table in which chains have grown by clusters that were not in use.    *)
LEMMA SoundChains ==
  ASSUME NEW f, NEW g, NEW dk, Sound(f, dk), g \in Table, ChainsApart(g, HeadsOf(dk)),
         g[0] \in {0, EndMark}, \A i \in Cluster : f[i] # 0 => g[i] # 0,
         \A h \in HeadsOf(dk) : /\ Chain(f, h) \subseteq Chain(g, h)
                                /\ \A i \in Chain(g, h) : i \in Chain(f, h) \/ f[i] = 0
  PROVE  Sound(g, dk)
<1>1. /\ f \in Table /\ dk \in [Addr -> Slot] /\ HeadsOf(dk) \in SUBSET Cluster
      /\ ChainsApart(f, HeadsOf(dk))
  BY SoundTyped
<1>2. \A a \in EntriesOf(dk) : dk[a].head \in HeadsOf(dk) /\ dk[a].size \in Nat
  BY <1>1, EntriesTyped
<1>3. EntriesHeld(g, dk)
  <2> SUFFICES ASSUME NEW a \in EntriesOf(dk)
               PROVE  /\ ClusterOf(a) \in Index /\ g[ClusterOf(a)] # 0
                      /\ \A b \in EntriesOf(dk) :
                           dk[b].attr = "file" => ClusterOf(a) \notin Chain(g, dk[b].head)
    BY DEF EntriesHeld
  <2>1. /\ ClusterOf(a) \in Index /\ f[ClusterOf(a)] # 0
        /\ \A b \in EntriesOf(dk) :
             dk[b].attr = "file" => ClusterOf(a) \notin Chain(f, dk[b].head)
    BY DEF Sound, EntriesHeld
  <2> QED
    BY <1>2, <2>1 DEF Cluster
<1>4. Sized(g, dk)
  <2> SUFFICES ASSUME NEW a \in EntriesOf(dk), dk[a].attr = "file" PROVE Fits(g, dk[a])
    BY DEF Sized
  <2>1. PICK h, s : h = dk[a].head /\ s = dk[a].size
    OBVIOUS
  <2>2. s <= CS * Cardinality(Chain(f, h)) /\ (h = 0 => s = 0)
    BY <2>1 DEF Sound, Sized, Fits
  <2>3. /\ CS * Cardinality(Chain(f, h)) <= CS * Cardinality(Chain(g, h))
        /\ Cardinality(Chain(f, h)) \in Nat /\ Cardinality(Chain(g, h)) \in Nat
    BY <1>1, <1>2, <2>1, RoomGrows
  <2>4. s <= CS * Cardinality(Chain(g, h))
    <3>1. PICK m, n : m = CS * Cardinality(Chain(f, h)) /\ n = CS * Cardinality(Chain(g, h))
      OBVIOUS
    <3>2. m \in Int /\ n \in Int /\ s \in Int
      BY <1>2, <2>1, <2>3, <3>1, MfsAssumption
    <3> QED
      BY <2>2, <2>3, <3>1, <3>2
  <2> QED
    BY <2>1, <2>2, <2>4 DEF Fits
<1> QED
  BY <1>1, <1>3, <1>4 DEF Sound, Apart

(* The head of a new entry is marked: no chain changes, and the marked     *)
(* cluster is a chain of its own.                                          *)
LEMMA SoundMarked ==
  ASSUME NEW f, NEW dk, Sound(f, dk), NEW head \in find_empty_fat_index(f)
  PROVE  LET g == write_in_fat_index(f, head, EndMark) IN
         /\ Sound(g, dk) /\ ChainsApart(g, HeadsOf(dk) \cup {head})
         /\ \A h \in HeadsOf(dk) : Walk(g, h) = Walk(f, h) /\ Chain(g, h) = Chain(f, h)
         /\ Chain(g, head) = {head}
         /\ head \in Cluster /\ head # RootCluster /\ (head \in HeadsOf(dk) => head = 0)
         /\ \A a \in EntriesOf(dk) : ClusterOf(a) # head
         /\ \A i \in Cluster : g[i] # 0 <=> f[i] # 0 \/ i = head
<1> DEFINE g == write_in_fat_index(f, head, EndMark)
<1>1. /\ f \in Table /\ dk \in [Addr -> Slot] /\ HeadsOf(dk) \in SUBSET Cluster
      /\ ChainsApart(f, HeadsOf(dk)) /\ RootCluster \in HeadsOf(dk)
  BY SoundTyped
<1>2. head \in Cluster /\ (head # 0 => head \in Index /\ f[head] = 0)
  BY FoundIsUnused
<1>3. g \in Table /\ ChainsApart(g, HeadsOf(dk) \cup {head})
  BY <1>1, MarkedIs DEF Sound
<1>4. \A i \in Cluster : g[i] = IF i = head THEN EndMark ELSE f[i]
  BY <1>1, <1>2 DEF write_in_fat_index, Table
<1>5. EndMark # 0 /\ RootCluster # 0
  BY NotAnIndex, FatAssumption DEF RootCluster
<1>6. \A h \in HeadsOf(dk) : f[h] # 0
  BY <1>1 DEF ChainsApart, HeadsInUse
<1>7. head # RootCluster /\ (head \in HeadsOf(dk) => head = 0)
  BY <1>1, <1>2, <1>5, <1>6
<1>8. ASSUME NEW h \in HeadsOf(dk)
      PROVE  Walk(g, h) = Walk(f, h) /\ Chain(g, h) = Chain(f, h)
  <2>1. CASE h = 0 /\ head = 0
    <3>1. f[0] = EndMark
      BY <1>6, <2>1 DEF Sound
    <3>2. g = f
      BY <1>1, <2>1, <3>1 DEF write_in_fat_index, Table
    <3> QED
      BY <3>2
  <2>2. CASE h = 0 => head # 0
    BY <1>1, <2>2, MarkedChain
  <2> QED
    BY <2>1, <2>2
<1>9. Chain(g, head) = {head}
  BY <1>2, <1>3, <1>4, ChainOfOne
<1>10. \A a \in EntriesOf(dk) : ClusterOf(a) # head
  BY <1>2, NotAnIndex DEF Sound, EntriesHeld
<1>11. g[0] \in {0, EndMark} /\ 0 \in Cluster
  BY <1>4 DEF Sound, Cluster
<1>12. ChainsApart(g, HeadsOf(dk))
  BY <1>3, FewerHeads
<1>13. \A i \in Cluster : g[i] # 0 <=> f[i] # 0 \/ i = head
  BY <1>4, <1>5
<1> HIDE DEF g
<1>14. Sound(g, dk)
  BY <1>3, <1>8, <1>11, <1>12, <1>13, SoundChains
<1> QED
  BY <1>2, <1>3, <1>7, <1>8, <1>9, <1>10, <1>13, <1>14 DEF g

(* A chain grows, of a directory or of a file.                             *)
LEMMA SoundGrown ==
  ASSUME NEW f, NEW dk, Sound(f, dk), NEW H \in SUBSET Cluster, HeadsOf(dk) \subseteq H,
         ChainsApart(f, H), NEW tail \in Cluster \ {0}, f[tail] = EndMark,
         NEW new \in find_empty_fat_index(f), new # 0
  PROVE  LET g == Extended(f, tail, new) IN
         /\ Sound(g, dk) /\ ChainsApart(g, H) /\ new \in Index /\ f[new] = 0
         /\ \A h \in H : /\ KeepsWalk(f, g, h) /\ Chain(f, h) \subseteq Chain(g, h)
                         /\ Chain(g, h) = IF tail \in Chain(f, h) THEN Chain(f, h) \cup {new}
                                          ELSE Chain(f, h)
         /\ \A i \in Cluster : g[i] # 0 <=> f[i] # 0 \/ i = new
<1> DEFINE g == Extended(f, tail, new)
<1>1. f \in Table /\ HeadsOf(dk) \in SUBSET Cluster
  BY SoundTyped
<1>2. g \in Table /\ ChainsApart(g, H) /\ new \in Index /\ f[new] = 0
      /\ \A h \in H : KeepsWalk(f, g, h)
  BY <1>1, GrownIs
<1>3. \A h \in H : Chain(g, h) = IF tail \in Chain(f, h) THEN Chain(f, h) \cup {new}
                                 ELSE Chain(f, h)
  BY <1>1, <1>2, ExtendedChain
<1>4. \A i \in Cluster : g[i] = IF i = new THEN EndMark ELSE IF i = tail THEN new ELSE f[i]
  BY <1>1, <1>2, ExtendedFat
<1>5. EndMark # 0 /\ new # 0 /\ tail # 0 /\ 0 \in Cluster
  BY NotAnIndex DEF Cluster
<1>6. \A i \in Cluster : g[i] # 0 <=> f[i] # 0 \/ i = new
  BY <1>4, <1>5
<1>7. g[0] \in {0, EndMark}
  BY <1>4, <1>5 DEF Sound
<1> HIDE DEF g
<1>8. \A h \in H : /\ Chain(f, h) \subseteq Chain(g, h)
                   /\ \A i \in Chain(g, h) : i \in Chain(f, h) \/ f[i] = 0
  BY <1>2, <1>3
<1>9. ChainsApart(g, HeadsOf(dk))
  BY <1>2, FewerHeads
<1>10. Sound(g, dk)
  BY <1>2, <1>6, <1>7, <1>8, <1>9, SoundChains
<1> QED
  BY <1>2, <1>3, <1>6, <1>8, <1>10 DEF g

(* The clusters directories start at; a path leads to one.                 *)
DirsOf(dk) == {RootCluster} \cup {dk[a].head : a \in {b \in EntriesOf(dk) : dk[b].attr = "dir"}}

(* A path that leads to a directory leads to directories all the way.       *)
LEMMA PathLeadsToDir ==
  ASSUME NEW f, NEW dk, NEW p \in Paths, IsDir(f, dk, p)
  PROVE  \A k \in 0..Len(p) : get_cluster_number(f, dk, Prefix(p, k)) \in DirsOf(dk)
<1> SUFFICES ASSUME NEW k \in 0..Len(p)
             PROVE  get_cluster_number(f, dk, Prefix(p, k)) \in DirsOf(dk)
  OBVIOUS
<1>1. CASE k = 0
  BY <1>1, PathStep DEF DirsOf
<1>2. CASE k # 0
  <2>1. k \in 1..Len(p)
    BY <1>2, PathTyped
  <2> QED
    BY <2>1, RouteFinds DEF DirsOf
<1> QED
  BY <1>1, <1>2

(* No file starts at a cluster of a directory.                             *)
LEMMA DirIsNoFile ==
  ASSUME NEW dk, OwnHeadsOf(dk), NEW d \in DirsOf(dk) \ {0},
         NEW b \in EntriesOf(dk), dk[b].attr = "file"
  PROVE  dk[b].head # d
<1>1. CASE d = RootCluster
  BY <1>1 DEF OwnHeadsOf
<1>2. CASE \E a \in EntriesOf(dk) : dk[a].attr = "dir" /\ d = dk[a].head
  <2>1. PICK a \in EntriesOf(dk) : dk[a].attr = "dir" /\ d = dk[a].head
    BY <1>2
  <2>2. a # b
    BY <2>1
  <2> QED
    BY <2>1, <2>2 DEF OwnHeadsOf
<1> QED
  BY <1>1, <1>2 DEF DirsOf

(* Directories start where chains do.                                       *)
LEMMA DirsAreHeads == \A dk : DirsOf(dk) \subseteq HeadsOf(dk)
BY DEF DirsOf, HeadsOf

(* What is there once an entry has been written where there was none.      *)
LEMMA EntryAdded ==
  ASSUME NEW dk \in [Addr -> Slot], NEW x \in Addr, x \notin EntriesOf(dk),
         NEW de \in Dirents, NEW dk2 \in [Addr -> Slot],
         dk2[x] = de, \A a \in Addr \ {x} : dk2[a] = dk[a]
  PROVE  /\ EntriesOf(dk2) = EntriesOf(dk) \cup {x}
         /\ HeadsOf(dk2) = HeadsOf(dk) \cup {de.head}
<1>2. de.attr \in FileOrDir
  BY DEF Dirents
<1>3. EntriesOf(dk2) = EntriesOf(dk) \cup {x}
  BY <1>2 DEF EntriesOf
<1>4. \A a \in EntriesOf(dk) : dk2[a] = dk[a]
  BY DEF EntriesOf
<1>5. HeadsOf(dk2) = HeadsOf(dk) \cup {de.head}
  <2>1. \A a \in EntriesOf(dk2) : a = x \/ a \in EntriesOf(dk)
    BY <1>3
  <2>2. HeadsOf(dk2) \subseteq HeadsOf(dk) \cup {de.head}
    BY <1>4, <2>1 DEF HeadsOf
  <2>3. ASSUME NEW h \in HeadsOf(dk) \cup {de.head} PROVE h \in HeadsOf(dk2)
    <3>1. CASE h = RootCluster
      BY <3>1 DEF HeadsOf
    <3>2. CASE h = de.head
      BY <1>3, <3>2 DEF HeadsOf
    <3>3. CASE \E a \in EntriesOf(dk) : h = dk[a].head
      BY <1>3, <1>4, <3>3 DEF HeadsOf
    <3> QED
      BY <2>3, <3>1, <3>2, <3>3 DEF HeadsOf
  <2> QED
    BY <2>2, <2>3
<1> QED
  BY <1>3, <1>5

(* An entry is added to a directory.                                       *)
LEMMA SoundEntry ==
  ASSUME NEW f, NEW dk, Sound(f, dk), NEW d \in DirsOf(dk) \ {0},
         NEW attr \in FileOrDir, NEW n \in Names, NEW head \in Cluster,
         head # RootCluster, head \in HeadsOf(dk) => head = 0,
         ChainsApart(f, HeadsOf(dk) \cup {head}),
         \A a \in EntriesOf(dk) : ClusterOf(a) \notin Chain(f, head),
         NEW x \in Addr, x \notin EntriesOf(dk), ClusterOf(x) \in Chain(f, d)
  PROVE  Sound(f, [dk EXCEPT ![x] = Dirent(attr, n, head, 0)])
<1> DEFINE H == HeadsOf(dk) \cup {head}
<1>1. PICK de : de = Dirent(attr, n, head, 0)
  OBVIOUS
<1>2. PICK dk2 : dk2 = [dk EXCEPT ![x] = de]
  OBVIOUS
<1>3. de \in Dirents /\ de.attr = attr /\ de.head = head /\ de.size = 0
  BY <1>1 DEF Dirent, Dirents
<1>4. /\ f \in Table /\ dk \in [Addr -> Slot] /\ H \in SUBSET Cluster
      /\ ChainsApart(f, HeadsOf(dk)) /\ x \in Addr /\ x \notin EntriesOf(dk)
  BY SoundTyped
<1>5. /\ dk2 \in [Addr -> Slot] /\ dk2[x] = de /\ \A a \in Addr \ {x} : dk2[a] = dk[a]
      /\ EntriesOf(dk2) = EntriesOf(dk) \cup {x} /\ HeadsOf(dk2) = HeadsOf(dk) \cup {de.head}
  <2>1. dk2 \in [Addr -> Slot] /\ dk2[x] = de /\ \A a \in Addr \ {x} : dk2[a] = dk[a]
    BY <1>2, <1>3, <1>4 DEF Slot
  <2> QED
    BY <1>3, <1>4, <2>1, EntryAdded
<1>6. \A a \in EntriesOf(dk) : dk2[a] = dk[a] /\ a # x
  BY <1>5 DEF EntriesOf
<1>6a. HeadsOf(dk2) = H
  BY <1>3, <1>5
<1>7. Apart(f, dk2)
  BY <1>4, <1>5, <1>6a DEF Apart
<1>8. \A a \in EntriesOf(dk) : dk[a].head \in HeadsOf(dk)
  BY DEF HeadsOf
<1>9. d \in HeadsOf(dk) /\ d # 0 /\ d # head /\ d \in H
  BY DirsAreHeads
<1>10. OwnHeadsOf(dk2)
  <2>1. OwnHeadsOf(dk)
    BY DEF Sound
  <2> QED
    BY <1>3, <1>5, <1>6, <1>8, <2>1 DEF OwnHeadsOf
<1>11. ClusterOf(x) \in Index /\ f[ClusterOf(x)] # 0
  <2> HIDE DEF H
  <2>1. f[d] # 0 /\ d \in Index
    BY <1>4, <1>9 DEF Cluster, ChainsApart, HeadsInUse, H
  <2>2. \A c \in Chain(f, d) : f[c] # 0 /\ (c # d => c \in Index)
    BY <1>4, <1>9, ChainInUse DEF H
  <2> QED
    BY <2>1, <2>2
<1>12. ASSUME NEW b \in EntriesOf(dk2), dk2[b].attr = "file"
       PROVE  ClusterOf(x) \notin Chain(f, dk2[b].head)
  <2>1. CASE b = x
    <3>1. Chain(f, d) \cap Chain(f, head) = {}
      BY <1>4, <1>9, HeadsApart
    <3> QED
      BY <1>3, <1>5, <2>1, <3>1
  <2>2. CASE b \in EntriesOf(dk)
    <3>1. dk[b].head # d /\ dk2[b] = dk[b]
      BY <1>6, <1>12, <2>2, DirIsNoFile DEF Sound
    <3>2. Chain(f, d) \cap Chain(f, dk[b].head) = {}
      BY <1>4, <1>8, <1>9, <2>2, <3>1, HeadsApart
    <3> QED
      BY <3>1, <3>2
  <2> QED
    BY <1>5, <2>1, <2>2
<1>13. EntriesHeld(f, dk2)
  <2>1. EntriesHeld(f, dk)
    BY DEF Sound
  <2>2. ASSUME NEW a \in EntriesOf(dk), NEW b \in EntriesOf(dk2), dk2[b].attr = "file"
        PROVE  ClusterOf(a) \notin Chain(f, dk2[b].head)
    <3>1. CASE b = x
      BY <1>3, <1>5, <3>1
    <3>2. CASE b \in EntriesOf(dk)
      BY <1>6, <2>1, <2>2, <3>2 DEF EntriesHeld
    <3> QED
      BY <1>5, <3>1, <3>2
  <2> QED
    BY <1>5, <1>11, <1>12, <2>1, <2>2 DEF EntriesHeld
<1>14. Fits(f, de)
  <2>1. head \in H
    OBVIOUS
  <2>2. Cardinality(Chain(f, head)) \in Nat
    BY <1>4, <2>1, ChainCount
  <2>3. PICK m \in Nat : m = Cardinality(Chain(f, head))
    BY <2>2
  <2>4. 0 <= CS * m
    BY MfsAssumption
  <2> QED
    BY <1>3, <2>3, <2>4 DEF Fits
<1>15. Sized(f, dk2)
  BY <1>5, <1>6, <1>14 DEF Sound, Sized
<1> QED
  BY <1>1, <1>2, <1>7, <1>10, <1>13, <1>15 DEF Sound

(* The entries are the same but for the sizes of files.                    *)
LEMMA SoundSame ==
  ASSUME NEW f, NEW dk, Sound(f, dk), NEW dk2 \in [Addr -> Slot], EntriesOf(dk2) = EntriesOf(dk),
         \A a \in EntriesOf(dk) : dk2[a].attr = dk[a].attr /\ dk2[a].head = dk[a].head,
         Sized(f, dk2)
  PROVE  Sound(f, dk2)
<1>1. HeadsOf(dk2) = HeadsOf(dk)
  BY DEF HeadsOf
<1>2. OwnHeadsOf(dk2) /\ EntriesHeld(f, dk2)
  BY DEF Sound, OwnHeadsOf, EntriesHeld
<1> QED
  BY <1>1, <1>2 DEF Sound, Apart

(* Data is written to a cluster of a file.                                 *)
Put(dk, at, v, buf) ==
  [b \in Addr |-> IF b \in at..(at + v - 1) THEN Datum(buf[b - at + 1]) ELSE dk[b]]

(* Such a write changes slots of that cluster from its place on, and leaves *)
(* data in them.                                                            *)
LEMMA DataPut ==
  ASSUME NEW dk \in [Addr -> Slot], NEW cl \in Index, NEW co \in 0..(CS - 1), NEW v \in Nat,
         co + v <= CS, NEW buf \in Buffers, v <= Len(buf)
  PROVE  LET at == Base(cl) + co
             dk2 == Put(dk, at, v, buf)
         IN  /\ dk2 \in [Addr -> Slot] /\ at \in Int
             /\ \A x \in Addr : \/ dk2[x] = dk[x]
                                \/ ClusterOf(x) = cl /\ at <= x /\ dk2[x].attr = "data"
<1>1. PICK at, dk2 : at = Base(cl) + co /\ dk2 = Put(dk, at, v, buf)
  OBVIOUS
<1>2. Base(cl) \in Int /\ at \in Int
  BY <1>1, MfsAssumption, FatAssumption DEF Base, Index
<1>3. Len(buf) \in Nat /\ buf \in [1..Len(buf) -> Data]
  BY DEF Buffers
<1>4. ASSUME NEW x \in Addr
      PROVE  /\ dk2[x] \in Slot
             /\ dk2[x] = dk[x] \/ (ClusterOf(x) = cl /\ at <= x /\ dk2[x].attr = "data")
  <2>1. CASE x \in at..(at + v - 1)
    <3>1. x \in Int /\ at <= x /\ x <= at + v - 1
      BY <1>2, <2>1
    <3>2. x - at + 1 \in 1..Len(buf)
      BY <1>2, <1>3, <3>1
    <3>3. dk2[x] = Datum(buf[x - at + 1]) /\ buf[x - at + 1] \in Data
      BY <1>1, <1>3, <2>1, <3>2 DEF Put
    <3>4. dk2[x] \in Slot /\ dk2[x].attr = "data"
      BY <3>3 DEF Datum, Slot
    <3>5. PICK r : r = x - Base(cl)
      OBVIOUS
    <3>6. r \in 0..(CS - 1) /\ x = Base(cl) + r
      BY <1>1, <1>2, <3>1, <3>5, MfsAssumption
    <3>7. ClusterOf(x) = cl
      BY <3>6, SlotOfCluster DEF ClusterOf
    <3> QED
      BY <3>1, <3>4, <3>7
  <2>2. CASE x \notin at..(at + v - 1)
    BY <1>1, <2>2 DEF Put
  <2> QED
    BY <2>1, <2>2
<1>5. dk2 \in [Addr -> Slot]
  <2>1. dk2 = [x \in Addr |-> dk2[x]]
    BY <1>1 DEF Put
  <2> QED
    BY <1>4, <2>1
<1> QED
  BY <1>1, <1>2, <1>4, <1>5

(* No entry is in the way.                                                 *)
LEMMA SoundPut ==
  ASSUME NEW f, NEW dk, Sound(f, dk), NEW a \in EntriesOf(dk), dk[a].attr = "file",
         NEW dk2 \in [Addr -> Slot], NEW cl \in Index, cl \in Chain(f, dk[a].head),
         \A x \in Addr : dk2[x] = dk[x] \/ (ClusterOf(x) = cl /\ dk2[x].attr = "data")
  PROVE  Sound(f, dk2) /\ EntriesOf(dk2) = EntriesOf(dk) /\ \A e \in EntriesOf(dk) : dk2[e] = dk[e]
<1>1. \A e \in EntriesOf(dk) : e \in Addr /\ ClusterOf(e) # cl
  BY DEF Sound, EntriesHeld, EntriesOf
<1>2. \A e \in EntriesOf(dk) : dk2[e] = dk[e]
  BY <1>1
<1>3. "data" \notin FileOrDir
  BY DEF FileOrDir
<1>4. EntriesOf(dk2) = EntriesOf(dk)
  BY <1>2, <1>3 DEF EntriesOf
<1>5. Sized(f, dk2)
  BY <1>2, <1>4 DEF Sound, Sized
<1>6. Sound(f, dk2)
  BY <1>2, <1>4, <1>5, SoundSame
<1> QED
  BY <1>2, <1>4, <1>6

(* The entry of a file is written with its new size.                       *)
LEMMA SoundSize ==
  ASSUME NEW f, NEW dk, Sound(f, dk), NEW a \in EntriesOf(dk), dk[a].attr = "file",
         NEW de \in Dirents, de.attr = "file", de.name = dk[a].name, de.head = dk[a].head,
         Fits(f, de)
  PROVE  LET dk2 == [x \in Addr |-> IF x = a THEN de ELSE dk[x]] IN
         /\ Sound(f, dk2) /\ EntriesOf(dk2) = EntriesOf(dk)
         /\ dk2[a] = de /\ \A x \in Addr \ {a} : dk2[x] = dk[x]
<1>1. PICK dk2 : dk2 = [x \in Addr |-> IF x = a THEN de ELSE dk[x]]
  OBVIOUS
<1>2. dk \in [Addr -> Slot] /\ a \in Addr
  BY SoundTyped DEF EntriesOf
<1>3. dk2 \in [Addr -> Slot] /\ dk2[a] = de /\ \A x \in Addr \ {a} : dk2[x] = dk[x]
  BY <1>1, <1>2 DEF Slot
<1>4. EntriesOf(dk2) = EntriesOf(dk)
  <2>1. \A x \in Addr : dk2[x].attr = dk[x].attr
    BY <1>3
  <2> QED
    BY <2>1 DEF EntriesOf
<1>5. \A x \in EntriesOf(dk) : x # a => dk2[x] = dk[x]
  BY <1>3 DEF EntriesOf
<1>6. Sized(f, dk2)
  BY <1>3, <1>4, <1>5 DEF Sound, Sized
<1>7. Sound(f, dk2)
  BY <1>3, <1>4, <1>5, <1>6, SoundSame
<1> QED
  BY <1>1, <1>3, <1>4, <1>7

-----------------------------------------------------------------------------
(* The tree of directories.                                                *)

(* What was found first is found first, on a chain that has lost nothing   *)
(* and on which nothing new to be found lies where the old chain was.      *)
LEMMA SearchStill ==
  ASSUME NEW f, NEW g, NEW d, KeepsWalk(f, g, d), NEW S, NEW R,
         NEW a \in FirstOnChain(f, d, S), a \in R, R \subseteq Addr,
         \A b \in R : ClusterOf(b) \in Chain(f, d) => b \in S, f \in Table, d \in Cluster
  PROVE  a \in FirstOnChain(g, d, R)
<1>1. PICK k \in HitsOn(f, d, S) : a = SlotAt(f, d, k) /\ \A j \in HitsOn(f, d, S) : k <= j
  BY SearchResult
<1>2. k \in Nat /\ k \in Positions /\ k \div CS \in 0..MaxIndex
  BY PositionTyped DEF HitsOn
<1>3. Walk(f, d)[k \div CS] # EndMark /\ Walk(f, d)[k \div CS] # 0
  BY DEF HitsOn
<1>4. k \in HitsOn(g, d, R) /\ a = SlotAt(g, d, k)
  BY <1>1, <1>2, <1>3 DEF HitsOn, SlotAt, KeepsWalk
<1>5. ASSUME NEW j \in HitsOn(g, d, R), j < k PROVE FALSE
  <2>1. j \in Nat /\ j \in Positions /\ j \div CS \in 0..MaxIndex /\ j % CS \in 0..(CS - 1)
    BY PositionTyped DEF HitsOn
  <2>2. j \div CS <= k \div CS
    BY <2>1, <1>2, <1>5, DivMonotone
  <2>3. Walk(f, d)[j \div CS] # EndMark
    <3> SUFFICES ASSUME Walk(f, d)[j \div CS] = EndMark PROVE FALSE
      OBVIOUS
    <3>1. k \div CS \in (j \div CS)..MaxIndex
      BY <2>1, <2>2, <1>2, FatAssumption
    <3> QED
      BY <2>1, <3>1, <1>3, WalkStaysAtEnd
  <2>4. Walk(g, d)[j \div CS] = Walk(f, d)[j \div CS]
    BY <2>1, <2>3 DEF KeepsWalk
  <2>5. SlotAt(g, d, j) = SlotAt(f, d, j) /\ SlotAt(f, d, j) \in R /\ Walk(f, d)[j \div CS] # 0
    BY <2>4 DEF HitsOn, SlotAt
  <2>6. Walk(f, d)[j \div CS] \in Index
    BY <2>1, <2>3, <2>5, WalkTyped DEF Cluster
  <2>7. ClusterOf(SlotAt(f, d, j)) = Walk(f, d)[j \div CS]
    BY <2>1, <2>6, SlotOfCluster DEF SlotAt, ClusterOf
  <2>8. ClusterOf(SlotAt(f, d, j)) \in Chain(f, d)
    BY <2>1, <2>3, <2>7 DEF Chain
  <2>9. j \in HitsOn(f, d, S)
    BY <2>1, <2>3, <2>5, <2>8 DEF HitsOn
  <2> QED
    BY <2>1, <2>9, <1>1, <1>2, <1>5
<1>6. \A j \in HitsOn(g, d, R) : k <= j
  <2>1. \A j \in HitsOn(g, d, R) : j \in Nat
    BY PositionTyped DEF HitsOn
  <2> QED
    BY <1>2, <1>5, <2>1
<1> QED
  BY <1>4, <1>6, SearchDef

(* A change that takes no entry away, and adds none to a directory that    *)
(* has one of that name.                                                   *)
SameEntry(x, y) == x.attr = y.attr /\ x.name = y.name /\ x.head = y.head
KeepsEntries(dk, dk2) ==
  \A a \in EntriesOf(dk) : a \in EntriesOf(dk2) /\ SameEntry(dk2[a], dk[a])
TreeStays(f, dk, g, dk2) ==
  /\ KeepsEntries(dk, dk2)
  /\ \A e \in HeadsOf(dk) : KeepsWalk(f, g, e)
  /\ \A x \in EntriesOf(dk2), e \in DirsOf(dk) :
       x \in EntriesOf(dk) \/ ClusterOf(x) \notin Chain(f, e)
         \/ FirstOnChain(f, e, Named(dk, FileOrDir, dk2[x].name)) = {}

(* A directory stays where its path leads to.                              *)
LEMMA PathsStay ==
  ASSUME NEW f, NEW dk, NEW g, NEW dk2, Apart(f, dk), TreeStays(f, dk, g, dk2),
         NEW p \in Paths, IsDir(f, dk, p)
  PROVE  /\ IsDir(g, dk2, p)
         /\ get_cluster_number(g, dk2, p) = get_cluster_number(f, dk, p)
<1> DEFINE c(k) == get_cluster_number(f, dk, Prefix(p, k))
           e(k) == get_cluster_number(g, dk2, Prefix(p, k))
           T == {k \in Nat : k <= Len(p) => e(k) = c(k)}
<1>1. Len(p) \in Nat /\ Prefix(p, Len(p)) = p
  BY PathTyped
<1>2. f \in Table /\ dk \in [Addr -> Slot] /\ HeadsOf(dk) \in SUBSET Cluster
  BY HeadsTyped DEF Apart
<1>3. ASSUME NEW k \in 1..Len(p), e(k - 1) = c(k - 1)
      PROVE  /\ e(k) = c(k)
             /\ \E a \in Find(g, dk2, Prefix(p, k - 1), p[k]) : dk2[a].attr = "dir"
  <2>1. PICK d, n : d = c(k - 1) /\ n = p[k]
    OBVIOUS
  <2>2. d \in DirsOf(dk) /\ d \in HeadsOf(dk) /\ d \in Cluster
    <3>1. k - 1 \in 0..Len(p)
      BY <1>1
    <3>2. d \in DirsOf(dk)
      BY <2>1, <3>1, PathLeadsToDir
    <3> QED
      BY <1>2, <3>2, DirsAreHeads
  <2>3. PICK a \in EntriesOf(dk) :
           /\ dk[a].attr = "dir" /\ dk[a].name = n
           /\ a \in FirstOnChain(f, d, Named(dk, FileOrDir, n))
           /\ c(k) = dk[a].head
    BY <2>1, RouteFinds
  <2>4. PICK S, R : S = Named(dk, FileOrDir, n) /\ R = Named(dk2, FileOrDir, n)
    OBVIOUS
  <2>5. a \in EntriesOf(dk2) /\ dk2[a].attr = "dir" /\ dk2[a].name = n /\ dk2[a].head = dk[a].head
    BY <2>3 DEF TreeStays, KeepsEntries, SameEntry
  <2>6. a \in R /\ R \subseteq Addr
    BY <2>4, <2>5 DEF Named, EntriesOf
  <2>7. ASSUME NEW b \in R, ClusterOf(b) \in Chain(f, d) PROVE b \in S
    <3>1. b \in EntriesOf(dk2) /\ dk2[b].name = n
      BY <2>4 DEF Named, EntriesOf
    <3>2. b \in EntriesOf(dk)
      BY <2>2, <2>3, <2>7, <3>1 DEF TreeStays
    <3> QED
      BY <2>4, <3>1, <3>2 DEF TreeStays, KeepsEntries, SameEntry, Named, EntriesOf
  <2>8. KeepsWalk(f, g, d)
    BY <2>2 DEF TreeStays
  <2>9. a \in FirstOnChain(g, d, R)
    BY <1>2, <2>2, <2>3, <2>4, <2>6, <2>7, <2>8, SearchStill
  <2>10. StepTo(g, dk2, d, n) = dk2[a].head
    BY <2>4, <2>5, <2>9, StepToFound
  <2>11. e(k) = StepTo(g, dk2, e(k - 1), p[k])
    BY PathStep
  <2>12. e(k) = c(k)
    BY <1>3, <2>1, <2>3, <2>5, <2>10, <2>11
  <2>13. a \in Find(g, dk2, Prefix(p, k - 1), p[k])
    BY <1>3, <2>1, <2>4, <2>9 DEF Find, mfs_lookup
  <2> QED
    BY <2>5, <2>12, <2>13
<1>6. 0 \in T
  BY PathStep
<1>7. ASSUME NEW k \in Nat, k \in T PROVE k + 1 \in T
  <2> SUFFICES ASSUME k + 1 <= Len(p) PROVE e(k + 1) = c(k + 1)
    OBVIOUS
  <2>1. k + 1 \in 1..Len(p) /\ (k + 1) - 1 = k /\ e(k) = c(k)
    BY <1>1, <1>7
  <2> HIDE DEF e, c
  <2> QED
    BY <2>1, <1>3
<1> HIDE DEF e, c
<1>8. \A k \in Nat : k \in T
  BY <1>6, <1>7, Induction
<1>9. \A k \in 0..Len(p) : e(k) = c(k)
  BY <1>1, <1>8
<1>10. \A k \in 1..Len(p) :
         \E a \in Find(g, dk2, Prefix(p, k - 1), p[k]) : dk2[a].attr = "dir"
  <2> SUFFICES ASSUME NEW k \in 1..Len(p)
               PROVE  \E a \in Find(g, dk2, Prefix(p, k - 1), p[k]) : dk2[a].attr = "dir"
    OBVIOUS
  <2>1. k - 1 \in 0..Len(p)
    BY <1>1
  <2> QED
    BY <2>1, <1>3, <1>9
<1> QED
  BY <1>1, <1>9, <1>10 DEF IsDir, e, c

(* Every entry lies in a directory that a path leads to.                   *)
Holds(f, dk, x) ==
  \E p \in Paths : IsDir(f, dk, p) /\ ClusterOf(x) \in Chain(f, get_cluster_number(f, dk, p))
Owned(f, dk) == \A a \in EntriesOf(dk) : Holds(f, dk, a)

(* A chain whose walk is kept has lost no cluster.                          *)
LEMMA ChainGrows ==
  ASSUME NEW f, NEW g, NEW h, KeepsWalk(f, g, h)
  PROVE  Chain(f, h) \subseteq Chain(g, h)
BY DEF KeepsWalk, Chain

(* Entries stay in directories that paths lead to, when each new one lies   *)
(* in such a directory.                                                     *)
LEMMA OwnedStays ==
  ASSUME NEW f, NEW dk, NEW g, NEW dk2, Apart(f, dk), TreeStays(f, dk, g, dk2), Owned(f, dk),
         \A x \in EntriesOf(dk2) : x \in EntriesOf(dk) \/
           \E p \in Paths : IsDir(f, dk, p) /\ ClusterOf(x) \in Chain(g, get_cluster_number(f, dk, p))
  PROVE  Owned(g, dk2)
<1> SUFFICES ASSUME NEW x \in EntriesOf(dk2) PROVE Holds(g, dk2, x)
  BY DEF Owned
<1>1. \E p \in Paths : IsDir(f, dk, p) /\ ClusterOf(x) \in Chain(g, get_cluster_number(f, dk, p))
  <2> SUFFICES ASSUME x \in EntriesOf(dk)
               PROVE  \E p \in Paths : /\ IsDir(f, dk, p)
                                       /\ ClusterOf(x) \in Chain(g, get_cluster_number(f, dk, p))
    OBVIOUS
  <2>1. PICK p \in Paths : IsDir(f, dk, p) /\ ClusterOf(x) \in Chain(f, get_cluster_number(f, dk, p))
    BY DEF Owned, Holds
  <2>2. get_cluster_number(f, dk, p) \in HeadsOf(dk)
    BY <2>1, PathLeadsToHead
  <2> QED
    BY <2>1, <2>2, ChainGrows DEF TreeStays
<1>2. PICK p \in Paths : /\ IsDir(f, dk, p)
                         /\ ClusterOf(x) \in Chain(g, get_cluster_number(f, dk, p))
  BY <1>1
<1>3. IsDir(g, dk2, p) /\ get_cluster_number(g, dk2, p) = get_cluster_number(f, dk, p)
  BY <1>2, PathsStay
<1> QED
  BY <1>2, <1>3 DEF Holds

(* The same entries, and chains that at most grow.                         *)
LEMMA TreeUntouched ==
  ASSUME NEW f, NEW dk, NEW g, NEW dk2, KeepsEntries(dk, dk2), EntriesOf(dk2) = EntriesOf(dk),
         \A e \in HeadsOf(dk) : KeepsWalk(f, g, e)
  PROVE  TreeStays(f, dk, g, dk2)
BY DEF TreeStays

(* So they do when there are no new ones.                                   *)
LEMMA OwnedUntouched ==
  ASSUME NEW f, NEW dk, NEW g, NEW dk2, Apart(f, dk), KeepsEntries(dk, dk2),
         EntriesOf(dk2) = EntriesOf(dk), \A e \in HeadsOf(dk) : KeepsWalk(f, g, e), Owned(f, dk)
  PROVE  Owned(g, dk2)
BY TreeUntouched, OwnedStays

-----------------------------------------------------------------------------
(* Clusters in use that no chain has.                                      *)
LostOf(f, dk) == {i \in Index : f[i] # 0 /\ \A h \in HeadsOf(dk) : i \notin Chain(f, h)}

(* A mark for the head of a new entry costs that head, until an entry has   *)
(* it.                                                                      *)
LEMMA LostMarked ==
  ASSUME NEW f, NEW dk, Sound(f, dk), NEW head \in find_empty_fat_index(f)
  PROVE  LostOf(write_in_fat_index(f, head, EndMark), dk) \subseteq LostOf(f, dk) \cup {head}
<1> DEFINE g == write_in_fat_index(f, head, EndMark)
<1>1. \A h \in HeadsOf(dk) : Walk(g, h) = Walk(f, h) /\ Chain(g, h) = Chain(f, h)
  BY SoundMarked
<1>2. \A i \in Cluster : g[i] # 0 <=> f[i] # 0 \/ i = head
  BY SoundMarked
<1> HIDE DEF g
<1>3. LostOf(g, dk) \subseteq LostOf(f, dk) \cup {head}
  BY <1>1, <1>2 DEF LostOf, Cluster
<1> QED
  BY <1>3 DEF g

(* A chain that grows costs nothing.                                        *)
LEMMA LostGrown ==
  ASSUME NEW f, NEW dk, Sound(f, dk), NEW H \in SUBSET Cluster, HeadsOf(dk) \subseteq H,
         ChainsApart(f, H), NEW tail \in Cluster \ {0}, f[tail] = EndMark,
         NEW new \in find_empty_fat_index(f), new # 0,
         NEW h \in HeadsOf(dk), tail \in Chain(f, h)
  PROVE  LostOf(Extended(f, tail, new), dk) \subseteq LostOf(f, dk)
<1>1. PICK g : g = Extended(f, tail, new)
  OBVIOUS
<1>2. /\ \A e \in H : /\ Chain(f, e) \subseteq Chain(g, e)
                      /\ Chain(g, e) = IF tail \in Chain(f, e) THEN Chain(f, e) \cup {new}
                                       ELSE Chain(f, e)
      /\ \A i \in Cluster : g[i] # 0 <=> f[i] # 0 \/ i = new
  BY <1>1, SoundGrown
<1>3. new \in Chain(g, h)
  BY <1>2
<1>4. LostOf(g, dk) \subseteq LostOf(f, dk)
  BY <1>2, <1>3 DEF LostOf, Cluster
<1> QED
  BY <1>1, <1>4

(* Nor do more entries.                                                     *)
LEMMA LostFewer ==
  ASSUME NEW f, NEW dk, NEW dk2, HeadsOf(dk) \subseteq HeadsOf(dk2)
  PROVE  LostOf(f, dk2) \subseteq LostOf(f, dk)
BY DEF LostOf

-----------------------------------------------------------------------------
(* What files hold.                                                        *)

(* Each slot of a file lies in a cluster of its chain.                     *)
LEMMA SlotOfFile ==
  ASSUME NEW f, NEW dk, Sound(f, dk), NEW a \in EntriesOf(dk), dk[a].attr = "file",
         NEW k \in 0..(dk[a].size - 1)
  PROVE  LET h == dk[a].head IN
         /\ k \in Nat /\ k < dk[a].size /\ k \div CS \in 0..MaxIndex
         /\ Walk(f, h)[k \div CS] \in Index /\ Walk(f, h)[k \div CS] \in Chain(f, h)
         /\ SlotAt(f, h, k) \in Addr /\ ClusterOf(SlotAt(f, h, k)) = Walk(f, h)[k \div CS]
<1>1. PICK h, s : h = dk[a].head /\ s = dk[a].size
  OBVIOUS
<1> DEFINE w == Walk(f, h)
           e == Cardinality(Chain(f, h))
           j == k \div CS
           r == k % CS
<1>2. /\ f \in Table /\ HeadsOf(dk) \in SUBSET Cluster /\ ChainsApart(f, HeadsOf(dk))
      /\ h \in HeadsOf(dk) /\ h \in Cluster /\ s \in Nat
  BY <1>1, SoundTyped, EntriesTyped
<1>3. s <= CS * e /\ (h = 0 => s = 0)
  BY <1>1 DEF Sound, Sized, Fits
<1>4. /\ e \in 1..MaxIndex
      /\ \A i \in 0..MaxIndex : w[i] # EndMark <=> i < e
  BY <1>2, ChainCount
<1>5. k \in Nat /\ k < s /\ s # 0
  BY <1>1, <1>2
<1>6. j \in Nat /\ r \in 0..(CS - 1) /\ k = CS * j + r
  BY <1>5, DivMod
<1>7. j < e
  <2> HIDE DEF j, r, e
  <2> SUFFICES ASSUME j >= e PROVE FALSE
    BY <1>4, <1>6
  <2>1. CS * j >= CS * e
    BY <1>4, <1>6, MfsAssumption
  <2> QED
    BY <1>2, <1>3, <1>4, <1>5, <1>6, <2>1, MfsAssumption
<1>8. j \in 0..MaxIndex /\ w[j] # EndMark
  <2>1. j \in 0..MaxIndex
    <3> HIDE DEF j, e
    <3> QED
      BY <1>4, <1>6, <1>7, FatAssumption
  <2> QED
    BY <1>4, <1>7, <2>1
<1>9. w[j] \in Chain(f, h)
  BY <1>8 DEF Chain
<1>10. w[j] \in Index
  <2>1. w[j] # h => w[j] \in Index
    BY <1>2, <1>9, ChainInUse
  <2> QED
    BY <1>2, <1>3, <1>5, <2>1 DEF Cluster
<1>11. SlotAt(f, h, k) \in Addr /\ ClusterOf(SlotAt(f, h, k)) = w[j]
  BY <1>6, <1>10, SlotOfCluster DEF SlotAt, ClusterOf
<1> QED
  BY <1>1, <1>5, <1>8, <1>9, <1>10, <1>11

(* A client that reads a file gets what is in its slots.                   *)
LEMMA ContentIs ==
  ASSUME NEW f, NEW dk, NEW de, de.size \in Nat,
         \A k \in 0..(de.size - 1) :
           k \div CS \in 0..MaxIndex /\ Walk(f, de.head)[k \div CS] \in Index
  PROVE  Content(f, dk, de) = [i \in 1..de.size |-> dk[SlotAt(f, de.head, i - 1)]]
<1>1. ASSUME NEW i \in 1..de.size
      PROVE  read_file(f, dk, de, i - 1, 1)[1] = dk[SlotAt(f, de.head, i - 1)]
  <2>1. i - 1 \in 0..(de.size - 1) /\ i - 1 \in Nat /\ i - 1 < de.size
    OBVIOUS
  <2> QED
    BY <2>1, ReadOneSlot
<1> QED
  BY <1>1 DEF Content

(* It stays as long as these slots do.                                     *)
LEMMA ContentKept ==
  ASSUME NEW f, NEW dk, Sound(f, dk), NEW a \in EntriesOf(dk), dk[a].attr = "file",
         NEW g, KeepsWalk(f, g, dk[a].head), NEW dk2,
         \A k \in 0..(dk[a].size - 1) :
           dk2[SlotAt(f, dk[a].head, k)] = dk[SlotAt(f, dk[a].head, k)]
  PROVE  Content(g, dk2, dk[a]) = Content(f, dk, dk[a])
<1>1. PICK de : de = dk[a]
  OBVIOUS
<1>2. de.size \in Nat
  BY <1>1, SoundTyped, EntriesTyped
<1>3. ASSUME NEW k \in 0..(de.size - 1)
      PROVE  /\ k \div CS \in 0..MaxIndex /\ Walk(f, de.head)[k \div CS] \in Index
             /\ Walk(g, de.head)[k \div CS] = Walk(f, de.head)[k \div CS]
             /\ SlotAt(g, de.head, k) = SlotAt(f, de.head, k)
  <2>1. k \div CS \in 0..MaxIndex /\ Walk(f, de.head)[k \div CS] \in Index
    BY <1>1, SlotOfFile
  <2>2. Walk(g, de.head)[k \div CS] = Walk(f, de.head)[k \div CS]
    BY <1>1, <2>1, NotAnIndex DEF KeepsWalk
  <2> QED
    BY <2>1, <2>2 DEF SlotAt
<1>4. Content(f, dk, de) = [i \in 1..de.size |-> dk[SlotAt(f, de.head, i - 1)]]
  BY <1>2, <1>3, ContentIs
<1>5. Content(g, dk2, de) = [i \in 1..de.size |-> dk2[SlotAt(g, de.head, i - 1)]]
  BY <1>2, <1>3, ContentIs
<1>6. \A i \in 1..de.size : dk2[SlotAt(g, de.head, i - 1)] = dk[SlotAt(f, de.head, i - 1)]
  <2> SUFFICES ASSUME NEW i \in 1..de.size
               PROVE  dk2[SlotAt(g, de.head, i - 1)] = dk[SlotAt(f, de.head, i - 1)]
    OBVIOUS
  <2>1. i - 1 \in 0..(de.size - 1)
    BY <1>2
  <2> QED
    BY <1>1, <1>3, <2>1
<1> QED
  BY <1>1, <1>4, <1>5, <1>6

(* It stays when nothing is written to the clusters of the file.           *)
LEMMA ContentAside ==
  ASSUME NEW f, NEW dk, Sound(f, dk), NEW a \in EntriesOf(dk), dk[a].attr = "file",
         NEW g, KeepsWalk(f, g, dk[a].head), NEW dk2,
         \A x \in Addr : dk2[x] = dk[x] \/ ClusterOf(x) \notin Chain(f, dk[a].head)
  PROVE  Content(g, dk2, dk[a]) = Content(f, dk, dk[a])
<1>1. ASSUME NEW k \in 0..(dk[a].size - 1)
      PROVE  dk2[SlotAt(f, dk[a].head, k)] = dk[SlotAt(f, dk[a].head, k)]
  <2>1. PICK x : x = SlotAt(f, dk[a].head, k)
    OBVIOUS
  <2>2. x \in Addr /\ ClusterOf(x) \in Chain(f, dk[a].head)
    BY <2>1, SlotOfFile
  <2> QED
    BY <2>1, <2>2
<1> QED
  BY <1>1, ContentKept

(* It stays when something is written behind the end of the file.          *)
LEMMA ContentBefore ==
  ASSUME NEW f, NEW dk, Sound(f, dk), NEW a \in EntriesOf(dk), dk[a].attr = "file",
         NEW cl \in Index, NEW q \in 0..MaxIndex, q = dk[a].size \div CS,
         Walk(f, dk[a].head)[q] = cl, NEW dk2,
         \A x \in Addr : dk2[x] = dk[x]
           \/ (ClusterOf(x) = cl /\ Base(cl) + (dk[a].size % CS) <= x)
  PROVE  \A k \in 0..(dk[a].size - 1) :
           dk2[SlotAt(f, dk[a].head, k)] = dk[SlotAt(f, dk[a].head, k)]
<1> SUFFICES ASSUME NEW k \in 0..(dk[a].size - 1)
             PROVE  dk2[SlotAt(f, dk[a].head, k)] = dk[SlotAt(f, dk[a].head, k)]
  OBVIOUS
<1>1. PICK h, s, x : h = dk[a].head /\ s = dk[a].size /\ x = SlotAt(f, dk[a].head, k)
  OBVIOUS
<1>2. /\ f \in Table /\ HeadsOf(dk) \in SUBSET Cluster /\ ChainsApart(f, HeadsOf(dk))
      /\ h \in HeadsOf(dk) /\ h \in Cluster /\ s \in Nat
  BY <1>1, SoundTyped, EntriesTyped
<1>3. /\ k \in Nat /\ k < s /\ k \div CS \in 0..MaxIndex /\ x \in Addr
      /\ Walk(f, h)[k \div CS] \in Index /\ ClusterOf(x) = Walk(f, h)[k \div CS]
  BY <1>1, SlotOfFile
<1> SUFFICES ASSUME ClusterOf(x) = cl, Base(cl) + (s % CS) <= x PROVE FALSE
  BY <1>1, <1>3
<1>4. q = s \div CS /\ q \in Nat /\ Walk(f, h)[q] = cl
  BY <1>1, FatAssumption
<1>5. k \div CS = q
  <2> SUFFICES ASSUME k \div CS # q PROVE FALSE
    OBVIOUS
  <2>1. \A i, j \in 0..MaxIndex : i < j /\ Walk(f, h)[i] = Walk(f, h)[j] => Walk(f, h)[i] = EndMark
    BY <1>2, NoRepeat
  <2>2. PICK i : i = k \div CS
    OBVIOUS
  <2>3. i \in 0..MaxIndex /\ i # q /\ Walk(f, h)[i] = Walk(f, h)[q] /\ cl # EndMark
    BY <1>3, <1>4, <2>2, NotAnIndex
  <2>4. i < q \/ q < i
    BY <2>3, FatAssumption
  <2> QED
    BY <1>4, <2>1, <2>3, <2>4
<1>6. /\ k % CS \in 0..(CS - 1) /\ k = CS * q + (k % CS)
      /\ s % CS \in 0..(CS - 1) /\ s = CS * q + (s % CS)
  BY <1>2, <1>3, <1>4, <1>5, DivMod
<1>7. x = Base(cl) + (k % CS) /\ Base(cl) \in Int
  BY <1>1, <1>4, <1>5, MfsAssumption, FatAssumption DEF SlotAt, Base, Index
<1>8. PICK m, r, t, b : m = CS * q /\ r = k % CS /\ t = s % CS /\ b = Base(cl)
  OBVIOUS
<1>9. m \in Int /\ r \in Int /\ t \in Int /\ b \in Int
  BY <1>4, <1>6, <1>7, <1>8, MfsAssumption
<1>10. k = m + r /\ s = m + t /\ x = b + r /\ b + t <= x
  BY <1>6, <1>7, <1>8
<1>11. k < s
  BY <1>3
<1> QED
  BY <1>9, <1>10, <1>11

(* What a change of the volume leaves of its entries and files.            *)
KeepsFiles(f, dk, g, dk2) ==
  /\ KeepsEntries(dk, dk2)
  /\ \A a \in EntriesOf(dk) :
       dk2[a] = dk[a] /\ dk[a].attr = "file" => Content(g, dk2, dk[a]) = Content(f, dk, dk[a])
SameEntries(dk, dk2) == EntriesOf(dk2) = EntriesOf(dk) /\ \A a \in EntriesOf(dk) : dk2[a] = dk[a]

(* A change after one that has left the entries as they were.              *)
LEMMA KeepsFilesAfter ==
  ASSUME NEW f, NEW dk, NEW g, NEW dk2, KeepsFiles(f, dk, g, dk2), SameEntries(dk, dk2),
         NEW h, NEW dk3, KeepsFiles(g, dk2, h, dk3)
  PROVE  KeepsFiles(f, dk, h, dk3)
<1>1. KeepsEntries(dk, dk3)
  BY DEF KeepsFiles, KeepsEntries, SameEntries
<1>2. ASSUME NEW a \in EntriesOf(dk), dk3[a] = dk[a], dk[a].attr = "file"
      PROVE  Content(h, dk3, dk[a]) = Content(f, dk, dk[a])
  <2>1. a \in EntriesOf(dk2) /\ dk2[a] = dk[a]
    BY DEF SameEntries
  <2>2. Content(h, dk3, dk2[a]) = Content(g, dk2, dk2[a])
    BY <1>2, <2>1 DEF KeepsFiles
  <2>3. Content(g, dk2, dk[a]) = Content(f, dk, dk[a])
    BY <1>2, <2>1 DEF KeepsFiles
  <2> QED
    BY <2>1, <2>2, <2>3
<1> QED
  BY <1>1, <1>2 DEF KeepsFiles

(* A change of a sound volume that leaves it sound, and leaves entries,    *)
(* files and directories in their places.                                  *)
Leaves(f, dk, g, dk2) ==
  Sound(g, dk2) /\ KeepsFiles(f, dk, g, dk2) /\ (Owned(f, dk) => Owned(g, dk2))

(* One such change after another, when the first leaves the entries alone. *)
LEMMA LeavesAfter ==
  ASSUME NEW f, NEW dk, NEW g, NEW dk2, Leaves(f, dk, g, dk2), SameEntries(dk, dk2),
         NEW h, NEW dk3, Leaves(g, dk2, h, dk3)
  PROVE  Leaves(f, dk, h, dk3)
BY KeepsFilesAfter DEF Leaves

(* Entries that are the same.                                              *)
LEMMA SameIsKept ==
  ASSUME NEW dk, NEW dk2, SameEntries(dk, dk2)
  PROVE  KeepsEntries(dk, dk2) /\ EntriesOf(dk2) = EntriesOf(dk)
BY DEF SameEntries, KeepsEntries, SameEntry

(* The table changes and chains grow.                                      *)
LEMMA LeavesTable ==
  ASSUME NEW f, NEW dk, Sound(f, dk), NEW g, Sound(g, dk),
         \A h \in HeadsOf(dk) : KeepsWalk(f, g, h)
  PROVE  Leaves(f, dk, g, dk)
<1>1. KeepsEntries(dk, dk)
  BY DEF KeepsEntries, SameEntry
<1>2. ASSUME NEW a \in EntriesOf(dk), dk[a].attr = "file"
      PROVE  Content(g, dk, dk[a]) = Content(f, dk, dk[a])
  <2>1. KeepsWalk(f, g, dk[a].head)
    BY DEF HeadsOf
  <2> QED
    BY <1>2, <2>1, ContentAside
<1>3. Owned(f, dk) => Owned(g, dk)
  BY <1>1, OwnedUntouched DEF Sound
<1> QED
  BY <1>1, <1>2, <1>3 DEF Leaves, KeepsFiles

(* Nothing changes.                                                        *)
LEMMA LeavesSame ==
  ASSUME NEW f, NEW dk, Sound(f, dk)
  PROVE  Leaves(f, dk, f, dk) /\ SameEntries(dk, dk)
BY LeavesTable, SameWalk DEF SameEntries

(* Data is written behind the end of a file.                               *)
LEMMA LeavesPut ==
  ASSUME NEW f, NEW dk, Sound(f, dk), NEW a \in EntriesOf(dk), dk[a].attr = "file",
         NEW cl \in Index, NEW q \in 0..MaxIndex, q = dk[a].size \div CS,
         Walk(f, dk[a].head)[q] = cl, NEW dk2 \in [Addr -> Slot],
         \A x \in Addr : dk2[x] = dk[x]
           \/ (ClusterOf(x) = cl /\ Base(cl) + (dk[a].size % CS) <= x /\ dk2[x].attr = "data")
  PROVE  Leaves(f, dk, f, dk2) /\ SameEntries(dk, dk2)
<1>1. cl \in Chain(f, dk[a].head)
  BY NotAnIndex DEF Chain
<1>2. Sound(f, dk2) /\ SameEntries(dk, dk2)
  BY <1>1, SoundPut DEF SameEntries
<1>3. /\ f \in Table /\ HeadsOf(dk) \in SUBSET Cluster /\ ChainsApart(f, HeadsOf(dk))
      /\ dk \in [Addr -> Slot]
  BY SoundTyped
<1>4. ASSUME NEW b \in EntriesOf(dk), dk[b].attr = "file"
      PROVE  Content(f, dk2, dk[b]) = Content(f, dk, dk[b])
  <2>0. KeepsWalk(f, f, dk[b].head)
    BY SameWalk
  <2>1. CASE b = a
    <3>1. \A k \in 0..(dk[a].size - 1) :
            dk2[SlotAt(f, dk[a].head, k)] = dk[SlotAt(f, dk[a].head, k)]
      BY ContentBefore
    <3> QED
      <4>1. \A k \in 0..(dk[b].size - 1) :
              dk2[SlotAt(f, dk[b].head, k)] = dk[SlotAt(f, dk[b].head, k)]
        BY <2>1, <3>1
      <4> QED
        BY <1>4, <2>0, <4>1, ContentKept
  <2>2. CASE b # a /\ dk[b].head # 0
    <3>1. dk[a].head \in HeadsOf(dk) /\ dk[b].head \in HeadsOf(dk) /\ dk[a].head # dk[b].head
      BY <2>2 DEF HeadsOf, Sound, OwnHeadsOf
    <3>2. Chain(f, dk[a].head) \cap Chain(f, dk[b].head) = {}
      BY <1>3, <3>1, HeadsApart
    <3>3. \A x \in Addr : dk2[x] = dk[x] \/ ClusterOf(x) \notin Chain(f, dk[b].head)
      BY <1>1, <3>2
    <3> QED
      BY <1>4, <2>0, <3>3, ContentAside
  <2>3. CASE dk[b].head = 0
    <3>1. dk[b].size = 0
      BY <1>4, <2>3 DEF Sound, Sized, Fits
    <3>2. \A k \in 0..(dk[b].size - 1) :
            dk2[SlotAt(f, dk[b].head, k)] = dk[SlotAt(f, dk[b].head, k)]
      BY <3>1
    <3> QED
      BY <1>4, <2>0, <3>2, ContentKept
  <2> QED
    BY <2>1, <2>2, <2>3
<1>5. KeepsEntries(dk, dk2) /\ EntriesOf(dk2) = EntriesOf(dk)
  BY <1>2, SameIsKept
<1>6. Owned(f, dk) => Owned(f, dk2)
  BY <1>5, SameWalk, OwnedUntouched DEF Sound
<1> QED
  BY <1>2, <1>4, <1>5, <1>6 DEF Leaves, KeepsFiles

(* The entry of a file gets its new size.                                  *)
LEMMA LeavesSize ==
  ASSUME NEW f, NEW dk, Sound(f, dk), NEW a \in EntriesOf(dk), dk[a].attr = "file",
         NEW de \in Dirents, de.attr = "file", de.name = dk[a].name, de.head = dk[a].head,
         Fits(f, de), NEW dk2, dk2 = [x \in Addr |-> IF x = a THEN de ELSE dk[x]]
  PROVE  Leaves(f, dk, f, dk2) /\ HeadsOf(dk2) = HeadsOf(dk)
<1>1. /\ Sound(f, dk2) /\ EntriesOf(dk2) = EntriesOf(dk)
      /\ dk2[a] = de /\ \A x \in Addr \ {a} : dk2[x] = dk[x]
  BY SoundSize
<1>2. \A x \in EntriesOf(dk) : x \in Addr
  BY DEF EntriesOf
<1>3. KeepsEntries(dk, dk2) /\ HeadsOf(dk2) = HeadsOf(dk)
  <2>1. \A x \in EntriesOf(dk) : SameEntry(dk2[x], dk[x])
    BY <1>1, <1>2 DEF SameEntry
  <2>2. HeadsOf(dk2) = HeadsOf(dk)
    BY <1>1, <2>1 DEF HeadsOf, SameEntry
  <2> QED
    BY <1>1, <2>1, <2>2 DEF KeepsEntries
<1>4. ASSUME NEW b \in EntriesOf(dk), dk[b].attr = "file"
      PROVE  Content(f, dk2, dk[b]) = Content(f, dk, dk[b])
  <2>1. ClusterOf(a) \notin Chain(f, dk[b].head)
    BY <1>4 DEF Sound, EntriesHeld
  <2>2. \A x \in Addr : dk2[x] = dk[x] \/ ClusterOf(x) \notin Chain(f, dk[b].head)
    BY <1>1, <2>1
  <2> QED
    BY <1>4, <2>2, SameWalk, ContentAside
<1>5. Owned(f, dk) => Owned(f, dk2)
  BY <1>1, <1>3, SameWalk, OwnedUntouched DEF Sound
<1> QED
  BY <1>1, <1>3, <1>4, <1>5 DEF Leaves, KeepsFiles

(* An entry is added to a directory that has none of its name.             *)
LEMMA LeavesEntry ==
  ASSUME NEW f, NEW dk, Sound(f, dk), NEW g, \A h \in HeadsOf(dk) : KeepsWalk(f, g, h),
         NEW p \in Paths, IsDir(f, dk, p), NEW d, d = get_cluster_number(f, dk, p),
         NEW x \in Addr, x \notin EntriesOf(dk), ClusterOf(x) \in Chain(g, d),
         NEW de \in Dirents, FirstOnChain(f, d, Named(dk, FileOrDir, de.name)) = {},
         NEW dk2 \in [Addr -> Slot], dk2[x] = de, \A y \in Addr \ {x} : dk2[y] = dk[y],
         Sound(g, dk2)
  PROVE  Leaves(f, dk, g, dk2) /\ HeadsOf(dk) \subseteq HeadsOf(dk2) /\ de.head \in HeadsOf(dk2)
<1>1. dk \in [Addr -> Slot]
  BY SoundTyped
<1>2. EntriesOf(dk2) = EntriesOf(dk) \cup {x} /\ HeadsOf(dk2) = HeadsOf(dk) \cup {de.head}
  BY <1>1, EntryAdded
<1>3. \A a \in EntriesOf(dk) : a \in EntriesOf(dk2) /\ dk2[a] = dk[a]
  BY <1>2 DEF EntriesOf
<1>4. KeepsEntries(dk, dk2)
  BY <1>3 DEF KeepsEntries, SameEntry
<1>5. d \in DirsOf(dk)
  <2>1. Len(p) \in 0..Len(p) /\ Prefix(p, Len(p)) = p
    BY PathTyped
  <2> QED
    BY <2>1, PathLeadsToDir
<1>6. /\ g \in Table /\ HeadsOf(dk2) \in SUBSET Cluster /\ ChainsApart(g, HeadsOf(dk2))
  BY SoundTyped
<1>7. ASSUME NEW e \in DirsOf(dk), e # d PROVE ClusterOf(x) \notin Chain(f, e)
  <2>1. e \in HeadsOf(dk) /\ e \in HeadsOf(dk2) /\ d \in HeadsOf(dk2)
    BY <1>2, <1>5, DirsAreHeads
  <2>2. Chain(g, d) \cap Chain(g, e) = {}
    BY <1>6, <1>7, <2>1, HeadsApart
  <2>3. Chain(f, e) \subseteq Chain(g, e)
    BY <2>1, ChainGrows
  <2> QED
    BY <2>2, <2>3
<1>8. TreeStays(f, dk, g, dk2)
  <2>1. ASSUME NEW y \in EntriesOf(dk2), NEW e \in DirsOf(dk)
        PROVE  y \in EntriesOf(dk) \/ ClusterOf(y) \notin Chain(f, e)
                 \/ FirstOnChain(f, e, Named(dk, FileOrDir, dk2[y].name)) = {}
    <3>1. CASE y = x
      BY <1>7, <3>1
    <3> QED
      BY <1>2, <3>1
  <2> QED
    BY <1>4, <2>1 DEF TreeStays
<1>9. Owned(f, dk) => Owned(g, dk2)
  <2>1. \A y \in EntriesOf(dk2) : y \in EntriesOf(dk) \/
           \E w \in Paths : IsDir(f, dk, w) /\ ClusterOf(y) \in Chain(g, get_cluster_number(f, dk, w))
    BY <1>2
  <2> QED
    BY <1>8, <2>1, OwnedStays DEF Sound
<1>10. ASSUME NEW a \in EntriesOf(dk), dk[a].attr = "file"
       PROVE  Content(g, dk2, dk[a]) = Content(f, dk, dk[a])
  <2>1. KeepsWalk(f, g, dk[a].head)
    BY DEF HeadsOf
  <2>2. ClusterOf(x) \notin Chain(g, dk[a].head)
    BY <1>2, <1>3, <1>10 DEF Sound, EntriesHeld
  <2>3. Chain(f, dk[a].head) \subseteq Chain(g, dk[a].head)
    BY <2>1, ChainGrows
  <2>4. \A y \in Addr : dk2[y] = dk[y] \/ ClusterOf(y) \notin Chain(f, dk[a].head)
    BY <2>2, <2>3
  <2> QED
    BY <1>10, <2>1, <2>4, ContentAside
<1> QED
  BY <1>2, <1>4, <1>9, <1>10 DEF Leaves, KeepsFiles

-----------------------------------------------------------------------------
(* What a write at the end of a file does.                                 *)

(* The cluster it writes to is the one the end of the file is in, or comes *)
(* to, and the chain has got that far.                                     *)
EndsIn(g, e, cl) ==
  /\ cl \in Index /\ e.size \div CS \in 0..MaxIndex
  /\ Walk(g, e.head)[e.size \div CS] = cl
  /\ e.head # 0

(* The table as a write at the end of a file leaves it.                    *)
LEMMA ArriveLeaves ==
  ASSUME NEW f, NEW dk, Sound(f, dk), NEW a \in EntriesOf(dk), dk[a].attr = "file",
         dk[a].size <= MaxSize, NEW g, NEW cl \in Cluster \ {0},
         ArrivedAt(f, dk[a].head, dk[a].size, g, cl)
  PROVE  /\ Leaves(f, dk, g, dk) /\ LostOf(g, dk) \subseteq LostOf(f, dk)
         /\ EndsIn(g, dk[a], cl)
<1>1. PICK e, h, s, q : e = dk[a] /\ h = dk[a].head /\ s = dk[a].size /\ q = dk[a].size \div CS
  OBVIOUS
<1>2. /\ f \in Table /\ dk \in [Addr -> Slot] /\ HeadsOf(dk) \in SUBSET Cluster
      /\ ChainsApart(f, HeadsOf(dk)) /\ h \in HeadsOf(dk) /\ h \in Cluster /\ s \in Nat
  BY <1>1, SoundTyped, EntriesTyped
<1>3. s <= CS * Cardinality(Chain(f, h)) /\ (h = 0 => s = 0)
  BY <1>1 DEF Sound, Sized, Fits
<1>4. PICK n : n = Cardinality(Chain(f, h))
  OBVIOUS
<1>5. /\ n \in 1..MaxIndex
      /\ \A k \in 0..MaxIndex : Walk(f, h)[k] # EndMark <=> k < n
      /\ \A k \in 0..MaxIndex : Walk(f, h)[k] # EndMark /\ f[Walk(f, h)[k]] = EndMark => k = n - 1
  BY <1>2, <1>4, ChainCount
<1>6. q \in Nat /\ s % CS \in 0..(CS - 1) /\ s = CS * q + (s % CS)
  BY <1>1, <1>2, DivMod
<1>7. q <= MaxIndex
  <2> SUFFICES ASSUME q >= MaxIndex + 1 PROVE FALSE
    BY <1>6, FatAssumption
  <2>1. s <= CS * MaxIndex
    BY <1>1, <1>2, MfsAssumption, FatAssumption
  <2>2. CS * q >= CS * (MaxIndex + 1) /\ CS * (MaxIndex + 1) = CS * MaxIndex + CS
    BY <1>6, MfsAssumption, FatAssumption
  <2>3. PICK m, t : m = CS * q /\ t = CS * MaxIndex
    OBVIOUS
  <2> QED
    BY <1>2, <1>6, <2>1, <2>2, <2>3, MfsAssumption, FatAssumption
<1>8. q <= n
  <2> SUFFICES ASSUME q >= n + 1 PROVE FALSE
    BY <1>5, <1>6
  <2>1. CS * q >= CS * (n + 1) /\ CS * (n + 1) = CS * n + CS
    BY <1>5, <1>6, MfsAssumption
  <2> QED
    BY <1>2, <1>3, <1>4, <1>5, <1>6, <2>1, MfsAssumption
<1>9. q \in 0..MaxIndex /\ 0 \in 0..MaxIndex /\ Walk(f, h)[0] = h
  BY <1>6, <1>7, WalkStep, FatAssumption
<1>10. \A k \in 0..MaxIndex : LET c == Walk(f, h)[k] IN c # EndMark => c \in Cluster /\ (k # 0 => c \in Index)
  BY <1>2, HeadChain DEF Sound
<1>11. CASE g = f /\ cl = Walk(f, h)[q]
  <2>1. h # 0
    <3> SUFFICES ASSUME h = 0 PROVE FALSE
      OBVIOUS
    <3>1. q = 0
      BY <1>1, <1>3, MfsAssumption
    <3> QED
      BY <1>9, <1>11, <3>1
  <2>2. cl \in Index
    BY DEF Cluster
  <2>3. Leaves(f, dk, g, dk) /\ LostOf(g, dk) = LostOf(f, dk)
    BY <1>11, LeavesSame
  <2> QED
    BY <1>1, <1>9, <1>11, <2>1, <2>2, <2>3 DEF EndsIn
<1>12. CASE \E tail \in Cluster :
              /\ f[tail] = EndMark
              /\ \E k \in 0..(q - 1) : Walk(f, h)[k] = tail
              /\ cl \in find_empty_fat_index(f)
              /\ g = Extended(f, tail, cl)
  <2>1. PICK tail \in Cluster, k \in 0..(q - 1) :
          /\ f[tail] = EndMark /\ Walk(f, h)[k] = tail
          /\ cl \in find_empty_fat_index(f) /\ g = Extended(f, tail, cl)
    BY <1>12
  <2>2. k \in 0..MaxIndex /\ k \in Nat /\ k < q /\ tail # EndMark
    BY <1>6, <1>7, <2>1, NotAnIndex, FatAssumption
  <2>3. k = n - 1 /\ q = n /\ k = q - 1 /\ q # 0
    BY <1>5, <1>6, <1>8, <2>1, <2>2
  <2>4. h # 0
    <3> SUFFICES ASSUME h = 0 PROVE FALSE
      OBVIOUS
    <3>1. q = 0
      BY <1>1, <1>3, MfsAssumption
    <3> QED
      BY <2>3, <3>1
  <2>5. tail # 0
    BY <1>9, <1>10, <2>1, <2>2, <2>4, NotAnIndex
  <2>6. tail \in Chain(f, h)
    BY <2>1, <2>2 DEF Chain
  <2>7. /\ Sound(g, dk) /\ cl \in Index /\ f[cl] = 0
        /\ \A e0 \in HeadsOf(dk) : KeepsWalk(f, g, e0)
    <3>1. HeadsOf(dk) \subseteq HeadsOf(dk)
      OBVIOUS
    <3> QED
      BY <1>2, <2>1, <2>5, <3>1, SoundGrown
  <2>8. Leaves(f, dk, g, dk)
    BY <2>7, LeavesTable
  <2>9. LostOf(g, dk) \subseteq LostOf(f, dk)
    <3>1. HeadsOf(dk) \subseteq HeadsOf(dk)
      OBVIOUS
    <3> QED
      BY <1>2, <2>1, <2>5, <2>6, <3>1, LostGrown
  <2>10. Walk(g, h)[q] = cl
    <3>1. Walk(g, h)[k] = tail
      BY <1>2, <2>1, <2>2, <2>7 DEF KeepsWalk
    <3>2. q \in 1..MaxIndex
      BY <1>9, <2>3, FatAssumption
    <3>3. Walk(g, h)[q] = After(g, Walk(g, h)[q - 1])
      BY <3>2, WalkStep
    <3>4. After(g, tail) = g[tail]
      BY AfterCluster
    <3>5. g[tail] = cl
      BY <1>2, <2>1, <2>7, ExtendedFat
    <3> QED
      BY <2>3, <3>1, <3>3, <3>4, <3>5
  <2> QED
    BY <1>1, <1>9, <2>4, <2>7, <2>8, <2>9, <2>10 DEF EndsIn
<1> QED
  BY <1>1, <1>11, <1>12 DEF ArrivedAt

(* What a client may ask for that writes at the end.                       *)
LEMMA AppendAsked ==
  ASSUME AtEndOnly, NEW e, e.size \in Nat, NEW off, NEW buf \in Buffers, MayWrite(e, off, buf)
  PROVE  LET v == valid_len(Len(buf), off % CS) IN
         /\ off = e.size /\ e.size <= MaxSize /\ off % CS \in 0..(CS - 1)
         /\ v \in Nat /\ (off % CS) + v <= CS /\ v <= Len(buf)
<1>1. Len(buf) \in Nat \ {0}
  BY DEF Buffers
<1>2. /\ off = e.size /\ e.size + Len(buf) <= MaxSize
      /\ off % CS = 0 \/ (off % CS) + Len(buf) <= CS
  BY DEF MayWrite
<1>3. off % CS \in 0..(CS - 1)
  BY <1>2, DivMod
<1>4. e.size <= MaxSize
  BY <1>1, <1>2, MfsAssumption
<1>5. LET v == valid_len(Len(buf), off % CS) IN
        v \in Nat /\ (off % CS) + v <= CS /\ v <= Len(buf)
  BY <1>1, <1>2, <1>3, ValidLenAtEnd
<1> QED
  BY <1>2, <1>3, <1>4, <1>5

(* The volume once the data has been written.                              *)
LEMMA DataLeaves ==
  ASSUME AtEndOnly, NEW f, NEW dk, Sound(f, dk), NEW a \in EntriesOf(dk), dk[a].attr = "file",
         NEW off, NEW buf \in Buffers, MayWrite(dk[a], off, buf), NEW g, NEW cl \in Cluster \ {0},
         ArrivedAt(f, dk[a].head, off, g, cl), NEW dk2,
         dk2 = Put(dk, Base(cl) + (off % CS), valid_len(Len(buf), off % CS), buf)
  PROVE  /\ Leaves(f, dk, g, dk) /\ LostOf(g, dk) \subseteq LostOf(f, dk)
         /\ EndsIn(g, dk[a], cl)
         /\ Leaves(g, dk, g, dk2) /\ SameEntries(dk, dk2)
         /\ dk2 \in [Addr -> Slot]
         /\ \A x \in Addr : dk2[x] = dk[x] \/ dk2[x].attr = "data"
<1>1. /\ dk \in [Addr -> Slot] /\ dk[a].size \in Nat
  BY SoundTyped, EntriesTyped
<1>2. PICK v, co : v = valid_len(Len(buf), off % CS) /\ co = off % CS
  OBVIOUS
<1>3. /\ off = dk[a].size /\ dk[a].size <= MaxSize /\ co \in 0..(CS - 1)
      /\ v \in Nat /\ co + v <= CS /\ v <= Len(buf)
  BY <1>1, <1>2, AppendAsked
<1>4. /\ Leaves(f, dk, g, dk) /\ LostOf(g, dk) \subseteq LostOf(f, dk) /\ EndsIn(g, dk[a], cl)
  BY <1>3, ArriveLeaves
<1>5. cl \in Index /\ dk[a].size \div CS \in 0..MaxIndex /\ Walk(g, dk[a].head)[dk[a].size \div CS] = cl
  BY <1>4 DEF EndsIn
<1>6. PICK at : at = Base(cl) + co
  OBVIOUS
<1>7. dk2 = Put(dk, at, v, buf)
  BY <1>2, <1>6
<1>8. /\ dk2 \in [Addr -> Slot]
      /\ \A x \in Addr : dk2[x] = dk[x] \/ (ClusterOf(x) = cl /\ at <= x /\ dk2[x].attr = "data")
  BY <1>1, <1>3, <1>5, <1>6, <1>7, DataPut
<1>9. \A x \in Addr : dk2[x] = dk[x]
        \/ (ClusterOf(x) = cl /\ Base(cl) + (dk[a].size % CS) <= x /\ dk2[x].attr = "data")
  BY <1>2, <1>3, <1>6, <1>8
<1>10. Leaves(g, dk, g, dk2) /\ SameEntries(dk, dk2)
  BY <1>4, <1>5, <1>8, <1>9, LeavesPut DEF Leaves
<1> QED
  BY <1>4, <1>8, <1>10

(* The entry that alloc_new_entry updates is the one the write started     *)
(* from.                                                                   *)
LEMMA UpdatesEntry ==
  ASSUME NEW f, NEW dk, NEW d, NEW n, NEW a \in get_dentry(f, dk, d, n), NEW g, KeepsWalk(f, g, d),
         NEW dk2, SameEntries(dk, dk2), \A x \in Addr : dk2[x] = dk[x] \/ dk2[x].attr = "data",
         NEW de
  PROVE  alloc_new_entry(g, dk2, d, n, de) = [x \in Addr |-> IF x = a THEN de ELSE dk2[x]]
<1> DEFINE S == Named(dk, {"file"}, n)
           R == Named(dk2, {"file"}, n)
<1>1. a \in FirstOnChain(f, d, S) /\ a \in S
  BY SearchIsSound DEF get_dentry
<1>2. a \in EntriesOf(dk) /\ dk2[a] = dk[a]
  BY <1>1 DEF Named, EntriesOf, FileOrDir, SameEntries
<1>3. a \in R
  BY <1>1, <1>2 DEF Named
<1>4. R \in SUBSET S
  BY DEF Named
<1> HIDE DEF S, R
<1>5. FirstOnChain(g, d, R) = {a}
  BY <1>1, <1>3, <1>4, SearchAgain
<1>6. \A x : x \in get_dentry(g, dk2, d, n) <=> x = a
  BY <1>5 DEF get_dentry, R
<1> QED
  BY <1>6 DEF alloc_new_entry

(* A write that has come to its end.                                       *)
LEMMA WroteLeaves ==
  ASSUME AtEndOnly, NEW f, NEW dk, Sound(f, dk), NEW p \in Paths, IsDir(f, dk, p),
         NEW d, d = get_cluster_number(f, dk, p), NEW n, NEW a \in get_dentry(f, dk, d, n),
         NEW off, NEW buf \in Buffers, MayWrite(dk[a], off, buf), NEW g, NEW cl \in Cluster,
         ArrivedAt(f, dk[a].head, off, g, cl), NEW dk3,
         WroteInto(f, dk, d, n, a, off, buf, cl, g, dk3, "ok")
  PROVE  Leaves(f, dk, g, dk3) /\ LostOf(g, dk3) \subseteq LostOf(f, dk)
<1>1. PICK v, s, co : v = valid_len(Len(buf), off % CS) /\ s = dk[a].size /\ co = off % CS
  OBVIOUS
<1>2. PICK dk2 : dk2 = Put(dk, Base(cl) + co, v, buf)
  OBVIOUS
<1>3. a \in EntriesOf(dk) /\ dk[a].attr = "file"
  <2>1. a \in Named(dk, {"file"}, n)
    BY SearchIsSound DEF get_dentry
  <2> QED
    BY <2>1 DEF Named, EntriesOf, FileOrDir
<1>4. dk \in [Addr -> Slot] /\ dk[a] \in Dirents /\ s \in Nat
  BY <1>1, <1>3, SoundTyped, EntriesTyped
<1>5. PICK de : de = [dk[a] EXCEPT !.size = @ + v]
  OBVIOUS
<1>6. cl # 0 /\ dk3 = alloc_new_entry(g, dk2, d, n, de)
  BY <1>1, <1>2, <1>5 DEF WroteInto, Put
<1>7. /\ off = s /\ s <= MaxSize /\ co \in 0..(CS - 1)
      /\ v \in Nat /\ co + v <= CS /\ v <= Len(buf)
  BY <1>1, <1>4, AppendAsked
<1>8. /\ Leaves(f, dk, g, dk) /\ LostOf(g, dk) \subseteq LostOf(f, dk)
      /\ EndsIn(g, dk[a], cl)
      /\ Leaves(g, dk, g, dk2) /\ SameEntries(dk, dk2)
      /\ dk2 \in [Addr -> Slot]
      /\ \A x \in Addr : dk2[x] = dk[x] \/ dk2[x].attr = "data"
  <2>1. dk2 = Put(dk, Base(cl) + (off % CS), valid_len(Len(buf), off % CS), buf)
    BY <1>1, <1>2
  <2>2. cl \in Cluster \ {0}
    BY <1>6
  <2> QED
    BY <1>3, <2>1, <2>2, DataLeaves
<1>9. d \in HeadsOf(dk)
  BY PathLeadsToHead
<1>10. KeepsWalk(f, g, d)
  <2>1. CASE g = f
    BY <2>1, SameWalk
  <2>2. CASE \E tail \in Cluster :
              f[tail] = EndMark /\ cl \in find_empty_fat_index(f) /\ g = Extended(f, tail, cl)
    BY <1>6, <1>9, <2>2, GrownIs, SoundTyped
  <2> QED
    BY <2>1, <2>2 DEF ArrivedAt
<1>11. dk3 = [x \in Addr |-> IF x = a THEN de ELSE dk2[x]]
  BY <1>6, <1>8, <1>10, UpdatesEntry
<1>12. /\ de \in Dirents /\ de.attr = "file" /\ de.name = dk[a].name /\ de.head = dk[a].head
       /\ de.size = s + v
  BY <1>1, <1>3, <1>4, <1>5, <1>7 DEF Dirents
<1>13. Fits(g, de)
  <2>1. PICK q, h, e : q = s \div CS /\ h = dk[a].head /\ e = Cardinality(Chain(g, h))
    OBVIOUS
  <2>2. Walk(g, h)[q] # EndMark /\ q \in 0..MaxIndex /\ h # 0
    BY <1>1, <1>8, <2>1, NotAnIndex DEF EndsIn
  <2>3. /\ g \in Table /\ HeadsOf(dk) \in SUBSET Cluster /\ ChainsApart(g, HeadsOf(dk))
        /\ h \in HeadsOf(dk)
    BY <1>3, <1>4, <1>8, <2>1, SoundTyped, EntriesTyped DEF Leaves
  <2>4. e \in Nat /\ q < e
    BY <2>1, <2>2, <2>3, ChainCount
  <2>5. q \in Nat /\ s = CS * q + co
    BY <1>1, <1>4, <1>7, <2>1, DivMod
  <2>6. s + v <= CS * e
    <3>1. CS * e >= CS * (q + 1) /\ CS * (q + 1) = CS * q + CS
      BY <2>4, <2>5, MfsAssumption
    <3>2. PICK m, t : m = CS * q /\ t = CS * e
      OBVIOUS
    <3>3. m \in Int /\ t \in Int
      BY <2>4, <2>5, <3>2, MfsAssumption
    <3> QED
      BY <1>4, <1>7, <2>5, <3>1, <3>2, <3>3, MfsAssumption
  <2> QED
    BY <1>12, <2>1, <2>2, <2>6 DEF Fits
<1>14. a \in EntriesOf(dk2) /\ dk2[a] = dk[a] /\ Sound(g, dk2)
  BY <1>3, <1>8 DEF SameEntries, Leaves
<1>15. Leaves(g, dk2, g, dk3) /\ HeadsOf(dk3) = HeadsOf(dk2)
  BY <1>3, <1>11, <1>12, <1>13, <1>14, LeavesSize
<1>16. Leaves(g, dk, g, dk3)
  BY <1>8, <1>15, LeavesAfter
<1>17. Leaves(f, dk, g, dk3)
  <2>1. SameEntries(dk, dk)
    BY DEF SameEntries
  <2> QED
    BY <1>8, <1>16, <2>1, LeavesAfter
<1>18. HeadsOf(dk2) = HeadsOf(dk)
  BY <1>8 DEF SameEntries, HeadsOf
<1>19. LostOf(g, dk3) = LostOf(g, dk)
  BY <1>15, <1>18 DEF LostOf
<1> QED
  BY <1>8, <1>17, <1>19

-----------------------------------------------------------------------------
(* What a creation does.                                                   *)

(* The table once the head of the new entry is marked.                     *)
LEMMA MarkLeaves ==
  ASSUME NEW f, NEW dk, Sound(f, dk), NEW head \in find_empty_fat_index(f),
         NEW g, g = write_in_fat_index(f, head, EndMark)
  PROVE  /\ Leaves(f, dk, g, dk) /\ LostOf(g, dk) \subseteq LostOf(f, dk) \cup {head}
         /\ \A h \in HeadsOf(dk) : KeepsWalk(f, g, h)
<1> DEFINE m == write_in_fat_index(f, head, EndMark)
<1>0. Sound(m, dk) /\ \A h \in HeadsOf(dk) : Walk(m, h) = Walk(f, h) /\ Chain(m, h) = Chain(f, h)
  BY SoundMarked
<1> HIDE DEF m
<1>1. Sound(g, dk) /\ \A h \in HeadsOf(dk) : Walk(g, h) = Walk(f, h)
  <2>1. g = m
    BY DEF m
  <2> QED
    BY <1>0, <2>1
<1>2. \A h \in HeadsOf(dk) : KeepsWalk(f, g, h)
  BY <1>1 DEF KeepsWalk
<1>3. Leaves(f, dk, g, dk)
  BY <1>1, <1>2, LeavesTable
<1> QED
  BY <1>2, <1>3, LostMarked

(* The table once the chain of the directory has grown as well.            *)
DirGrown(f, dk, m, head, d, tail, new, g) ==
  /\ head \in find_empty_fat_index(f) /\ m = write_in_fat_index(f, head, EndMark)
  /\ d \in HeadsOf(dk) \ {0} /\ tail \in Cluster /\ tail \in Chain(m, d) /\ m[tail] = EndMark
  /\ new \in find_empty_fat_index(m) /\ new # 0 /\ g = Extended(m, tail, new)
DirHolds(f, dk, g, head, d, new) ==
  /\ ChainsApart(g, HeadsOf(dk) \cup {head}) /\ Chain(g, head) = {head}
  /\ new \in Chain(g, d) /\ new \in Index /\ f[new] = 0

(* It leaves a sound volume that has lost the marked head only.             *)
LEMMA DirLeaves ==
  ASSUME NEW f, NEW dk, Sound(f, dk), NEW m, NEW head, NEW d, NEW tail, NEW new, NEW g,
         DirGrown(f, dk, m, head, d, tail, new, g)
  PROVE  /\ Leaves(f, dk, g, dk) /\ LostOf(g, dk) \subseteq LostOf(f, dk) \cup {head}
         /\ \A h \in HeadsOf(dk) : KeepsWalk(f, g, h)
         /\ DirHolds(f, dk, g, head, d, new)
<1>0. /\ head \in find_empty_fat_index(f) /\ m = write_in_fat_index(f, head, EndMark)
      /\ d \in HeadsOf(dk) \ {0} /\ tail \in Cluster /\ tail \in Chain(m, d) /\ m[tail] = EndMark
      /\ new \in find_empty_fat_index(m) /\ new # 0 /\ g = Extended(m, tail, new)
  BY DEF DirGrown
<1>1. PICK H : H = HeadsOf(dk) \cup {head}
  OBVIOUS
<1>2. /\ Sound(m, dk) /\ ChainsApart(m, H) /\ Chain(m, head) = {head} /\ head \in Cluster
      /\ head \in HeadsOf(dk) => head = 0
      /\ \A h \in HeadsOf(dk) : Walk(m, h) = Walk(f, h)
      /\ \A i \in Cluster : m[i] # 0 <=> f[i] # 0 \/ i = head
  BY <1>0, <1>1, SoundMarked
<1>3. H \in SUBSET Cluster /\ HeadsOf(dk) \subseteq H /\ m \in Table /\ d \in H /\ head \in H
  BY <1>0, <1>1, <1>2, SoundTyped
<1>4. tail # 0
  <2>1. tail # d => tail \in Index
    BY <1>0, <1>2, <1>3, ChainInUse
  <2> QED
    BY <1>0, <2>1, NotAnIndex
<1>5. /\ Sound(g, dk) /\ ChainsApart(g, H) /\ new \in Index /\ m[new] = 0
      /\ \A h \in H : /\ KeepsWalk(m, g, h)
                      /\ Chain(g, h) = IF tail \in Chain(m, h) THEN Chain(m, h) \cup {new}
                                       ELSE Chain(m, h)
  BY <1>0, <1>2, <1>3, <1>4, SoundGrown
<1>6. \A h \in HeadsOf(dk) : KeepsWalk(f, g, h)
  BY <1>2, <1>3, <1>5 DEF KeepsWalk
<1>7. Leaves(f, dk, g, dk)
  BY <1>5, <1>6, LeavesTable
<1>8. LostOf(g, dk) \subseteq LostOf(m, dk)
  BY <1>0, <1>2, <1>3, <1>4, LostGrown
<1>9. LostOf(m, dk) \subseteq LostOf(f, dk) \cup {head}
  BY <1>0, LostMarked
<1>10. tail \notin Chain(m, head)
  <2>1. d # head
    BY <1>0, <1>2
  <2>2. Chain(m, d) \cap Chain(m, head) = {}
    BY <1>2, <1>3, <2>1, HeadsApart
  <2> QED
    BY <1>0, <2>2
<1>11. Chain(g, head) = {head} /\ new \in Chain(g, d)
  BY <1>0, <1>2, <1>3, <1>5, <1>10
<1>12. f[new] = 0
  BY <1>0, <1>2, <1>5 DEF Cluster
<1> QED
  BY <1>1, <1>5, <1>6, <1>7, <1>8, <1>9, <1>11, <1>12 DEF DirHolds

(* An entry is written to a slot.                                           *)
Adds(dk, x, de, dk2) == dk2 = [dk EXCEPT ![x] = de]

(* The new entry is written, to a slot of the directory that has none.     *)
LEMMA EntryLeaves ==
  ASSUME NEW f, NEW dk, Sound(f, dk), NEW p \in Paths, IsDir(f, dk, p),
         NEW d, d = get_cluster_number(f, dk, p), d # 0,
         NEW n \in Names, Find(f, dk, p, n) = {}, NEW attr \in FileOrDir,
         NEW head \in find_empty_fat_index(f),
         NEW g, Sound(g, dk), LostOf(g, dk) \subseteq LostOf(f, dk) \cup {head},
         \A h \in HeadsOf(dk) : KeepsWalk(f, g, h),
         ChainsApart(g, HeadsOf(dk) \cup {head}), Chain(g, head) = {head},
         NEW x \in Addr, x \notin EntriesOf(dk), ClusterOf(x) \in Chain(g, d),
         NEW dk2, Adds(dk, x, Dirent(attr, n, head, 0), dk2)
  PROVE  Leaves(f, dk, g, dk2) /\ LostOf(g, dk2) \subseteq LostOf(f, dk)
<1>1. /\ head \in Cluster /\ head # RootCluster /\ (head \in HeadsOf(dk) => head = 0)
      /\ \A a \in EntriesOf(dk) : ClusterOf(a) # head
  BY SoundMarked
<1>2. d \in DirsOf(dk) \ {0}
  <2>1. Len(p) \in 0..Len(p) /\ Prefix(p, Len(p)) = p
    BY PathTyped
  <2> QED
    BY <2>1, PathLeadsToDir
<1>3. \A a \in EntriesOf(dk) : ClusterOf(a) \notin Chain(g, head)
  BY <1>1
<1>4. Sound(g, dk2)
  <2>1. Sound(g, [dk EXCEPT ![x] = Dirent(attr, n, head, 0)])
    BY <1>1, <1>2, <1>3, SoundEntry
  <2> QED
    BY <2>1 DEF Adds
<1>5. PICK de : de = Dirent(attr, n, head, 0)
  OBVIOUS
<1>6. de \in Dirents /\ de.name = n /\ de.head = head
  BY <1>1, <1>5 DEF Dirent, Dirents
<1>7. dk \in [Addr -> Slot] /\ dk2 \in [Addr -> Slot]
  BY <1>4, SoundTyped
<1>8. dk2[x] = de /\ \A y \in Addr \ {x} : dk2[y] = dk[y]
  BY <1>5, <1>7 DEF Adds
<1>9. FirstOnChain(f, d, Named(dk, FileOrDir, de.name)) = {}
  BY <1>6 DEF Find, mfs_lookup
<1>10. /\ Leaves(f, dk, g, dk2) /\ HeadsOf(dk) \subseteq HeadsOf(dk2)
       /\ de.head \in HeadsOf(dk2)
  BY <1>4, <1>6, <1>7, <1>8, <1>9, LeavesEntry
<1>11. LostOf(g, dk2) \subseteq LostOf(g, dk)
  BY <1>10, LostFewer
<1>12. head \notin LostOf(g, dk2)
  BY <1>6, <1>10 DEF LostOf
<1> QED
  BY <1>10, <1>11, <1>12

(* A creation that has come to its end.                                    *)
LEMMA MadeLeaves ==
  ASSUME NEW f, NEW dk, Sound(f, dk), NEW p \in Paths, IsDir(f, dk, p),
         NEW n \in Names, Find(f, dk, p, n) = {}, NEW attr \in FileOrDir,
         NEW head \in find_empty_fat_index(f), NEW g, NEW dk2,
         MadeInto(f, dk, p, n, attr, head, g, dk2, "ok")
  PROVE  Leaves(f, dk, g, dk2) /\ LostOf(g, dk2) \subseteq LostOf(f, dk)
<1>1. PICK m, d : m = write_in_fat_index(f, head, EndMark) /\ d = get_cluster_number(f, dk, p)
  OBVIOUS
<1>2. d \in HeadsOf(dk)
  BY <1>1, PathLeadsToHead
<1>3. CASE /\ d # 0 /\ g = m
           /\ \E a \in FirstOnChain(m, d, Free(dk)) : dk2 = [dk EXCEPT ![a] = Dirent(attr, n, head, 0)]
  <2>1. PICK x \in FirstOnChain(m, d, Free(dk)) : dk2 = [dk EXCEPT ![x] = Dirent(attr, n, head, 0)]
    BY <1>3
  <2>2. /\ Leaves(f, dk, m, dk) /\ LostOf(m, dk) \subseteq LostOf(f, dk) \cup {head}
        /\ \A h \in HeadsOf(dk) : KeepsWalk(f, m, h)
    BY <1>1, MarkLeaves
  <2>3. ChainsApart(m, HeadsOf(dk) \cup {head}) /\ Chain(m, head) = {head}
    BY <1>1, SoundMarked
  <2>4. m \in Table /\ d \in Cluster /\ Sound(m, dk)
    BY <1>2, <2>2, SoundTyped DEF Leaves
  <2>5. x \in Addr /\ ClusterOf(x) \in Chain(m, d)
    BY <2>1, <2>4, SearchOnChain DEF ClusterOf
  <2>6. x \notin EntriesOf(dk)
    <3>1. x \in Free(dk)
      BY <2>1, SearchIsSound
    <3> QED
      BY <3>1 DEF Free, EntriesOf, Blank, FileOrDir
  <2>8. Adds(dk, x, Dirent(attr, n, head, 0), dk2)
    BY <2>1 DEF Adds
  <2>7. Leaves(f, dk, m, dk2) /\ LostOf(m, dk2) \subseteq LostOf(f, dk)
    BY <1>1, <1>3, <2>2, <2>3, <2>4, <2>5, <2>6, <2>8, EntryLeaves
  <2> QED
    BY <1>3, <2>7
<1>4. CASE /\ d # 0
           /\ \E tail \in Cluster, new \in find_empty_fat_index(m) :
                /\ tail \in Chain(m, d) /\ m[tail] = EndMark
                /\ g = Extended(m, tail, new) /\ new # 0
                /\ dk2 = [dk EXCEPT ![Base(new)] = Dirent(attr, n, head, 0)]
  <2>1. PICK tail \in Cluster, new \in find_empty_fat_index(m) :
                /\ tail \in Chain(m, d) /\ m[tail] = EndMark
                /\ g = Extended(m, tail, new) /\ new # 0
                /\ dk2 = [dk EXCEPT ![Base(new)] = Dirent(attr, n, head, 0)]
    BY <1>4
  <2>2. /\ Leaves(f, dk, g, dk) /\ LostOf(g, dk) \subseteq LostOf(f, dk) \cup {head}
        /\ \A h \in HeadsOf(dk) : KeepsWalk(f, g, h)
        /\ ChainsApart(g, HeadsOf(dk) \cup {head}) /\ Chain(g, head) = {head}
        /\ new \in Chain(g, d) /\ new \in Index /\ f[new] = 0
    <3>1. d \in HeadsOf(dk) \ {0}
      BY <1>2, <1>4
    <3>2. DirGrown(f, dk, m, head, d, tail, new, g)
      BY <1>1, <2>1, <3>1 DEF DirGrown
    <3>3. Leaves(f, dk, g, dk) /\ LostOf(g, dk) \subseteq LostOf(f, dk) \cup {head}
      BY <3>2, DirLeaves
    <3>4. \A h \in HeadsOf(dk) : KeepsWalk(f, g, h)
      BY <3>2, DirLeaves
    <3>5. DirHolds(f, dk, g, head, d, new)
      BY <3>2, DirLeaves
    <3> QED
      BY <3>3, <3>4, <3>5 DEF DirHolds
  <2>3. PICK x : x = Base(new)
    OBVIOUS
  <2>4. x \in Addr /\ ClusterOf(x) = new
    <3>1. 0 \in 0..(CS - 1) /\ Base(new) + 0 = Base(new)
      BY <2>2, MfsAssumption, FatAssumption DEF Base, Index
    <3> QED
      BY <2>2, <2>3, <3>1, SlotOfCluster DEF ClusterOf
  <2>5. x \notin EntriesOf(dk)
    BY <2>2, <2>4 DEF Sound, EntriesHeld
  <2>6. Sound(g, dk) /\ Adds(dk, x, Dirent(attr, n, head, 0), dk2)
    BY <2>1, <2>2, <2>3 DEF Leaves, Adds
  <2> QED
    BY <1>1, <1>4, <2>2, <2>4, <2>5, <2>6, EntryLeaves
<1> QED
  BY <1>1, <1>3, <1>4 DEF MadeInto

(* What a call leaves that has come to its end.                            *)
LEMMA OutcomeLeaves ==
  ASSUME AtEndOnly, NEW f, NEW dk, Sound(f, dk), NEW g, NEW dk2, Outcome(f, dk, g, dk2, "ok")
  PROVE  Leaves(f, dk, g, dk2) /\ LostOf(g, dk2) \subseteq LostOf(f, dk)
<1>1. CASE g = f /\ dk2 = dk
  BY <1>1, LeavesSame
<1>2. CASE \E p \in Paths, n \in Names, attr \in FileOrDir, head \in find_empty_fat_index(f) :
             /\ IsDir(f, dk, p) /\ Find(f, dk, p, n) = {}
             /\ MadeInto(f, dk, p, n, attr, head, g, dk2, "ok")
  BY <1>2, MadeLeaves
<1>3. CASE \E p \in Paths, n \in Names, off \in 0..MaxSize, buf \in Buffers :
             LET d == get_cluster_number(f, dk, p) IN
             /\ IsDir(f, dk, p)
             /\ \E a \in get_dentry(f, dk, d, n), cl \in Cluster :
                  /\ MayWrite(dk[a], off, buf)
                  /\ ArrivedAt(f, dk[a].head, off, g, cl)
                  /\ WroteInto(f, dk, d, n, a, off, buf, cl, g, dk2, "ok")
  <2>1. PICK p \in Paths, n \in Names, off \in 0..MaxSize, buf \in Buffers :
             LET d == get_cluster_number(f, dk, p) IN
             /\ IsDir(f, dk, p)
             /\ \E a \in get_dentry(f, dk, d, n), cl \in Cluster :
                  /\ MayWrite(dk[a], off, buf)
                  /\ ArrivedAt(f, dk[a].head, off, g, cl)
                  /\ WroteInto(f, dk, d, n, a, off, buf, cl, g, dk2, "ok")
    BY <1>3
  <2>2. PICK d : d = get_cluster_number(f, dk, p)
    OBVIOUS
  <2>3. PICK a \in get_dentry(f, dk, d, n), cl \in Cluster :
                  /\ MayWrite(dk[a], off, buf)
                  /\ ArrivedAt(f, dk[a].head, off, g, cl)
                  /\ WroteInto(f, dk, d, n, a, off, buf, cl, g, dk2, "ok")
    BY <2>1, <2>2
  <2> QED
    BY <2>1, <2>2, <2>3, WroteLeaves
<1> QED
  BY <1>1, <1>2, <1>3 DEF Outcome

-----------------------------------------------------------------------------
(* What a call leaves that is killed, other than while it grows a chain.   *)
GrowsNow(r) == r.pc = "mark_new" \/ (r.pc \in {"entry", "data"} /\ r.cur = 0)
PromisedBy(r) == IF r.making THEN {r.head} ELSE {}
Midway(f0, d0, f, dk, r) ==
  /\ Leaves(f0, d0, f, dk) /\ SameEntries(d0, dk)
  /\ LostOf(f, dk) \subseteq LostOf(f0, d0) \cup PromisedBy(r)

(* It has marked the head of an entry.                                     *)
LEMMA MidMarked ==
  ASSUME NEW f0, NEW d0, Sound(f0, d0), NEW f, NEW r, Making(f0, d0, r), f = Marked(f0, r)
  PROVE  Midway(f0, d0, f, d0, r)
<1>1. PICK head : head = r.head
  OBVIOUS
<1>2. r.making /\ head \in find_empty_fat_index(f0) /\ f = write_in_fat_index(f0, head, EndMark)
  BY <1>1 DEF Making, Marked
<1>3. Leaves(f0, d0, f, d0) /\ LostOf(f, d0) \subseteq LostOf(f0, d0) \cup {head}
  BY <1>2, MarkLeaves
<1> QED
  BY <1>1, <1>2, <1>3 DEF Midway, SameEntries, PromisedBy

(* It has changed nothing.                                                 *)
LEMMA MidSame ==
  ASSUME NEW f0, NEW d0, Sound(f0, d0), NEW r
  PROVE  Midway(f0, d0, f0, d0, r)
BY LeavesSame DEF Midway

(* It has grown the chain of a directory, or found a slot there.           *)
LEMMA MidEntering ==
  ASSUME NEW f0, NEW d0, Sound(f0, d0), NEW f, NEW r, Asked(f0, d0, r), Entering(f0, d0, f, r),
         r.cur # 0
  PROVE  Midway(f0, d0, f, d0, r)
<1>1. PICK m, head, d : m = Marked(f0, r) /\ head = r.head /\ d = r.dir
  OBVIOUS
<1>2. Making(f0, d0, r) /\ r.making /\ head \in find_empty_fat_index(f0)
  BY <1>1 DEF Entering, Making
<1>3. CASE f = m
  BY <1>1, <1>2, <1>3, MidMarked
<1>4. CASE AtTail(f0, d0, r) /\ r.cur \in find_empty_fat_index(m) /\ f = Extended(m, r.prev, r.cur)
  <2>1. PICK tail, new : tail = r.prev /\ new = r.cur
    OBVIOUS
  <2>2. m = write_in_fat_index(f0, head, EndMark)
    BY <1>1, <1>2 DEF Marked
  <2>3. tail \in Cluster /\ m[tail] = EndMark /\ d # 0 /\ tail \in Chain(m, d)
    BY <1>1, <1>2, <1>4, <2>1 DEF AtTail
  <2>4. new \in find_empty_fat_index(m) /\ new # 0 /\ f = Extended(m, tail, new)
        /\ head \in find_empty_fat_index(f0)
    BY <1>2, <1>4, <2>1
  <2>5. d \in HeadsOf(d0) \ {0}
    BY <1>1, <1>2, <2>3, MakingTable DEF Sound
  <2>6. Leaves(f0, d0, f, d0) /\ LostOf(f, d0) \subseteq LostOf(f0, d0) \cup {head}
    <3>1. DirGrown(f0, d0, m, head, d, tail, new, f)
      BY <2>2, <2>3, <2>4, <2>5 DEF DirGrown
    <3> QED
      BY <3>1, DirLeaves
  <2> QED
    BY <1>1, <1>2, <2>6 DEF Midway, SameEntries, PromisedBy
<1> QED
  BY <1>1, <1>3, <1>4 DEF Entering

(* It has come to the cluster it writes to; and it has written there.      *)
LEMMA MidReached ==
  ASSUME AtEndOnly, NEW f0, NEW d0, Sound(f0, d0), NEW f, NEW r, Asked(f0, d0, r),
         r.kind = "write", NEW a \in Opened(f0, d0, r), r.de.head = d0[a].head,
         NEW cl \in Cluster \ {0}, Reached(f0, d0, f, r, cl)
  PROVE  Midway(f0, d0, f, d0, r) /\ Midway(f0, d0, f, Stored(d0, cl, r), r)
<1>1. a \in EntriesOf(d0) /\ d0[a].attr = "file" /\ MayWrite(d0[a], r.off, r.buf)
  BY OpenedIs DEF Sound
<1>2. PICK off, buf, h : off = r.off /\ buf = r.buf /\ h = d0[a].head
  OBVIOUS
<1>3. buf \in Buffers /\ ~r.making
  BY <1>2 DEF Asked
<1>4. ArrivedAt(f0, h, off, f, cl)
  BY <1>2, <1>3, ReachedIs
<1>5. PICK dk2 : dk2 = Put(d0, Base(cl) + (off % CS), valid_len(Len(buf), off % CS), buf)
  OBVIOUS
<1>6. dk2 = Stored(d0, cl, r)
  BY <1>2, <1>5 DEF Stored, Put, Settled
<1>7. /\ Leaves(f0, d0, f, d0) /\ LostOf(f, d0) \subseteq LostOf(f0, d0)
      /\ Leaves(f, d0, f, dk2) /\ SameEntries(d0, dk2)
  BY <1>1, <1>2, <1>3, <1>4, <1>5, DataLeaves
<1>8. SameEntries(d0, d0)
  BY DEF SameEntries
<1>9. Leaves(f0, d0, f, dk2)
  BY <1>7, <1>8, LeavesAfter
<1>10. LostOf(f, dk2) = LostOf(f, d0)
  <2>1. HeadsOf(dk2) = HeadsOf(d0)
    BY <1>7 DEF SameEntries, HeadsOf
  <2> QED
    BY <2>1 DEF LostOf
<1> QED
  BY <1>6, <1>7, <1>8, <1>9, <1>10 DEF Midway

(* All of it.                                                              *)
LEMMA MidLeaves ==
  ASSUME AtEndOnly, NEW f0, NEW d0, Sound(f0, d0), NEW f, NEW dk, NEW r,
         Progress(f0, d0, f, dk, r), ~GrowsNow(r)
  PROVE  Midway(f0, d0, f, dk, r)
<1>1. Asked(f0, d0, r) /\ Doing(f0, d0, f, dk, r)
  BY DEF Progress
<1>2. CASE dk = d0 /\ f = f0
  BY <1>2, MidSame
<1>3. CASE dk = d0 /\ Allocating(f0, d0, f, r)
  BY <1>3, MidMarked DEF Allocating
<1>4. CASE dk = d0 /\ Grows(f0, d0, f, r)
  <2>1. f = Marked(f0, r)
    BY <1>4 DEF Grows, GrowsNow
  <2>2. CASE r.making
    BY <1>4, <2>1, <2>2, MidMarked DEF Grows
  <2>3. CASE ~r.making
    BY <1>4, <2>1, <2>3, MidSame DEF Marked
  <2> QED
    BY <2>2, <2>3
<1>5. CASE dk = d0 /\ Entering(f0, d0, f, r)
  <2>1. r.cur # 0
    BY <1>5 DEF Entering, GrowsNow
  <2> QED
    BY <1>1, <1>5, <2>1, MidEntering
<1>6. CASE dk = d0 /\ Storing(f0, d0, f, r)
  <2>1. r.cur # 0 /\ r.kind = "write" /\ Reached(f0, d0, f, r, r.cur)
    BY <1>6 DEF Storing, GrowsNow, Has
  <2>2. PICK a \in Opened(f0, d0, r) : r.de = d0[a]
    BY <1>6 DEF Storing, Has
  <2>3. r.cur \in Cluster \ {0}
    BY <2>1, FoundIsUnused DEF Reached
  <2>4. PICK cl : cl = r.cur
    OBVIOUS
  <2>5. Midway(f0, d0, f, d0, r)
    BY <1>1, <2>1, <2>2, <2>3, <2>4, MidReached
  <2> QED
    BY <1>6, <2>5
<1>7. CASE Updating(f0, d0, f, dk, r)
  <2>1. PICK cl \in Cluster \ {0} : Reached(f0, d0, f, r, cl) /\ dk = Stored(d0, cl, r)
    BY <1>7 DEF Updating
  <2>2. r.kind = "write"
    BY <1>7 DEF Updating, HasGrown
  <2>3. PICK a \in Opened(f0, d0, r) : r.de = [d0[a] EXCEPT !.size = @ + Settled(r)]
    BY <1>7 DEF Updating, HasGrown
  <2>4. d0[a] \in Dirents
    BY <1>1, <2>2, OpenedIs DEF Sound
  <2>5. r.de.head = d0[a].head
    BY <2>3, <2>4 DEF Dirents
  <2> QED
    BY <1>1, <2>1, <2>2, <2>5, MidReached
<1> QED
  BY <1>1, <1>2, <1>3, <1>4, <1>5, <1>6, <1>7 DEF Doing

(* While it grows one, the data is what it was.                            *)
LEMMA GrowingData ==
  ASSUME NEW f0, NEW d0, NEW f, NEW dk, NEW r, Progress(f0, d0, f, dk, r), GrowsNow(r)
  PROVE  dk = d0
<1>1. Doing(f0, d0, f, dk, r)
  BY DEF Progress
<1> QED
  BY <1>1, Phases DEF GrowsNow

-----------------------------------------------------------------------------
(* The invariant: whatever happened, the volume is one that is sound, or   *)
(* what the call that runs has made of such a one; and each crash has cost *)
(* that volume one cluster at most.                                        *)
Settlement(f0, d0, k) == Sound(f0, d0) /\ Owned(f0, d0) /\ Cardinality(LostOf(f0, d0)) <= k
Under(f0, d0, f, dk, r) == IF r = Idle THEN f = f0 /\ dk = d0 ELSE Progress(f0, d0, f, dk, r)
From(f0, d0, c) == Under(f0, d0, fat, disk, calls[c])
FromNext(f0, d0, c) == Under(f0, d0, fat', disk', calls'[c])
XInv ==
  /\ crashes \in Nat
  /\ \E m : calls = [c \in Callers |-> m[c]]
  /\ status = "ok" /\ ~torn =>
       \E f0, d0 : Settlement(f0, d0, crashes) /\ \A c \in Callers : From(f0, d0, c)

(* The lost clusters are finitely many.                                    *)
LEMMA LostCount ==
  ASSUME NEW f, NEW dk, NEW g, NEW dk2, NEW x, LostOf(g, dk2) \subseteq LostOf(f, dk) \cup x
  PROVE  /\ x = {} => Cardinality(LostOf(g, dk2)) <= Cardinality(LostOf(f, dk))
         /\ Cardinality(LostOf(f, dk)) \in Nat /\ Cardinality(LostOf(g, dk2)) \in Nat
         /\ \A i : x = {i} => Cardinality(LostOf(g, dk2)) <= Cardinality(LostOf(f, dk)) + 1
<1>1. IsFiniteSet(LostOf(f, dk)) /\ IsFiniteSet(LostOf(g, dk2))
  <2>1. IsFiniteSet(Index)
    BY FatAssumption, FS_Interval DEF Index
  <2> QED
    BY <2>1, FS_Subset DEF LostOf
<1>2. ASSUME x = {} PROVE Cardinality(LostOf(g, dk2)) <= Cardinality(LostOf(f, dk))
  BY <1>1, <1>2, FS_Subset
<1>3. ASSUME NEW i, x = {i} PROVE Cardinality(LostOf(g, dk2)) <= Cardinality(LostOf(f, dk)) + 1
  <2>1. PICK s, t : s = LostOf(f, dk) /\ t = LostOf(g, dk2)
    OBVIOUS
  <2>2. IsFiniteSet(s) /\ t \subseteq s \cup {i}
    BY <1>1, <1>3, <2>1
  <2>3. /\ IsFiniteSet(s \cup {i})
        /\ Cardinality(s \cup {i}) = Cardinality(s) \/ Cardinality(s \cup {i}) = Cardinality(s) + 1
    BY <2>2, FS_AddElement
  <2>4. Cardinality(t) <= Cardinality(s \cup {i})
    BY <2>2, <2>3, FS_Subset
  <2>5. Cardinality(t) \in Nat /\ Cardinality(s) \in Nat
    BY <1>1, <2>1, FS_CardinalityType
  <2> QED
    BY <2>1, <2>3, <2>4, <2>5
<1>4. Cardinality(LostOf(f, dk)) \in Nat /\ Cardinality(LostOf(g, dk2)) \in Nat
  BY <1>1, FS_CardinalityType
<1> QED
  BY <1>2, <1>3, <1>4

(* The volume before any call.                                             *)
LEMMA InitXInv == IOInit => XInv
<1> SUFFICES ASSUME IOInit PROVE XInv
  OBVIOUS
<1>1. Init /\ crashes = 0 /\ calls = [c \in Callers |-> Idle]
  BY DEF IOInit
<1>2. MInv /\ crashes \in Nat /\ \E m : calls = [c \in Callers |-> m[c]]
  BY InitMInv DEF MInv
<1>3. Apart(fat, disk)
  <2>1. RInv /\ seen = [fat |-> fat, disk |-> disk, status |-> status] /\ status = "ok"
    BY <1>1, <1>2 DEF MInv, IOInit, Init
  <2>2. Apart(seen.fat, seen.disk) /\ seen.fat = fat /\ seen.disk = disk
    BY <1>1, <2>1 DEF RInv
  <2> QED
    BY <2>2
<1>4. EntriesOf(disk) = {}
  BY <1>1 DEF Init, EntriesOf, Blank, FileOrDir
<1>5. fat[0] = 0
  BY <1>1, FatAssumption DEF Init, FormattedFat, Cluster, RootCluster
<1>6. Sound(fat, disk) /\ Owned(fat, disk)
  BY <1>3, <1>4, <1>5 DEF Sound, OwnHeadsOf, EntriesHeld, Sized, Owned
<1>7. LostOf(fat, disk) = {}
  <2>1. fat \in Table /\ RootCluster \in Cluster /\ fat[RootCluster] = EndMark
    BY <1>1, <1>3, FatAssumption DEF Apart, Init, FormattedFat, Cluster, RootCluster, Index
  <2>2. Chain(fat, RootCluster) = {RootCluster}
    BY <2>1, ChainOfOne
  <2>3. \A i \in Index : fat[i] # 0 => i = RootCluster
    BY <1>1 DEF Init, FormattedFat, Cluster
  <2> QED
    BY <2>2, <2>3 DEF LostOf, HeadsOf
<1>8. Cardinality(LostOf(fat, disk)) <= crashes
  BY <1>1, <1>7, FS_EmptySet
<1>9. \A c \in Callers : From(fat, disk, c)
  BY <1>1 DEF From, Under
<1>10. Settlement(fat, disk, crashes)
  BY <1>6, <1>8 DEF Settlement
<1> QED
  BY <1>2, <1>9, <1>10 DEF XInv

(* A call begins, seeks, or reads the super block.                         *)
LEMMA BeginFrom ==
  ASSUME NEW c \in DOMAIN calls, NEW f0, NEW d0, Sound(f0, d0), From(f0, d0, c),
         Begin(c) \/ Seek(c) \/ ReadSb(c)
  PROVE  FromNext(f0, d0, c)
<1>1. CASE Begin(c)
  <2>1. calls[c] = Idle /\ fat' = fat /\ disk' = disk
    BY <1>1 DEF Begin
  <2>2. fat = f0 /\ disk = d0 /\ Apart(f0, d0)
    BY <2>1 DEF From, Under, Sound
  <2>3. Progress(f0, d0, f0, d0, calls'[c])
    BY <1>1, <2>2, Begins
  <2> QED
    BY <2>1, <2>2, <2>3 DEF FromNext, Under
<1>2. CASE Seek(c) \/ ReadSb(c)
  <2>1. calls[c] # Idle /\ fat' = fat /\ disk' = disk /\ \E io : Set(c, io)
    BY <1>2 DEF Seek, ReadSb, Io
  <2>2. PICK io : calls' = [calls EXCEPT ![c].io = io]
    BY <2>1 DEF Set
  <2>3. PICK r, q : r = calls[c] /\ q = [r EXCEPT !.io = io]
    OBVIOUS
  <2>4. calls'[c] = q
    BY <2>2, <2>3
  <2>5. Progress(f0, d0, fat, disk, r)
    BY <2>1, <2>3 DEF From, Under
  <2>6. Progress(f0, d0, fat, disk, q)
    BY <2>3, <2>5, IoAside
  <2>7. q # Idle
    BY <2>6, BusyFields DEF Progress, Asked
  <2> QED
    BY <2>1, <2>4, <2>6, <2>7 DEF FromNext, Under
<1> QED
  BY <1>1, <1>2

(* A call makes a transfer: it goes on, or it returns and leaves a volume  *)
(* from which the next one begins.                                         *)
LEMMA TransferFrom ==
  ASSUME AtEndOnly, NEW c \in DOMAIN calls, NEW f0, NEW d0, Settlement(f0, d0, crashes),
         crashes \in Nat, From(f0, d0, c), status = "ok", Transfer(c), status' = "ok"
  PROVE  \/ FromNext(f0, d0, c)
         \/ /\ calls'[c] = Idle /\ Settlement(fat', disk', crashes) /\ FromNext(fat', disk', c)
            /\ Leaves(f0, d0, fat', disk')
<1>1. calls[c] # Idle /\ Effect(c, calls[c])
  BY DEF Transfer, Io
<1>2. PICK r : r = calls[c]
  OBVIOUS
<1>3. Progress(f0, d0, fat, disk, r) /\ Sound(f0, d0)
  BY <1>1, <1>2 DEF From, Under, Settlement
<1>4. Ready(f0, d0, r) /\ Effect(c, r)
  BY <1>1, <1>2, <1>3 DEF Ready, Progress, Sound
<1>5. Moves(f0, d0, c) \/ Returns(f0, d0, c)
  BY <1>4, Effects
<1>6. CASE Moves(f0, d0, c)
  <2>1. PICK q : Goes(c, q) /\ Progress(f0, d0, fat', disk', q)
    BY <1>6 DEF Moves
  <2>2. calls'[c] = q
    BY <2>1 DEF Goes
  <2>3. q # Idle
    BY <2>1, BusyFields DEF Progress, Asked
  <2> QED
    BY <2>1, <2>2, <2>3 DEF FromNext, Under
<1>7. CASE Returns(f0, d0, c)
  <2>1. PICK g, dk : g = fat' /\ dk = disk'
    OBVIOUS
  <2>2. Outcome(f0, d0, g, dk, "ok")
    BY <1>7, <2>1 DEF Returns
  <2>3. calls'[c] = Idle
    BY <1>7 DEF Returns, Return
  <2>4. Leaves(f0, d0, g, dk) /\ LostOf(g, dk) \subseteq LostOf(f0, d0)
    BY <1>3, <2>2, OutcomeLeaves
  <2>5. PICK x : x = {}
    OBVIOUS
  <2>6. LostOf(g, dk) \subseteq LostOf(f0, d0) \cup x
    BY <2>4
  <2>7. /\ Cardinality(LostOf(g, dk)) <= Cardinality(LostOf(f0, d0))
        /\ Cardinality(LostOf(f0, d0)) \in Nat /\ Cardinality(LostOf(g, dk)) \in Nat
    BY <2>5, <2>6, LostCount
  <2>8. Cardinality(LostOf(g, dk)) <= crashes
    BY <2>7 DEF Settlement
  <2>9. Settlement(g, dk, crashes)
    BY <2>4, <2>8 DEF Settlement, Leaves
  <2>10. FromNext(g, dk, c)
    BY <2>1, <2>3 DEF FromNext, Under
  <2> QED
    BY <2>1, <2>3, <2>4, <2>9, <2>10
<1> QED
  BY <1>5, <1>6, <1>7

(* What the call that runs has made of the volume it found.                *)
LEMMA UnderLeaves ==
  ASSUME AtEndOnly, NEW f0, NEW d0, Sound(f0, d0), NEW f, NEW dk, NEW r, Under(f0, d0, f, dk, r)
  PROVE  /\ SameEntries(d0, dk)
         /\ r = Idle => Leaves(f0, d0, f, dk) /\ LostOf(f, dk) = LostOf(f0, d0)
         /\ r # Idle /\ ~GrowsNow(r) => Midway(f0, d0, f, dk, r)
<1>1. CASE r = Idle
  <2>1. f = f0 /\ dk = d0
    BY <1>1 DEF Under
  <2> QED
    BY <1>1, <2>1, LeavesSame
<1>2. CASE r # Idle
  <2>1. Progress(f0, d0, f, dk, r)
    BY <1>2 DEF Under
  <2>2. CASE GrowsNow(r)
    <3>1. dk = d0
      BY <2>1, <2>2, GrowingData
    <3> QED
      BY <1>2, <2>2, <3>1 DEF SameEntries
  <2>3. CASE ~GrowsNow(r)
    <3>1. Midway(f0, d0, f, dk, r)
      BY <2>1, <2>3, MidLeaves
    <3> QED
      BY <1>2, <3>1 DEF Midway
  <2> QED
    BY <2>2, <2>3
<1> QED
  BY <1>1, <1>2

(* So much for the one caller: other than while it grows a chain, it could *)
(* be killed, and the volume is sound and has lost what it has promised to *)
(* an entry.                                                               *)
LEMMA NowLeaves ==
  ASSUME OneCaller, AtEndOnly, NEW f0, NEW d0, Sound(f0, d0), \A c \in Callers : From(f0, d0, c),
         ~Growing
  PROVE  /\ Leaves(f0, d0, fat, disk) /\ SameEntries(d0, disk)
         /\ LostOf(fat, disk) \subseteq LostOf(f0, d0) \cup Promised
         /\ Promised = {} \/ \E i : Promised = {i}
<1>1. PICK c : Callers = {c}
  BY DEF OneCaller
<1>2. PICK r, f, dk : r = calls[c] /\ f = fat /\ dk = disk
  OBVIOUS
<1>3. Under(f0, d0, f, dk, r)
  BY <1>1, <1>2 DEF From
<1>4. ~GrowsNow(r)
  BY <1>1, <1>2 DEF Growing, GrowsNow
<1>5. CASE r = Idle
  <2>1. Leaves(f0, d0, f, dk) /\ LostOf(f, dk) = LostOf(f0, d0) /\ SameEntries(d0, dk)
    BY <1>3, <1>5, UnderLeaves
  <2>2. Promised = {}
    BY <1>1, <1>2, <1>5 DEF Promised
  <2> QED
    BY <1>2, <2>1, <2>2
<1>6. CASE r # Idle
  <2>1. Midway(f0, d0, f, dk, r)
    BY <1>3, <1>4, <1>6, UnderLeaves
  <2>2. Promised = PromisedBy(r)
    BY <1>1, <1>2, <1>6 DEF Promised, PromisedBy
  <2>3. PromisedBy(r) = {} \/ \E i : PromisedBy(r) = {i}
    BY DEF PromisedBy
  <2> QED
    BY <1>2, <2>1, <2>2, <2>3 DEF Midway
<1> QED
  BY <1>5, <1>6

(* A crash leaves a volume from which the next call begins.                *)
LEMMA CrashFrom ==
  ASSUME OneCaller, AtEndOnly, NEW f0, NEW d0, Settlement(f0, d0, crashes), crashes \in Nat,
         \A c \in Callers : From(f0, d0, c), Crash, ~torn'
  PROVE  Settlement(fat', disk', crashes') /\ \A c \in Callers : FromNext(fat', disk', c)
<1>1. /\ fat' = fat /\ disk' = disk /\ crashes' = crashes + 1 /\ calls' = [c \in Callers |-> Idle]
      /\ ~Growing
  BY DEF Crash
<1>2. \A c \in Callers : FromNext(fat', disk', c)
  BY <1>1 DEF FromNext, Under
<1>3. PICK x : x = Promised
  OBVIOUS
<1>4. /\ Leaves(f0, d0, fat, disk) /\ LostOf(fat, disk) \subseteq LostOf(f0, d0) \cup x
      /\ x = {} \/ \E i : x = {i}
  BY <1>1, <1>3, NowLeaves DEF Settlement
<1>5. /\ Cardinality(LostOf(f0, d0)) \in Nat /\ Cardinality(LostOf(fat, disk)) \in Nat
      /\ Cardinality(LostOf(fat, disk)) <= Cardinality(LostOf(f0, d0)) + 1
  <2>1. CASE x = {}
    BY <1>4, <2>1, LostCount
  <2>2. CASE \E i : x = {i}
    BY <1>4, <2>2, LostCount
  <2> QED
    BY <1>4, <2>1, <2>2
<1>6. Settlement(fat, disk, crashes + 1)
  BY <1>4, <1>5 DEF Settlement, Leaves
<1> QED
  BY <1>1, <1>2, <1>6

(* Every step of the one caller, and every crash.                          *)
LEMMA NextXInv ==
  ASSUME OneCaller, AtEndOnly, XInv, [IONext]_ioVars
  PROVE  XInv'
<1>1. CASE UNCHANGED ioVars
  BY <1>1 DEF ioVars, XInv, From
<1>2. CASE IONext
  <2>1. PICK m : calls = [c \in Callers |-> m[c]]
    BY DEF XInv
  <2>2. \E n : calls' = [c \in Callers |-> n[c]]
    BY <1>2, <2>1, CallsStay
  <2>3. status = "ok" /\ (Crash \/ crashes' = crashes) /\ crashes \in Nat
    BY <1>2, StepsNeed DEF XInv
  <2>4. crashes' \in Nat
    BY <2>3 DEF Crash
  <2>5. ASSUME status' = "ok", ~torn'
        PROVE  \E f0, d0 : Settlement(f0, d0, crashes') /\ \A c \in Callers : FromNext(f0, d0, c)
    <3>1. ~torn
      BY <1>2, <2>5 DEF IONext, Crash, Begin, Step, Seek, ReadSb, Transfer
    <3>2. PICK f0, d0 : Settlement(f0, d0, crashes) /\ \A c \in Callers : From(f0, d0, c)
      BY <2>3, <3>1 DEF XInv
    <3>3. CASE Crash
      BY <2>3, <2>5, <3>2, <3>3, CrashFrom
    <3>4. CASE ~Crash
      <4>1. PICK c : Callers = {c}
        BY DEF OneCaller
      <4>2. c \in DOMAIN calls /\ c \in Callers /\ From(f0, d0, c) /\ Sound(f0, d0)
        BY <2>1, <3>2, <4>1 DEF Settlement
      <4>3. (Begin(c) \/ Seek(c) \/ ReadSb(c)) \/ Transfer(c)
        BY <1>2, <3>4, <4>1 DEF IONext, Step
      <4>4. CASE Begin(c) \/ Seek(c) \/ ReadSb(c)
        <5>1. FromNext(f0, d0, c)
          BY <4>2, <4>4, BeginFrom
        <5> QED
          BY <2>3, <3>2, <3>4, <4>1, <5>1
      <4>5. CASE Transfer(c)
        <5>1. FromNext(f0, d0, c) \/ (Settlement(fat', disk', crashes) /\ FromNext(fat', disk', c))
          BY <2>3, <2>5, <3>2, <4>2, <4>5, TransferFrom
        <5> QED
          BY <2>3, <3>2, <3>4, <4>1, <5>1
      <4> QED
        BY <4>3, <4>4, <4>5
    <3> QED
      BY <3>3, <3>4
  <2>6. status' = "ok" /\ ~torn' =>
          \E f0, d0 : Settlement(f0, d0, crashes') /\ \A c \in Callers : From(f0, d0, c)'
    BY <2>5 DEF From, FromNext
  <2> QED
    BY <2>2, <2>4, <2>6 DEF XInv
<1> QED
  BY <1>1, <1>2

(* The invariant holds from the start on.                                  *)
LEMMA XInvHolds == OneCaller /\ AtEndOnly => (IOSpec => []XInv)
<1> SUFFICES ASSUME OneCaller, AtEndOnly PROVE IOSpec => []XInv
  OBVIOUS
<1>1. IOInit => XInv
  BY InitXInv
<1>2. XInv /\ [IONext]_ioVars => XInv'
  BY NextXInv
<1> QED
  BY <1>1, <1>2, PTL DEF IOSpec

(* The chain of a file has room for its size.                              *)
Roomy(a) ==
  disk[a].attr = "file" => disk[a].size <= CS * Cardinality(Chain(fat, disk[a].head))

(* The chains of a sound volume are apart and end, and have room for their  *)
(* files.                                                                   *)
LEMMA SoundShows ==
  Sound(fat, disk) => NoMergedChains /\ EveryChainEnds /\ \A a \in EntryAddrs : Roomy(a)
<1> SUFFICES ASSUME Sound(fat, disk)
             PROVE  NoMergedChains /\ EveryChainEnds /\ \A a \in EntryAddrs : Roomy(a)
  OBVIOUS
<1>1. EntryAddrs = EntriesOf(disk) /\ AllHeads = HeadsOf(disk) /\ AllHeads = Heads \cup {RootCluster}
  BY DEF EntryAddrs, EntriesOf, AllHeads, HeadsOf, Heads
<1>2. /\ fat \in Table /\ HeadsOf(disk) \in SUBSET Cluster /\ ChainsApart(fat, HeadsOf(disk))
  BY SoundTyped
<1>3. NoMergedChains
  BY <1>1, <1>2 DEF ChainsApart, NoMergedChains
<1>4. EveryChainEnds
  BY <1>1, <1>2, WalkEnds DEF EveryChainEnds
<1>5. ASSUME NEW a \in EntryAddrs PROVE Roomy(a)
  BY <1>1 DEF Sound, Sized, Fits, Roomy
<1> QED
  BY <1>3, <1>4, <1>5

(* Growing is the only time when a crash does harm to the chains, for one  *)
(* caller whose clients write at the end of their files.                   *)
THEOREM CrashesKeepChains == OneCaller /\ AtEndOnly => (IOSpec => []CrashKeepsChains)
<1> SUFFICES ASSUME OneCaller, AtEndOnly PROVE IOSpec => []CrashKeepsChains
  OBVIOUS
<1>1. XInv => CrashKeepsChains
  <2> SUFFICES ASSUME XInv, ~torn, ~Growing
               PROVE  /\ NoMergedChains /\ EveryChainEnds
                      /\ status = "ok" => \A a \in EntryAddrs : Roomy(a)
    BY DEF CrashKeepsChains, Roomy
  <2>1. CASE status # "ok"
    BY <2>1 DEF NoMergedChains, EveryChainEnds
  <2>2. CASE status = "ok"
    <3>1. PICK f0, d0 : Settlement(f0, d0, crashes) /\ \A c \in Callers : From(f0, d0, c)
      BY <2>2 DEF XInv
    <3>2. Sound(fat, disk)
      BY <3>1, NowLeaves DEF Settlement, Leaves
    <3> QED
      BY <2>2, <3>2, SoundShows
  <2> QED
    BY <2>1, <2>2
<1>2. IOSpec => []XInv
  BY XInvHolds
<1> QED
  BY <1>1, <1>2, PTL

(* A cluster in use that no path leads to is lost.                         *)
LEMMA LostIsUnreachable ==
  ASSUME Sound(fat, disk), Owned(fat, disk)
  PROVE  {i \in Index : fat[i] # 0} \ Reachable \subseteq LostOf(fat, disk)
<1> SUFFICES ASSUME NEW i \in Index, fat[i] # 0, i \notin Reachable, NEW h \in HeadsOf(disk)
             PROVE  i \notin Chain(fat, h)
  BY DEF LostOf
<1>1. CASE h = RootCluster
  BY <1>1 DEF Reachable
<1>2. CASE h # RootCluster
  <2>1. PICK a \in EntriesOf(disk) : h = disk[a].head
    BY <1>2 DEF HeadsOf
  <2>2. PICK p \in Paths :
          IsDir(fat, disk, p) /\ ClusterOf(a) \in Chain(fat, get_cluster_number(fat, disk, p))
    BY DEF Owned, Holds
  <2>3. PICK d : d = get_cluster_number(fat, disk, p)
    OBVIOUS
  <2>4. d \in ReachableDirs
    BY <2>2, <2>3 DEF ReachableDirs
  <2>5. a \in EntryAddrs /\ a \in Listed(d)
    BY <2>2, <2>3 DEF EntriesOf, EntryAddrs, Listed, ClusterOf
  <2> QED
    BY <2>1, <2>4, <2>5 DEF Reachable
<1> QED
  BY <1>1, <1>2

(* At any other time a crash costs one cluster at most.                    *)
THEOREM CrashesLoseOneCluster == OneCaller /\ AtEndOnly => (IOSpec => []CrashLosesOneCluster)
<1> SUFFICES ASSUME OneCaller, AtEndOnly PROVE IOSpec => []CrashLosesOneCluster
  OBVIOUS
<1>1. XInv => CrashLosesOneCluster
  <2> SUFFICES ASSUME XInv, status = "ok", ~torn, ~Growing
               PROVE  Cardinality({i \in Index : fat[i] # 0} \ (Reachable \cup Promised)) <= crashes
    BY DEF CrashLosesOneCluster
  <2>1. PICK f0, d0 : Settlement(f0, d0, crashes) /\ \A c \in Callers : From(f0, d0, c)
    BY DEF XInv
  <2>2. Leaves(f0, d0, fat, disk) /\ LostOf(fat, disk) \subseteq LostOf(f0, d0) \cup Promised
    BY <2>1, NowLeaves DEF Settlement
  <2>3. {i \in Index : fat[i] # 0} \ Reachable \subseteq LostOf(fat, disk)
    BY <2>1, <2>2, LostIsUnreachable DEF Leaves, Settlement
  <2>4. PICK x : x = {i \in Index : fat[i] # 0} \ (Reachable \cup Promised)
    OBVIOUS
  <2>5. x \subseteq LostOf(f0, d0)
    BY <2>2, <2>3, <2>4
  <2>6. IsFiniteSet(LostOf(f0, d0))
    <3>1. IsFiniteSet(Index)
      BY FatAssumption, FS_Interval DEF Index
    <3> QED
      BY <3>1, FS_Subset DEF LostOf
  <2>7. Cardinality(x) <= Cardinality(LostOf(f0, d0)) /\ IsFiniteSet(x)
    BY <2>5, <2>6, FS_Subset
  <2>8. Cardinality(x) \in Nat /\ Cardinality(LostOf(f0, d0)) \in Nat
    BY <2>6, <2>7, FS_CardinalityType
  <2> QED
    BY <2>1, <2>4, <2>7, <2>8 DEF Settlement, XInv
<1>2. IOSpec => []XInv
  BY XInvHolds
<1> QED
  BY <1>1, <1>2, PTL

(* A step that changes the volume is a transfer, within a call or as its   *)
(* last: it leaves what the call found, or the call is still at it.        *)
LEMMA Turns ==
  ASSUME OneCaller, AtEndOnly, XInv, [IONext]_ioVars, status' = "ok", ~torn'
  PROVE  \/ fat' = fat /\ disk' = disk
         \/ \E f0, d0 :
              /\ Sound(f0, d0) /\ \A c \in Callers : From(f0, d0, c)
              /\ (\A c \in Callers : FromNext(f0, d0, c)) \/ Leaves(f0, d0, fat', disk')
<1>1. CASE UNCHANGED ioVars
  BY <1>1 DEF ioVars
<1>2. CASE Crash
  BY <1>2 DEF Crash
<1>3. CASE \E c \in Callers : Begin(c) \/ Seek(c) \/ ReadSb(c)
  BY <1>3 DEF Begin, Seek, ReadSb
<1>4. CASE \E c \in Callers : Transfer(c)
  <2>1. PICK c : Callers = {c}
    BY DEF OneCaller
  <2>2. Transfer(c) /\ status = "ok" /\ ~torn
    BY <1>4, <2>1 DEF Transfer, Io
  <2>3. PICK f0, d0 : Settlement(f0, d0, crashes) /\ \A e \in Callers : From(f0, d0, e)
    BY <2>2 DEF XInv
  <2>4. PICK m : calls = [e \in Callers |-> m[e]]
    BY DEF XInv
  <2>5. c \in DOMAIN calls /\ From(f0, d0, c) /\ crashes \in Nat
    BY <2>1, <2>3, <2>4 DEF XInv
  <2>6. FromNext(f0, d0, c) \/ Leaves(f0, d0, fat', disk')
    BY <2>2, <2>3, <2>5, TransferFrom
  <2> QED
    BY <2>1, <2>3, <2>6 DEF Settlement
<1> QED
  BY <1>1, <1>2, <1>3, <1>4 DEF IONext, Step

(* What a call that is still at it has left the next time.                 *)
LEMMA NextLeaves ==
  ASSUME OneCaller, AtEndOnly, NEW f0, NEW d0, Sound(f0, d0),
         (\A c \in Callers : FromNext(f0, d0, c)) \/ Leaves(f0, d0, fat', disk')
  PROVE  KeepsEntries(d0, disk') /\ (~Growing' => KeepsFiles(f0, d0, fat', disk'))
<1>1. CASE Leaves(f0, d0, fat', disk')
  BY <1>1 DEF Leaves, KeepsFiles
<1>2. CASE \A c \in Callers : FromNext(f0, d0, c)
  <2>1. PICK c : Callers = {c}
    BY DEF OneCaller
  <2>2. PICK r, f, dk : r = calls'[c] /\ f = fat' /\ dk = disk'
    OBVIOUS
  <2>3. Under(f0, d0, f, dk, r)
    BY <1>2, <2>1, <2>2 DEF FromNext
  <2>4. SameEntries(d0, dk)
    BY <2>3, UnderLeaves
  <2>5. ~Growing' => Leaves(f0, d0, f, dk)
    <3>1. ASSUME ~Growing' PROVE ~GrowsNow(r)
      BY <2>1, <2>2, <3>1 DEF Growing, GrowsNow
    <3> QED
      BY <2>3, <3>1, UnderLeaves DEF Midway
  <2> QED
    BY <2>2, <2>4, <2>5, SameIsKept DEF Leaves
<1> QED
  BY <1>1, <1>2

(* No entry disappears, and a step or a crash leaves the content of every  *)
(* file whose entry it does not change.                                    *)
THEOREM CrashesKeepContent == OneCaller /\ AtEndOnly => (IOSpec => EntriesAndContentStay)
<1> SUFFICES ASSUME OneCaller, AtEndOnly PROVE IOSpec => EntriesAndContentStay
  OBVIOUS
<1> DEFINE E == status' = "ok" /\ ~torn' =>
                  \A a \in EntryAddrs :
                    disk'[a].attr = disk[a].attr /\ disk'[a].name = disk[a].name
           C == status' = "ok" /\ ~torn' /\ ~Growing /\ ~Growing' =>
                  \A a \in EntryAddrs :
                    disk'[a] = disk[a] /\ disk[a].attr = "file" =>
                      Content(fat, disk, disk[a])' = Content(fat, disk, disk[a])
<1>1. ASSUME XInv, [IONext]_ioVars, status' = "ok", ~torn', NEW a \in EntryAddrs
      PROVE  /\ disk'[a].attr = disk[a].attr /\ disk'[a].name = disk[a].name
             /\ ~Growing /\ ~Growing' /\ disk'[a] = disk[a] /\ disk[a].attr = "file" =>
                  Content(fat', disk', disk'[a]) = Content(fat, disk, disk[a])
  <2>1. CASE fat' = fat /\ disk' = disk
    BY <2>1
  <2>2. CASE \E f0, d0 :
              /\ Sound(f0, d0) /\ \A c \in Callers : From(f0, d0, c)
              /\ (\A c \in Callers : FromNext(f0, d0, c)) \/ Leaves(f0, d0, fat', disk')
    <3>1. PICK f0, d0 :
              /\ Sound(f0, d0) /\ \A c \in Callers : From(f0, d0, c)
              /\ (\A c \in Callers : FromNext(f0, d0, c)) \/ Leaves(f0, d0, fat', disk')
      BY <2>2
    <3>2. KeepsEntries(d0, disk') /\ (~Growing' => KeepsFiles(f0, d0, fat', disk'))
      BY <3>1, NextLeaves
    <3>3. SameEntries(d0, disk)
      <4>1. PICK c : Callers = {c}
        BY DEF OneCaller
      <4>2. PICK r : r = calls[c]
        OBVIOUS
      <4>3. Under(f0, d0, fat, disk, r)
        BY <3>1, <4>1, <4>2 DEF From
      <4> QED
        BY <3>1, <4>3, UnderLeaves
    <3>4. a \in EntriesOf(d0) /\ disk[a] = d0[a]
      BY <3>3 DEF SameEntries, EntryAddrs, EntriesOf
    <3>5. disk'[a].attr = d0[a].attr /\ disk'[a].name = d0[a].name
      BY <3>2, <3>4 DEF KeepsEntries, SameEntry
    <3>6. ASSUME ~Growing, ~Growing', disk'[a] = disk[a], disk[a].attr = "file"
          PROVE  Content(fat', disk', disk'[a]) = Content(fat, disk, disk[a])
      <4>1. KeepsFiles(f0, d0, fat, disk)
        BY <3>1, <3>6, NowLeaves DEF Leaves
      <4>2. Content(fat, disk, d0[a]) = Content(f0, d0, d0[a])
        BY <3>4, <3>6, <4>1 DEF KeepsFiles
      <4>3. Content(fat', disk', d0[a]) = Content(f0, d0, d0[a])
        BY <3>2, <3>4, <3>6 DEF KeepsFiles
      <4> QED
        BY <3>4, <3>6, <4>2, <4>3
    <3> QED
      BY <3>4, <3>5, <3>6
  <2> QED
    BY <1>1, <2>1, <2>2, Turns
<1>2. XInv /\ [IONext]_ioVars => [E]_ioVars
  BY <1>1
<1>3. XInv /\ [IONext]_ioVars => [C]_ioVars
  BY <1>1
<1>4. IOSpec => []XInv
  BY XInvHolds
<1> QED
  BY <1>2, <1>3, <1>4, PTL DEF IOSpec, EntriesAndContentStay, EntriesStay
=============================================================================
