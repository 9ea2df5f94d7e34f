----------------------------- MODULE VfsProofs ------------------------------
(***************************************************************************)
(* Theorems about Vfs, for every tree of names and every history of calls. *)
(*                                                                         *)
(* The volume and the cache are tied together by CacheAgrees, which is     *)
(* part of the inductive invariant VInv.  The argument goes over the       *)
(* routes: a route that is right ends in an entry that no other path leads *)
(* to (RouteOnce), an entry that is added changes no route that was right  *)
(* (RouteKept), and a dentry that is not local has only such dentries      *)
(* above it, so that its directory's route is right (DirRoute).            *)
(***************************************************************************)
EXTENDS Vfs, FiniteSetTheorems, SequenceTheorems, TLAPS

-----------------------------------------------------------------------------
(* Induction on numbers, with sets of numbers in place of predicates.      *)

(* A set of numbers that is not empty has a least element.                 *)
LEMMA LeastNumber ==
  ASSUME NEW T \in SUBSET Nat, T # {}
  PROVE  \E m \in T : \A k \in T : m <= k
<1> DEFINE R == OpToRel(<, Nat)
<1>1. \A x, y \in Nat : x < y => <<x, y>> \in R
  BY DEF OpToRel
<1>2. PICK x \in T : \A y \in T : ~(<<y, x>> \in R)
  BY NatLessThanWellFounded, WFMin, Zenon
<1> HIDE DEF R
<1>3. ASSUME NEW k \in T, ~ (x <= k) PROVE FALSE
  <2>1. k < x
    BY <1>3
  <2> QED
    BY <1>1, <1>2, <2>1
<1> QED
  BY <1>3

(* Induction: a set that holds 0, and the successor of each number in it,  *)
(* holds every number.                                                     *)
LEMMA Induction ==
  ASSUME NEW T, 0 \in T, \A n \in Nat : n \in T => n + 1 \in T
  PROVE  \A n \in Nat : n \in T
<1> SUFFICES ASSUME NEW n \in Nat, n \notin T PROVE FALSE
  OBVIOUS
<1>1. PICK m \in Nat \ T : \A k \in Nat \ T : m <= k
  BY LeastNumber
<1>2. m # 0 /\ m - 1 \in Nat /\ m - 1 \in T
  BY <1>1
<1> QED
  BY <1>1, <1>2

-----------------------------------------------------------------------------
(* Paths.  Up(q, k) is the path of the first k names of q.                 *)

Tree == Nodes \cup {<<>>}
Up(q, k) == SubSeq(q, 1, k)

(* A path, its last name and the path above it.                            *)
LEMMA NodeTyped ==
  ASSUME NEW q \in Nodes
  PROVE  /\ q \in Seq(Names) /\ Len(q) \in Nat /\ Len(q) >= 1 /\ q # <<>>
         /\ Last(q) \in Names /\ Last(q) = q[Len(q)]
         /\ Parent(q) \in Tree /\ Parent(q) = Up(q, Len(q) - 1)
         /\ Len(Parent(q)) = Len(q) - 1
         /\ \A k \in 1..(Len(q) - 1) : Parent(q)[k] = q[k]
<1>1. q \in Seq(Range(q)) /\ q # <<>> /\ (Len(q) = 1 \/ Front(q) \in Nodes)
  BY VfsAssumption
<1>2. Range(q) \subseteq Names
  BY DEF Names
<1>3. q \in Seq(Names)
  BY <1>1, <1>2, SeqMonotonic
<1>4. Len(q) \in Nat /\ Len(q) >= 1
  BY <1>1, <1>3, EmptySeq
<1>5. \A k \in 1..Len(q) : q[k] \in Names
  BY <1>3, ElementOfSeq
<1>6. Parent(q) = Up(q, Len(q) - 1)
  BY DEF Parent, Front, Up
<1>7. /\ Len(Parent(q)) = Len(q) - 1
      /\ \A k \in 1..(Len(q) - 1) : Parent(q)[k] = q[k]
  <2>0. Len(q) - 1 \in 0..Len(q)
    BY <1>4
  <2>1. PICK k \in 0..Len(q) : k = Len(q) - 1
    BY <2>0
  <2>2. Len(Up(q, k)) = k /\ \A j \in 1..k : Up(q, k)[j] = q[j]
    BY <1>3, <1>4 DEF Up
  <2> QED
    BY <2>1, <2>2, <1>6
<1>8. Parent(q) \in Tree
  <2>1. CASE Len(q) = 1
    <3>1. Parent(q) = <<>>
      BY <2>1, <1>3, <1>6 DEF Up
    <3> QED
      BY <3>1 DEF Tree
  <2>2. CASE Front(q) \in Nodes
    BY <2>2 DEF Parent, Tree
  <2> QED
    BY <1>1, <2>1, <2>2
<1> QED
  BY <1>1, <1>3, <1>4, <1>5, <1>6, <1>7, <1>8 DEF Last

(* A path and the paths above it.                                          *)
LEMMA UpTyped ==
  ASSUME NEW q \in Tree
  PROVE  /\ q \in Seq(Names) /\ Len(q) \in Nat /\ (q # <<>> => q \in Nodes /\ Len(q) >= 1)
         /\ Up(q, Len(q)) = q
         /\ \A k \in 0..Len(q) :
              /\ Up(q, k) \in Tree /\ Len(Up(q, k)) = k /\ (k > 0 => Up(q, k) \in Nodes)
              /\ \A j \in 1..k : Up(q, k)[j] = q[j]
              /\ \A j \in 0..k : Up(Up(q, k), j) = Up(q, j)
<1>1. q \in Seq(Names) /\ Len(q) \in Nat /\ (q # <<>> => q \in Nodes /\ Len(q) >= 1)
  BY NodeTyped, EmptySeq DEF Tree
<1>2. Up(q, Len(q)) = q
  BY <1>1, SubSeqFull DEF Up
<1>3. ASSUME NEW k \in 0..Len(q)
      PROVE  /\ Len(Up(q, k)) = k /\ Up(q, k) \in Seq(Names)
             /\ \A j \in 1..k : Up(q, k)[j] = q[j]
  BY <1>1 DEF Up
<1>4. ASSUME NEW k \in 0..Len(q), NEW j \in 0..k PROVE Up(Up(q, k), j) = Up(q, j)
  <2>1. j \in 0..Len(q) /\ j \in Nat /\ j \in 0..Len(Up(q, k))
    BY <1>1, <1>3
  <2>2. Up(Up(q, k), j) \in Seq(Names) /\ Len(Up(Up(q, k), j)) = j
        /\ \A i \in 1..j : Up(Up(q, k), j)[i] = q[i]
    <3> DEFINE p == Up(q, k)
    <3>1. p \in Seq(Names) /\ Len(p) = k /\ \A i \in 1..k : p[i] = q[i]
      BY <1>3
    <3> HIDE DEF p
    <3>2. Len(Up(p, j)) = j /\ Up(p, j) \in Seq(Names) /\ \A i \in 1..j : Up(p, j)[i] = p[i]
      BY <3>1, <2>1 DEF Up
    <3>3. \A i \in 1..j : i \in 1..k
      BY <1>1
    <3> QED
      BY <3>1, <3>2, <3>3 DEF p
  <2>3. Up(q, j) \in Seq(Names) /\ Len(Up(q, j)) = j /\ \A i \in 1..j : Up(q, j)[i] = q[i]
    BY <2>1, <1>3
  <2> QED
    BY <2>2, <2>3, SeqEqual
<1>5. \A k \in 0..Len(q) : Up(q, k) \in Tree
  <2> DEFINE T == {n \in Nat : n <= Len(q) => Up(q, Len(q) - n) \in Tree}
  <2>1. 0 \in T
    BY <1>1, <1>2
  <2>2. ASSUME NEW n \in Nat, n \in T PROVE n + 1 \in T
    <3> SUFFICES ASSUME n + 1 <= Len(q) PROVE Up(q, Len(q) - (n + 1)) \in Tree
      OBVIOUS
    <3> DEFINE k == Len(q) - n
               p == Up(q, k)
    <3>1. k \in 0..Len(q) /\ k >= 1 /\ p \in Tree /\ n <= Len(q) /\ k \in Nat
      BY <1>1, <2>2
    <3>2. Len(p) = k
      BY <3>1, <1>3
    <3>3. Up(p, k - 1) = Up(q, k - 1)
      BY <3>1, <1>4
    <3>4. k - 1 = Len(q) - (n + 1)
      BY <1>1
    <3> HIDE DEF p, k
    <3>5. p \in Nodes
      BY <3>1, <3>2, EmptySeq DEF Tree
    <3>6. Up(p, k - 1) \in Tree
      BY <3>2, <3>5, NodeTyped
    <3> QED
      BY <3>3, <3>4, <3>6
  <2>3. \A n \in Nat : n \in T
    <3> HIDE DEF T
    <3> QED
      BY <2>1, <2>2, Induction
  <2> TAKE k \in 0..Len(q)
  <2>4. Len(q) - k \in Nat /\ Len(q) - k <= Len(q) /\ Len(q) - (Len(q) - k) = k
    BY <1>1
  <2>5. Up(q, Len(q) - (Len(q) - k)) \in Tree
    BY <2>3, <2>4
  <2> QED
    BY <2>4, <2>5
<1>6. \A k \in 0..Len(q) : k > 0 => Up(q, k) \in Nodes
  <2> TAKE k \in 0..Len(q)
  <2>1. k > 0 => Len(Up(q, k)) # 0
    BY <1>3
  <2> QED
    BY <2>1, <1>5, EmptySeq DEF Tree
<1> QED
  BY <1>1, <1>2, <1>3, <1>4, <1>5, <1>6

(* One path is above another when it is what the other begins with.        *)
LEMMA StrictUp ==
  ASSUME NEW p \in Tree, NEW q \in Tree
  PROVE  IsStrictPrefix(p, q) <=> Len(p) < Len(q) /\ Up(q, Len(p)) = p
<1>1. Len(p) \in Nat /\ Len(q) \in Nat /\ Up(p, Len(p)) = p /\ Up(q, Len(q)) = q
  BY UpTyped
<1>2. IsStrictPrefix(p, q) <=> Len(p) <= Len(q) /\ p = Up(q, Len(p)) /\ p # q
  BY <1>1 DEF IsStrictPrefix, IsPrefix, Up
<1>3. Len(p) < Len(q) => p # q
  BY <1>1
<1>4. p = Up(q, Len(p)) /\ Len(p) = Len(q) => p = q
  BY <1>1
<1> QED
  BY <1>1, <1>2, <1>3, <1>4

-----------------------------------------------------------------------------
(* The volume.                                                             *)

EntryType == [dir : Nat, name : Names, kind : Kinds, size : Nat, len : Nat]

(* A directory's entry was made before those of what is in it.             *)
Sound(v) ==
  v \in Seq(EntryType) /\ Len(v) <= MaxEntries /\ \A i \in DOMAIN v : v[i].dir < i

(* A volume and a later one.                                               *)
Extends(v, w) ==
  Len(v) <= Len(w) /\ \A i \in DOMAIN v : /\ w[i].dir = v[i].dir /\ w[i].name = v[i].name
                                          /\ w[i].kind = v[i].kind

Match(v, d, n, kinds) ==
  {i \in DOMAIN v : v[i].dir = d /\ v[i].name = n /\ v[i].kind \in kinds}

(* The bounds are numbers.                                                 *)
LEMMA BoundsTyped == MaxEntries \in Nat /\ MaxLen \in Nat /\ Room \in Nat /\ Wrong \in Nat
BY VfsAssumption DEF Wrong

(* What is in the entries.                                                 *)
LEMMA VolumeTyped ==
  ASSUME NEW v, Sound(v)
  PROVE  /\ Len(v) \in Nat /\ DOMAIN v = 1..Len(v) /\ Len(v) < Wrong
         /\ \A i \in DOMAIN v : /\ i \in Nat /\ i # Wrong /\ i # Root
                                /\ v[i] \in EntryType /\ v[i].dir \in Nat /\ v[i].dir < i
                                /\ v[i].dir # Wrong /\ v[i].name \in Names
                                /\ v[i].kind \in Kinds /\ v[i].size \in Nat /\ v[i].len \in Nat
<1>1. v \in Seq(EntryType) /\ Len(v) <= MaxEntries /\ \A i \in DOMAIN v : v[i].dir < i
  BY DEF Sound
<1>2. Len(v) \in Nat /\ DOMAIN v = 1..Len(v) /\ \A i \in DOMAIN v : v[i] \in EntryType
  BY <1>1, LenProperties, ElementOfSeq
<1>3. Len(v) < Wrong
  BY <1>1, <1>2, BoundsTyped DEF Wrong
<1> SUFFICES ASSUME NEW i \in DOMAIN v
             PROVE  /\ i \in Nat /\ i # Wrong /\ i # Root
                    /\ v[i] \in EntryType /\ v[i].dir \in Nat /\ v[i].dir < i
                    /\ v[i].dir # Wrong /\ v[i].name \in Names
                    /\ v[i].kind \in Kinds /\ v[i].size \in Nat /\ v[i].len \in Nat
  BY <1>2, <1>3
<1>4. i \in Nat /\ i >= 1 /\ i <= Len(v)
  BY <1>2
<1>5. /\ v[i] \in EntryType /\ v[i].dir \in Nat /\ v[i].name \in Names
      /\ v[i].kind \in Kinds /\ v[i].size \in Nat /\ v[i].len \in Nat
  BY <1>2 DEF EntryType
<1>6. v[i].dir < i
  BY <1>1
<1> QED
  BY <1>2, <1>3, <1>4, <1>5, <1>6, BoundsTyped DEF Root

(* A search gives the first match.                                         *)
LEMMA SearchTyped ==
  ASSUME NEW v, Sound(v), NEW d, NEW n, NEW kinds
  PROVE  /\ Search(v, d, n, kinds) \subseteq Match(v, d, n, kinds)
         /\ \A i \in Search(v, d, n, kinds) : \A j \in Match(v, d, n, kinds) : i <= j
         /\ Match(v, d, n, kinds) # {} => \E i \in Match(v, d, n, kinds) : Search(v, d, n, kinds) = {i}
<1> DEFINE S == Match(v, d, n, kinds)
<1>1. Search(v, d, n, kinds) = {i \in S : \A j \in S : i <= j}
  BY DEF Search, Match
<1>2. S \subseteq Nat
  BY VolumeTyped DEF Match
<1>3. ASSUME S # {} PROVE \E i \in S : {k \in S : \A j \in S : k <= j} = {i}
  <2> HIDE DEF S
  <2>1. PICK i \in S : \A j \in S : i <= j
    BY <1>2, <1>3, LeastNumber
  <2>2. \A k \in S : (\A j \in S : k <= j) => k = i
    BY <1>2, <2>1
  <2> QED
    BY <2>1, <2>2
<1> HIDE DEF S
<1>4. S # {} => \E i \in S : Search(v, d, n, kinds) = {i}
  BY <1>1, <1>3
<1>5. Search(v, d, n, kinds) \subseteq S /\ \A i \in Search(v, d, n, kinds) : \A j \in S : i <= j
  BY <1>1
<1> QED
  BY <1>4, <1>5 DEF S

(* What a search found it finds later, too.                                *)
LEMMA SearchKept ==
  ASSUME NEW v, Sound(v), NEW w, Sound(w), Extends(v, w), NEW d, NEW n, NEW kinds,
         Search(v, d, n, kinds) # {}
  PROVE  Search(w, d, n, kinds) = Search(v, d, n, kinds)
<1> DEFINE S == Match(v, d, n, kinds)
           U == Match(w, d, n, kinds)
<1>1. DOMAIN v = 1..Len(v) /\ DOMAIN w = 1..Len(w) /\ Len(v) \in Nat /\ Len(w) \in Nat
  BY VolumeTyped
<1>2. DOMAIN v \subseteq DOMAIN w
  BY <1>1 DEF Extends
<1>3. S \subseteq U /\ U \cap DOMAIN v \subseteq S
  BY <1>2 DEF Match, Extends
<1>4. S \subseteq DOMAIN v /\ U \subseteq DOMAIN w
  BY DEF Match
<1>5. Search(v, d, n, kinds) \subseteq S
  BY SearchTyped
<1> HIDE DEF S, U
<1>6. S # {} /\ U # {}
  BY <1>3, <1>5
<1>7. PICK i \in S : Search(v, d, n, kinds) = {i} /\ \A j \in S : i <= j
  <2>1. \E i \in S : Search(v, d, n, kinds) = {i}
    BY <1>6, SearchTyped DEF S
  <2>2. \A i \in Search(v, d, n, kinds) : \A j \in S : i <= j
    BY SearchTyped DEF S
  <2> QED
    BY <2>1, <2>2
<1>8. PICK k \in U : Search(w, d, n, kinds) = {k} /\ \A j \in U : k <= j
  <2>1. \E k \in U : Search(w, d, n, kinds) = {k}
    BY <1>6, SearchTyped DEF U
  <2>2. \A k \in Search(w, d, n, kinds) : \A j \in U : k <= j
    BY SearchTyped DEF U
  <2> QED
    BY <2>1, <2>2
<1>9. i \in U /\ k <= i /\ i \in DOMAIN v /\ k \in DOMAIN w
  BY <1>3, <1>4, <1>7, <1>8
<1>10. k \in S
  BY <1>1, <1>3, <1>8, <1>9
<1>11. i <= k
  BY <1>7, <1>10
<1>12. i = k
  BY <1>1, <1>9, <1>11
<1> QED
  BY <1>7, <1>8, <1>12

(* Nor does a search change with the sizes.                                *)
LEMMA SearchSame ==
  ASSUME NEW v, Sound(v), NEW w, Sound(w), Extends(v, w), Extends(w, v), NEW d, NEW n, NEW kinds
  PROVE  Search(w, d, n, kinds) = Search(v, d, n, kinds)
BY SearchKept

(* Induction over the tree.                                                *)
LEMMA TreeInduction ==
  ASSUME NEW T, <<>> \in T, \A q \in Nodes : Parent(q) \in T => q \in T
  PROVE  \A p \in Tree : p \in T
<1> DEFINE N == {n \in Nat : \A p \in Tree : Len(p) = n => p \in T}
<1>1. 0 \in N
  BY UpTyped
<1>2. ASSUME NEW n \in Nat, n \in N PROVE n + 1 \in N
  <2> SUFFICES ASSUME NEW p \in Tree, Len(p) = n + 1 PROVE p \in T
    OBVIOUS
  <2>1. p \in Nodes
    <3>1. Len(<<>>) = 0
      OBVIOUS
    <3> QED
      BY <3>1 DEF Tree
  <2>2. Parent(p) \in Tree /\ Len(Parent(p)) = n
    BY <2>1, NodeTyped
  <2> QED
    BY <2>1, <2>2, <1>2
<1> HIDE DEF N
<1>3. \A n \in Nat : n \in N
  BY <1>1, <1>2, Induction
<1> QED
  BY <1>3, UpTyped DEF N

-----------------------------------------------------------------------------
(* Routes.                                                                 *)

StepTo(v, d, n) ==
  LET S == Search(v, d, n, {"dir"}) IN IF S = {} THEN Wrong ELSE CHOOSE i \in S : TRUE
Steps(v, p) ==
  CHOOSE c : c = [k \in 0..Len(p) |-> IF k = 0 THEN Root ELSE StepTo(v, c[k - 1], p[k])]

(* There is a function that satisfies the equation that defines Steps.     *)
LEMMA StepsDef ==
  ASSUME NEW v, NEW p, Len(p) \in Nat
  PROVE  Steps(v, p) = [k \in 0..Len(p) |-> IF k = 0 THEN Root
                                            ELSE StepTo(v, Steps(v, p)[k - 1], p[k])]
<1> DEFINE Good(n) == \E g : g = [k \in 0..n |-> IF k = 0 THEN Root ELSE StepTo(v, g[k - 1], p[k])]
           T == {n \in Nat : Good(n)}
<1>1. 0 \in T
  <2> DEFINE g == [k \in 0..0 |-> Root]
  <2>1. g = [k \in 0..0 |-> IF k = 0 THEN Root ELSE StepTo(v, g[k - 1], p[k])]
    OBVIOUS
  <2> QED
    BY <2>1
<1>2. ASSUME NEW n \in Nat, n \in T PROVE n + 1 \in T
  <2>1. PICK g : g = [k \in 0..n |-> IF k = 0 THEN Root ELSE StepTo(v, g[k - 1], p[k])]
    BY <1>2
  <2> DEFINE e == [k \in 0..(n + 1) |-> IF k <= n THEN g[k] ELSE StepTo(v, g[n], p[k])]
  <2>2. ASSUME NEW k \in 0..(n + 1)
        PROVE  e[k] = IF k = 0 THEN Root ELSE StepTo(v, e[k - 1], p[k])
    <3>1. CASE k = 0
      BY <3>1, <2>1
    <3>2. CASE k # 0 /\ k <= n
      <4>1. k \in 0..n /\ k - 1 \in 0..(n + 1) /\ k - 1 <= n
        BY <3>2
      <4>2. g[k] = StepTo(v, g[k - 1], p[k])
        BY <2>1, <3>2, <4>1
      <4> QED
        BY <3>2, <4>1, <4>2
    <3>3. CASE k = n + 1
      <4>1. k - 1 \in 0..(n + 1) /\ k - 1 = n /\ k # 0 /\ ~ (k <= n)
        BY <3>3
      <4> QED
        BY <4>1
    <3> QED
      BY <3>1, <3>2, <3>3
  <2>3. e = [k \in 0..(n + 1) |-> IF k = 0 THEN Root ELSE StepTo(v, e[k - 1], p[k])]
    BY <2>2
  <2>4. Good(n + 1)
    BY <2>3
  <2> QED
    BY <2>4
<1>3. Good(Len(p))
  <2> HIDE DEF Good
  <2>1. Len(p) \in T
    BY <1>1, <1>2, Induction
  <2> QED
    BY <2>1
<1> QED
  BY <1>3 DEF Steps

(* get_cluster_number is where the steps end.                              *)
LEMMA PathIsSteps ==
  ASSUME NEW v, NEW p
  PROVE  get_cluster_number(v, p) = Steps(v, p)[Len(p)]
BY DEF get_cluster_number, Steps, StepTo

(* Path resolution, one name at a time.                                    *)
LEMMA RouteStep ==
  ASSUME NEW v
  PROVE  /\ get_cluster_number(v, <<>>) = Root
         /\ \A q \in Nodes :
              get_cluster_number(v, q) = StepTo(v, get_cluster_number(v, Parent(q)), Last(q))
<1>1. get_cluster_number(v, <<>>) = Root
  <2> SUFFICES ASSUME NEW p, Len(p) = 0 PROVE get_cluster_number(v, p) = Root
    <3>1. Len(<<>>) = 0
      OBVIOUS
    <3> QED
      BY <3>1
  <2>1. Len(p) = 0 /\ Len(p) \in Nat
    OBVIOUS
  <2>2. Steps(v, p) = [k \in 0..Len(p) |-> IF k = 0 THEN Root
                                           ELSE StepTo(v, Steps(v, p)[k - 1], p[k])]
    BY <2>1, StepsDef
  <2>3. get_cluster_number(v, p) = Steps(v, p)[Len(p)]
    BY PathIsSteps
  <2> DEFINE s == Steps(v, p)
  <2> HIDE DEF s
  <2>4. s = [k \in 0..Len(p) |-> IF k = 0 THEN Root ELSE StepTo(v, s[k - 1], p[k])]
    BY <2>2 DEF s
  <2>5. s[0] = Root
    BY <2>1, <2>4
  <2> QED
    BY <2>1, <2>3, <2>5 DEF s
<1>2. ASSUME NEW q \in Nodes
      PROVE  get_cluster_number(v, q) = StepTo(v, get_cluster_number(v, Parent(q)), Last(q))
  <2> DEFINE p == Parent(q)
             n == Len(q)
             r == Steps(v, q)
             s == Steps(v, p)
             T == {j \in Nat : j <= n - 1 => s[j] = r[j]}
  <2>1. n \in Nat /\ n >= 1 /\ Len(p) = n - 1 /\ Len(p) \in Nat
        /\ \A j \in 1..(n - 1) : p[j] = q[j]
    BY NodeTyped
  <2>2. Last(q) = q[n]
    BY NodeTyped
  <2>3. r = [k \in 0..Len(q) |-> IF k = 0 THEN Root ELSE StepTo(v, r[k - 1], q[k])]
    BY <2>1, StepsDef
  <2>4. s = [k \in 0..Len(p) |-> IF k = 0 THEN Root ELSE StepTo(v, s[k - 1], p[k])]
    BY <2>1, StepsDef
  <2>5. get_cluster_number(v, q) = r[n] /\ get_cluster_number(v, p) = s[n - 1]
    BY <2>1, PathIsSteps
  <2>6. Len(q) = n
    OBVIOUS
  <2> HIDE DEF p, r, s, n
  <2>7. 0 \in T
    BY <2>1, <2>3, <2>4, <2>6
  <2>8. ASSUME NEW j \in Nat, j \in T PROVE j + 1 \in T
    <3> SUFFICES ASSUME j + 1 <= n - 1 PROVE s[j + 1] = r[j + 1]
      OBVIOUS
    <3>1. s[j] = r[j] /\ j + 1 \in 0..n /\ j + 1 \in 0..Len(p) /\ j + 1 # 0
          /\ (j + 1) - 1 = j /\ j + 1 \in 1..(n - 1)
      BY <2>1, <2>8
    <3>2. s[j + 1] = StepTo(v, s[j], p[j + 1])
      BY <3>1, <2>4
    <3>3. r[j + 1] = StepTo(v, r[j], q[j + 1])
      BY <3>1, <2>3, <2>6
    <3> QED
      BY <3>1, <3>2, <3>3, <2>1
  <2>9. \A j \in Nat : j \in T
    <3> HIDE DEF T
    <3> QED
      BY <2>7, <2>8, Induction
  <2>10. s[n - 1] = r[n - 1]
    <3>1. n - 1 \in Nat /\ n - 1 <= n - 1
      BY <2>1
    <3> QED
      BY <2>9, <3>1
  <2>11. r[n] = StepTo(v, r[n - 1], q[n])
    <3>1. n \in 0..n /\ n # 0
      BY <2>1
    <3> QED
      BY <3>1, <2>3, <2>6
  <2> QED
    BY <2>2, <2>5, <2>10, <2>11 DEF p
<1> QED
  BY <1>1, <1>2

(* A route that is right ends in the first entry of its last name in the   *)
(* directory that the route to the path above ends in.                     *)
LEMMA RouteFound ==
  ASSUME NEW v, Sound(v), NEW q \in Nodes
  PROVE  LET c == get_cluster_number(v, q)
             d == get_cluster_number(v, Parent(q))
         IN  \/ c = Wrong /\ Search(v, d, Last(q), {"dir"}) = {}
             \/ /\ c \in DOMAIN v /\ Search(v, d, Last(q), {"dir"}) = {c}
                /\ v[c].dir = d /\ v[c].name = Last(q) /\ v[c].kind = "dir"
                /\ c # Wrong /\ d # Wrong /\ c # Root
<1> DEFINE S == Search(v, get_cluster_number(v, Parent(q)), Last(q), {"dir"})
           M == Match(v, get_cluster_number(v, Parent(q)), Last(q), {"dir"})
<1>1. get_cluster_number(v, q) = IF S = {} THEN Wrong ELSE CHOOSE i \in S : TRUE
  BY RouteStep DEF StepTo
<1>2. S \subseteq M /\ (M # {} => \E i \in M : S = {i})
  BY SearchTyped
<1>3. ASSUME NEW i \in M
      PROVE  /\ i \in DOMAIN v /\ v[i].dir = get_cluster_number(v, Parent(q))
             /\ v[i].name = Last(q) /\ v[i].kind = "dir" /\ i # Wrong /\ i # Root /\ v[i].dir # Wrong
  BY VolumeTyped DEF Match
<1>4. CASE S = {}
  BY <1>1, <1>4
<1>5. CASE S # {}
  <2> HIDE DEF S, M
  <2>1. PICK i \in M : S = {i}
    BY <1>2, <1>5
  <2>2. get_cluster_number(v, q) = i
    BY <1>1, <2>1
  <2> QED
    BY <2>1, <2>2, <1>3 DEF S
<1> QED
  BY <1>4, <1>5

(* After a wrong turn there is no right one.                               *)
LEMMA WrongStays ==
  ASSUME NEW v, Sound(v), NEW q \in Nodes, get_cluster_number(v, q) # Wrong
  PROVE  get_cluster_number(v, Parent(q)) # Wrong
BY RouteFound

(* A node is its last name in the path above it.                           *)
LEMMA NodeEqual ==
  ASSUME NEW p \in Nodes, NEW q \in Nodes, Parent(p) = Parent(q), Last(p) = Last(q)
  PROVE  p = q
<1>1. /\ p \in Seq(Names) /\ Len(p) \in Nat /\ Last(p) = p[Len(p)] /\ Len(Parent(p)) = Len(p) - 1
      /\ \A k \in 1..(Len(p) - 1) : Parent(p)[k] = p[k]
  BY NodeTyped
<1>2. /\ q \in Seq(Names) /\ Len(q) \in Nat /\ Last(q) = q[Len(q)] /\ Len(Parent(q)) = Len(q) - 1
      /\ \A k \in 1..(Len(q) - 1) : Parent(q)[k] = q[k]
  BY NodeTyped
<1>3. Len(p) = Len(q)
  BY <1>1, <1>2
<1>4. ASSUME NEW k \in 1..Len(p) PROVE p[k] = q[k]
  <2>1. CASE k = Len(p)
    BY <2>1, <1>1, <1>2, <1>3
  <2>2. CASE k # Len(p)
    <3>1. k \in 1..(Len(p) - 1) /\ k \in 1..(Len(q) - 1)
      BY <2>2, <1>1, <1>3
    <3> QED
      BY <3>1, <1>1, <1>2
  <2> QED
    BY <2>1, <2>2
<1> QED
  BY <1>1, <1>2, <1>3, <1>4, SeqEqual

(* No two paths lead to one place.                                         *)
LEMMA RouteOnce ==
  ASSUME NEW v, Sound(v)
  PROVE  \A p, q \in Tree :
           get_cluster_number(v, p) = get_cluster_number(v, q) /\ get_cluster_number(v, p) # Wrong
             => p = q
<1> DEFINE G(p) == get_cluster_number(v, p)
           T == {p \in Tree : \A q \in Tree : G(p) = G(q) /\ G(p) # Wrong => p = q}
<1>1. G(<<>>) = Root /\ <<>> \in Tree /\ \A q \in Tree : q # <<>> => q \in Nodes
  BY RouteStep DEF Tree
<1>2. \A q \in Nodes : G(q) # Wrong => G(q) # Root
  BY RouteFound
<1>3. <<>> \in T
  <2> HIDE DEF G
  <2> QED
    BY <1>1, <1>2
<1>4. ASSUME NEW p \in Nodes, Parent(p) \in T PROVE p \in T
  <2> SUFFICES ASSUME NEW q \in Tree, G(p) = G(q), G(p) # Wrong PROVE p = q
    BY DEF Tree
  <2>1. q \in Nodes
    <3> HIDE DEF G
    <3> QED
      BY <1>1, <1>2
  <2>2. LET c == G(p) IN
        v[c].dir = G(Parent(p)) /\ v[c].name = Last(p) /\ G(Parent(p)) # Wrong
    BY RouteFound
  <2>3. LET c == G(q) IN v[c].dir = G(Parent(q)) /\ v[c].name = Last(q)
    BY <2>1, RouteFound
  <2>4. Parent(q) \in Tree /\ Parent(p) \in Tree
    BY <2>1, NodeTyped
  <2> HIDE DEF G
  <2>5. G(Parent(p)) = G(Parent(q)) /\ Last(p) = Last(q)
    BY <2>2, <2>3
  <2>6. Parent(p) = Parent(q)
    BY <2>2, <2>4, <2>5, <1>4
  <2> QED
    BY <2>1, <2>5, <2>6, NodeEqual
<1>5. \A p \in Tree : p \in T
  <2> HIDE DEF T
  <2> QED
    BY <1>3, <1>4, TreeInduction
<1> QED
  BY <1>5

(* A route that is right stays as it is.                                   *)
LEMMA RouteKept ==
  ASSUME NEW v, Sound(v), NEW w, Sound(w), Extends(v, w)
  PROVE  \A p \in Tree :
           get_cluster_number(v, p) # Wrong => get_cluster_number(w, p) = get_cluster_number(v, p)
<1> DEFINE T == {p \in Tree : get_cluster_number(v, p) # Wrong
                                => get_cluster_number(w, p) = get_cluster_number(v, p)}
<1>1. <<>> \in T
  BY RouteStep DEF Tree
<1>2. ASSUME NEW q \in Nodes, Parent(q) \in T PROVE q \in T
  <2> SUFFICES ASSUME get_cluster_number(v, q) # Wrong
               PROVE  get_cluster_number(w, q) = get_cluster_number(v, q)
    BY DEF Tree
  <2>1. get_cluster_number(w, Parent(q)) = get_cluster_number(v, Parent(q))
    BY <1>2, WrongStays
  <2>2. Search(v, get_cluster_number(v, Parent(q)), Last(q), {"dir"}) # {}
    BY RouteFound
  <2>3. Search(w, get_cluster_number(v, Parent(q)), Last(q), {"dir"})
          = Search(v, get_cluster_number(v, Parent(q)), Last(q), {"dir"})
    BY <2>2, SearchKept
  <2>4. get_cluster_number(v, q) = StepTo(v, get_cluster_number(v, Parent(q)), Last(q))
    BY RouteStep
  <2>5. get_cluster_number(w, q) = StepTo(w, get_cluster_number(w, Parent(q)), Last(q))
    BY RouteStep
  <2> QED
    BY <2>1, <2>3, <2>4, <2>5 DEF StepTo
<1>3. \A p \in Tree : p \in T
  <2> HIDE DEF T
  <2> QED
    BY <1>1, <1>2, TreeInduction
<1> QED
  BY <1>3

(* No route changes with the sizes.                                        *)
LEMMA RouteSame ==
  ASSUME NEW v, Sound(v), NEW w, Sound(w), Extends(v, w), Extends(w, v), NEW p \in Tree
  PROVE  get_cluster_number(w, p) = get_cluster_number(v, p)
<1>1. get_cluster_number(v, p) # Wrong => get_cluster_number(w, p) = get_cluster_number(v, p)
  BY RouteKept
<1>2. get_cluster_number(w, p) # Wrong => get_cluster_number(v, p) = get_cluster_number(w, p)
  BY RouteKept
<1> QED
  BY <1>1, <1>2

-----------------------------------------------------------------------------
(* The names in a directory.                                               *)

NamesIn(v, d) ==
  CHOOSE c : c = [n \in 0..Len(v) |-> IF n = 0 THEN <<>>
                                      ELSE IF v[n].dir = d THEN Append(c[n - 1], v[n].name)
                                           ELSE c[n - 1]]

(* One sequence is what another begins with.                               *)
Begins(s, t) == Len(s) <= Len(t) /\ \A i \in 1..Len(s) : t[i] = s[i]

(* There is a function that satisfies the equation that defines NamesIn.   *)
LEMMA NamesInDef ==
  ASSUME NEW v, NEW d, Len(v) \in Nat
  PROVE  NamesIn(v, d) = [n \in 0..Len(v) |->
                            IF n = 0 THEN <<>>
                            ELSE IF v[n].dir = d THEN Append(NamesIn(v, d)[n - 1], v[n].name)
                                 ELSE NamesIn(v, d)[n - 1]]
<1> DEFINE More(s, n) == IF v[n].dir = d THEN Append(s, v[n].name) ELSE s
           Good(m) == \E g : g = [n \in 0..m |-> IF n = 0 THEN <<>>
                                                 ELSE IF v[n].dir = d THEN Append(g[n - 1], v[n].name)
                                                      ELSE g[n - 1]]
           T == {m \in Nat : Good(m)}
<1>1. 0 \in T
  <2> DEFINE g == [n \in 0..0 |-> <<>>]
  <2>1. g = [n \in 0..0 |-> IF n = 0 THEN <<>>
                            ELSE IF v[n].dir = d THEN Append(g[n - 1], v[n].name) ELSE g[n - 1]]
    OBVIOUS
  <2> QED
    BY <2>1
<1>2. ASSUME NEW m \in Nat, m \in T PROVE m + 1 \in T
  <2>1. PICK g : g = [n \in 0..m |-> IF n = 0 THEN <<>> ELSE More(g[n - 1], n)]
    BY <1>2
  <2> DEFINE e == [n \in 0..(m + 1) |-> IF n <= m THEN g[n] ELSE More(g[m], n)]
  <2>2. ASSUME NEW n \in 0..(m + 1)
        PROVE  e[n] = IF n = 0 THEN <<>> ELSE More(e[n - 1], n)
    <3> HIDE DEF More
    <3>1. CASE n = 0
      BY <3>1, <2>1
    <3>2. CASE n # 0 /\ n <= m
      <4>1. n \in 0..m /\ n - 1 \in 0..(m + 1) /\ n - 1 <= m
        BY <3>2
      <4>2. g[n] = More(g[n - 1], n)
        BY <2>1, <3>2, <4>1
      <4> QED
        BY <3>2, <4>1, <4>2
    <3>3. CASE n = m + 1
      <4>1. n - 1 \in 0..(m + 1) /\ n - 1 = m /\ n # 0 /\ ~ (n <= m)
        BY <3>3
      <4> QED
        BY <4>1
    <3> QED
      BY <3>1, <3>2, <3>3
  <2>3. e = [n \in 0..(m + 1) |-> IF n = 0 THEN <<>> ELSE More(e[n - 1], n)]
    <3> HIDE DEF More
    <3> QED
      BY <2>2
  <2>4. Good(m + 1)
    BY <2>3
  <2> QED
    BY <2>4
<1>3. Good(Len(v))
  <2> HIDE DEF Good
  <2>1. Len(v) \in T
    BY <1>1, <1>2, Induction
  <2> QED
    BY <2>1
<1> QED
  BY <1>3 DEF NamesIn

(* Listed is the last of them.                                             *)
LEMMA ListedIs ==
  ASSUME NEW v, NEW p
  PROVE  Listed(v, p) = NamesIn(v, get_cluster_number(v, p))[Len(v)]
BY DEF Listed, NamesIn

(* The lists, one entry at a time.                                         *)
LEMMA NamesStep ==
  ASSUME NEW v, Sound(v), NEW d
  PROVE  /\ NamesIn(v, d)[0] = <<>>
         /\ \A n \in DOMAIN v :
              NamesIn(v, d)[n] = IF v[n].dir = d THEN Append(NamesIn(v, d)[n - 1], v[n].name)
                                 ELSE NamesIn(v, d)[n - 1]
<1> DEFINE c == NamesIn(v, d)
<1>1. Len(v) \in Nat /\ DOMAIN v = 1..Len(v)
  BY VolumeTyped
<1>2. c = [n \in 0..Len(v) |->
             IF n = 0 THEN <<>>
             ELSE IF v[n].dir = d THEN Append(c[n - 1], v[n].name) ELSE c[n - 1]]
  BY <1>1, NamesInDef
<1> HIDE DEF c
<1>3. 0 \in 0..Len(v) /\ \A n \in DOMAIN v : n \in 0..Len(v) /\ n # 0
  BY <1>1
<1>4. c[0] = <<>>
  BY <1>2, <1>3
<1>5. \A n \in DOMAIN v : c[n] = IF v[n].dir = d THEN Append(c[n - 1], v[n].name) ELSE c[n - 1]
  BY <1>2, <1>3
<1> QED
  BY <1>4, <1>5 DEF c

(* The names listed are names.                                             *)
LEMMA NamesTyped ==
  ASSUME NEW v, Sound(v), NEW d
  PROVE  \A n \in 0..Len(v) : NamesIn(v, d)[n] \in Seq(Names)
<1> DEFINE c == NamesIn(v, d)
           T == {n \in Nat : n <= Len(v) => c[n] \in Seq(Names)}
<1>1. /\ c[0] = <<>>
      /\ \A n \in DOMAIN v : c[n] = IF v[n].dir = d THEN Append(c[n - 1], v[n].name) ELSE c[n - 1]
  BY NamesStep
<1>2. Len(v) \in Nat /\ DOMAIN v = 1..Len(v) /\ \A n \in DOMAIN v : v[n].name \in Names
  BY VolumeTyped
<1> HIDE DEF c
<1>3. 0 \in T
  BY <1>1, EmptySeq
<1>4. ASSUME NEW n \in Nat, n \in T PROVE n + 1 \in T
  <2> SUFFICES ASSUME n + 1 <= Len(v) PROVE c[n + 1] \in Seq(Names)
    OBVIOUS
  <2>1. n + 1 \in DOMAIN v /\ (n + 1) - 1 = n /\ n <= Len(v)
    BY <1>2
  <2>2. c[n] \in Seq(Names) /\ v[n + 1].name \in Names
    BY <1>2, <1>4, <2>1
  <2>3. c[n + 1] = IF v[n + 1].dir = d THEN Append(c[n], v[n + 1].name) ELSE c[n]
    BY <1>1, <2>1
  <2> QED
    BY <2>2, <2>3
<1>5. \A n \in Nat : n \in T
  <2> HIDE DEF T
  <2> QED
    BY <1>3, <1>4, Induction
<1>6. \A n \in 0..Len(v) : n \in Nat /\ n <= Len(v)
  BY <1>2
<1> QED
  BY <1>5, <1>6 DEF c

(* What a directory lists it goes on to list, first.                       *)
LEMMA NamesKept ==
  ASSUME NEW v, Sound(v), NEW w, Sound(w), Extends(v, w), NEW d
  PROVE  Begins(NamesIn(v, d)[Len(v)], NamesIn(w, d)[Len(w)])
<1> DEFINE b == NamesIn(v, d)
           c == NamesIn(w, d)
           m == Len(v)
           T == {n \in Nat : n <= m => c[n] = b[n]}
           U == {n \in Nat : m + n <= Len(w) => Begins(c[m], c[m + n])}
<1>1. m \in Nat /\ DOMAIN v = 1..m /\ Len(w) \in Nat /\ DOMAIN w = 1..Len(w) /\ m <= Len(w)
  BY VolumeTyped DEF Extends
<1>2. /\ b[0] = <<>>
      /\ \A n \in DOMAIN v : b[n] = IF v[n].dir = d THEN Append(b[n - 1], v[n].name) ELSE b[n - 1]
  BY NamesStep
<1>3. /\ c[0] = <<>>
      /\ \A n \in DOMAIN w : c[n] = IF w[n].dir = d THEN Append(c[n - 1], w[n].name) ELSE c[n - 1]
  BY NamesStep
<1>4. \A n \in 0..Len(w) : c[n] \in Seq(Names)
  BY NamesTyped
<1>5. \A n \in DOMAIN w : w[n].name \in Names
  BY VolumeTyped
<1>6. \A n \in DOMAIN v : w[n].dir = v[n].dir /\ w[n].name = v[n].name
  BY DEF Extends
<1> HIDE DEF b, c, m
<1>7. 0 \in T
  BY <1>2, <1>3
<1>8. ASSUME NEW n \in Nat, n \in T PROVE n + 1 \in T
  <2> SUFFICES ASSUME n + 1 <= m PROVE c[n + 1] = b[n + 1]
    OBVIOUS
  <2>1. n + 1 \in DOMAIN v /\ n + 1 \in DOMAIN w /\ (n + 1) - 1 = n /\ c[n] = b[n]
    BY <1>1, <1>8
  <2> QED
    BY <2>1, <1>2, <1>3, <1>6
<1>9. \A n \in Nat : n \in T
  <2> HIDE DEF T
  <2> QED
    BY <1>7, <1>8, Induction
<1>10. c[m] = b[m]
  BY <1>1, <1>9
<1>11. 0 \in U
  <2>1. m + 0 = m
    BY <1>1
  <2>2. Begins(c[m], c[m])
    <3>1. Len(c[m]) \in Nat
      BY <1>1, <1>4, LenProperties
    <3> QED
      BY <3>1 DEF Begins
  <2> QED
    BY <2>1, <2>2
<1>12. ASSUME NEW n \in Nat, n \in U PROVE n + 1 \in U
  <2> SUFFICES ASSUME m + (n + 1) <= Len(w) PROVE Begins(c[m], c[m + (n + 1)])
    OBVIOUS
  <2> DEFINE j == m + (n + 1)
             s == c[m]
             t == c[j - 1]
             x == w[j].name
  <2>1. j \in DOMAIN w /\ j - 1 = m + n /\ m + n <= Len(w) /\ m \in 0..Len(w) /\ j - 1 \in 0..Len(w)
    BY <1>1
  <2>2. s \in Seq(Names) /\ t \in Seq(Names) /\ x \in Names
    BY <1>4, <1>5, <2>1
  <2>3. Begins(s, t)
    BY <1>12, <2>1
  <2>4. c[j] = IF w[j].dir = d THEN Append(t, x) ELSE t
    BY <1>3, <2>1
  <2> HIDE DEF j, s, t, x
  <2>5. Begins(s, Append(t, x))
    BY <2>2, <2>3 DEF Begins
  <2>6. Begins(s, c[j])
    BY <2>3, <2>4, <2>5
  <2> QED
    BY <2>6 DEF s, j
<1>13. \A n \in Nat : n \in U
  <2> HIDE DEF U
  <2> QED
    BY <1>11, <1>12, Induction
<1>14. Begins(c[m], c[Len(w)])
  <2>1. Len(w) - m \in Nat /\ m + (Len(w) - m) = Len(w)
    BY <1>1
  <2>2. Begins(c[m], c[m + (Len(w) - m)])
    BY <2>1, <1>1, <1>13
  <2> QED
    BY <2>1, <2>2
<1> QED
  BY <1>10, <1>14 DEF b, c, m

(* So it is with the listing of a path whose route is the same.            *)
LEMMA ListedKept ==
  ASSUME NEW v, Sound(v), NEW w, Sound(w), Extends(v, w), NEW p,
         get_cluster_number(w, p) = get_cluster_number(v, p)
  PROVE  /\ Begins(Listed(v, p), Listed(w, p))
         /\ Listed(v, p) \in Seq(Names) /\ Listed(w, p) \in Seq(Names)
<1>1. Len(v) \in 0..Len(v) /\ Len(w) \in 0..Len(w)
  BY VolumeTyped
<1> QED
  BY <1>1, ListedIs, NamesKept, NamesTyped

(* Nor does a listing change with the sizes.                               *)
LEMMA ListedSame ==
  ASSUME NEW v, Sound(v), NEW w, Sound(w), Extends(v, w), Extends(w, v), NEW p \in Tree
  PROVE  Listed(w, p) = Listed(v, p)
<1>1. get_cluster_number(w, p) = get_cluster_number(v, p)
  BY RouteSame
<1>2. Begins(Listed(v, p), Listed(w, p)) /\ Begins(Listed(w, p), Listed(v, p))
  BY <1>1, ListedKept
<1>3. Listed(v, p) \in Seq(Names) /\ Listed(w, p) \in Seq(Names)
  BY <1>1, ListedKept
<1>4. Len(Listed(v, p)) \in Nat /\ Len(Listed(w, p)) \in Nat
  BY <1>3, LenProperties
<1>5. Len(Listed(v, p)) = Len(Listed(w, p))
  BY <1>2, <1>4 DEF Begins
<1>6. \A i \in 1..Len(Listed(v, p)) : Listed(v, p)[i] = Listed(w, p)[i]
  BY <1>2 DEF Begins
<1> QED
  BY <1>3, <1>5, <1>6, SeqEqual

-----------------------------------------------------------------------------
(* Paths above a path.                                                     *)

AtOrAbove(p, q) == p = q \/ IsStrictPrefix(p, q)

(* A path above another, by the names they share.                          *)
LEMMA AboveUp ==
  ASSUME NEW p \in Tree, NEW q \in Tree
  PROVE  AtOrAbove(p, q) <=> Len(p) <= Len(q) /\ Up(q, Len(p)) = p
<1>1. Len(p) \in Nat /\ Len(q) \in Nat /\ Up(p, Len(p)) = p /\ Up(q, Len(q)) = q
  BY UpTyped
<1>2. IsStrictPrefix(p, q) <=> Len(p) < Len(q) /\ Up(q, Len(p)) = p
  BY StrictUp
<1>3. Len(p) = Len(q) /\ Up(q, Len(p)) = p => p = q
  BY <1>1
<1> QED
  BY <1>1, <1>2, <1>3 DEF AtOrAbove

(* What is above a path above is above.                                    *)
LEMMA AboveTrans ==
  ASSUME NEW o \in Tree, NEW p \in Tree, NEW q \in Tree, AtOrAbove(o, p), AtOrAbove(p, q)
  PROVE  AtOrAbove(o, q)
<1>1. Len(o) \in Nat /\ Len(p) \in Nat /\ Len(q) \in Nat
  BY UpTyped
<1>2. Len(o) <= Len(p) /\ Up(p, Len(o)) = o /\ Len(p) <= Len(q) /\ Up(q, Len(p)) = p
  BY AboveUp
<1>3. Len(p) \in 0..Len(q) /\ Len(o) \in 0..Len(p)
  BY <1>1, <1>2
<1>4. Up(Up(q, Len(p)), Len(o)) = Up(q, Len(o))
  BY <1>3, UpTyped
<1>5. Up(q, Len(o)) = o
  BY <1>2, <1>4
<1>6. Len(o) <= Len(q)
  BY <1>1, <1>2
<1> QED
  BY <1>5, <1>6, AboveUp

(* The paths above a path other than itself are those above its parent.    *)
LEMMA AboveParent ==
  ASSUME NEW p \in Tree, NEW q \in Nodes
  PROVE  /\ IsStrictPrefix(p, q) <=> AtOrAbove(p, Parent(q))
         /\ IsStrictPrefix(p, q) => p # q /\ Len(p) < Len(q)
<1>1. Parent(q) \in Tree /\ Len(Parent(q)) = Len(q) - 1 /\ q \in Tree
      /\ Parent(q) = Up(q, Len(q) - 1) /\ Len(q) \in Nat /\ Len(q) >= 1
  BY NodeTyped DEF Tree
<1>2. IsStrictPrefix(p, q) <=> Len(p) < Len(q) /\ Up(q, Len(p)) = p
  BY <1>1, StrictUp
<1>3. AtOrAbove(p, Parent(q)) <=> Len(p) <= Len(q) - 1 /\ Up(Parent(q), Len(p)) = p
  BY <1>1, AboveUp
<1>4. Len(p) \in Nat
  BY UpTyped
<1>5. ASSUME Len(p) <= Len(q) - 1 PROVE Up(Parent(q), Len(p)) = Up(q, Len(p))
  <2>1. Len(q) - 1 \in 0..Len(q) /\ Len(p) \in 0..(Len(q) - 1)
    BY <1>1, <1>4, <1>5
  <2>2. Up(Up(q, Len(q) - 1), Len(p)) = Up(q, Len(p))
    BY <2>1, <1>1, UpTyped
  <2> QED
    BY <2>2, <1>1
<1>6. IsStrictPrefix(p, q) => p # q
  BY DEF IsStrictPrefix
<1> QED
  BY <1>1, <1>2, <1>3, <1>4, <1>5, <1>6

(* Two paths above a path: one of them is above the other.                 *)
LEMMA AboveEach ==
  ASSUME NEW o \in Tree, NEW p \in Tree, NEW q \in Tree, AtOrAbove(o, q), AtOrAbove(p, q)
  PROVE  AtOrAbove(o, p) \/ IsStrictPrefix(p, o)
<1>1. Len(o) \in Nat /\ Len(p) \in Nat /\ Len(q) \in Nat
  BY UpTyped
<1>2. Len(o) <= Len(q) /\ Up(q, Len(o)) = o /\ Len(p) <= Len(q) /\ Up(q, Len(p)) = p
  BY AboveUp
<1>3. CASE Len(o) <= Len(p)
  <2>1. Len(p) \in 0..Len(q) /\ Len(o) \in 0..Len(p)
    BY <1>1, <1>2, <1>3
  <2>2. Up(Up(q, Len(p)), Len(o)) = Up(q, Len(o))
    BY <2>1, UpTyped
  <2>3. Up(p, Len(o)) = o
    BY <1>2, <2>2
  <2> QED
    BY <1>3, <2>3, AboveUp
<1>4. CASE Len(p) < Len(o)
  <2>1. Len(o) \in 0..Len(q) /\ Len(p) \in 0..Len(o)
    BY <1>1, <1>2, <1>4
  <2>2. Up(Up(q, Len(o)), Len(p)) = Up(q, Len(p))
    BY <2>1, UpTyped
  <2>3. Up(o, Len(p)) = p
    BY <1>2, <2>2
  <2> QED
    BY <1>4, <2>3, StrictUp
<1> QED
  BY <1>1, <1>3, <1>4

(* A dentry is local by itself or by one above it.                         *)
LocalIn(c, q) == \E p \in DOMAIN c : AtOrAbove(p, q) /\ c[p].from # "volume"

(* What is local, spelled out.                                             *)
LEMMA LocalMeans ==
  ASSUME NEW c, DOMAIN c \subseteq Nodes, NEW q \in Tree
  PROVE  (\E k \in 1..Len(q) :
            LET p == SubSeq(q, 1, k) IN p \in DOMAIN c /\ c[p].from # "volume") <=> LocalIn(c, q)
<1>1. ASSUME NEW k \in 1..Len(q), Up(q, k) \in DOMAIN c, c[Up(q, k)].from # "volume"
      PROVE  LocalIn(c, q)
  <2>1. k \in 0..Len(q) /\ Len(q) \in Nat
    BY UpTyped
  <2>2. Up(q, k) \in Tree /\ Len(Up(q, k)) = k /\ k <= Len(q)
    BY <2>1, UpTyped
  <2>3. AtOrAbove(Up(q, k), q)
    BY <2>2, AboveUp
  <2> QED
    BY <1>1, <2>3 DEF LocalIn
<1>2. ASSUME NEW p \in DOMAIN c, AtOrAbove(p, q), c[p].from # "volume"
      PROVE  \E k \in 1..Len(q) : Up(q, k) \in DOMAIN c /\ c[Up(q, k)].from # "volume"
  <2>1. p \in Nodes /\ p \in Tree
    BY DEF Tree
  <2>2. Len(p) \in Nat /\ Len(p) >= 1 /\ Len(q) \in Nat
    BY <2>1, NodeTyped, UpTyped
  <2>3. Len(p) <= Len(q) /\ Up(q, Len(p)) = p
    BY <2>1, <1>2, AboveUp
  <2>4. Len(p) \in 1..Len(q)
    BY <2>2, <2>3
  <2> QED
    BY <1>2, <2>3, <2>4
<1>3. (\E k \in 1..Len(q) :
         LET p == SubSeq(q, 1, k) IN p \in DOMAIN c /\ c[p].from # "volume")
      <=> (\E k \in 1..Len(q) : Up(q, k) \in DOMAIN c /\ c[Up(q, k)].from # "volume")
  BY DEF Up
<1> QED
  BY <1>1, <1>2, <1>3 DEF LocalIn

-----------------------------------------------------------------------------
(* The invariant.                                                          *)

CacheOK ==
  /\ DOMAIN cache \subseteq Nodes
  /\ \A q \in DOMAIN cache : cache[q] \in Dentries /\ IsDir(Parent(q))
OpenOK ==
  /\ handle = NoHandle \/ Cached(handle.path, {"file"})
  /\ IsDir(listing.path)
OpenTyped ==
  /\ handle \in [path : Tree, pos : Nat]
  /\ listing \in [path : Tree, pos : Nat, got : Seq(Names), had : SUBSET Names, over : BOOLEAN]
PinnedIs ==
  \A q \in DOMAIN cache : cache[q].from = "pinned" => cache[q].kind \in Kinds
TInv ==
  /\ Sound(vol) /\ CacheOK /\ OpenOK /\ OpenTyped /\ PinnedIs
  /\ state \in {"ok", "hung", "wrecked"}

(* The position of a handle that writes where it thinks is within the size *)
(* that stat reports.                                                      *)
HandleFits ==
  handle # NoHandle /\ ~Local(handle.path) =>
    \E i \in get_dentry(vol, handle.path) : handle.pos <= vol[i].size

(* What has been read of a directory: what it had when it was opened is    *)
(* the first h of its names, and what was given the first of them that fit *)
(* when it was read.                                                       *)
AtMost(m, n) == IF m < n THEN m ELSE n
Given(names, l) ==
  \E h \in 0..Len(names) :
    /\ l.had = {names[i] : i \in 1..h}
    /\ l.pos = 0 => l.got = <<>> /\ (l.over => l.had = {})
    /\ l.pos > 0 => \E m \in h..Len(names) : l.got = SubSeq(names, 1, AtMost(m, Room))
ListingFits == ~Local(listing.path) => Given(Listed(vol, listing.path), listing)

VInv == TInv /\ CacheAgrees /\ HandleFits /\ ListingFits

(* What is in a dentry.                                                    *)
LEMMA DentryTyped ==
  ASSUME CacheOK
  PROVE  /\ DOMAIN cache \subseteq Nodes /\ DOMAIN cache \subseteq Tree
         /\ \A q \in DOMAIN cache :
              /\ cache[q].kind \in Kinds \cup {"none"}
              /\ cache[q].from \in {"volume", "local", "pinned"}
              /\ cache[q] \in Dentries
              /\ IsDir(Parent(q)) /\ Parent(q) \in Tree
<1>1. DOMAIN cache \subseteq Nodes /\ \A q \in DOMAIN cache : cache[q] \in Dentries /\ IsDir(Parent(q))
  BY DEF CacheOK
<1>2. \A q \in DOMAIN cache : /\ cache[q].kind \in Kinds \cup {"none"}
                              /\ cache[q].from \in {"volume", "local", "pinned"}
  BY <1>1 DEF Dentries
<1>3. \A q \in DOMAIN cache : Parent(q) \in Tree
  BY <1>1, NodeTyped
<1> QED
  BY <1>1, <1>2, <1>3 DEF Tree

(* The paths above a directory in the cache are such directories.          *)
LEMMA DirsAbove ==
  ASSUME CacheOK
  PROVE  \A p \in Tree : IsDir(p) =>
           \A o \in Nodes : AtOrAbove(o, p) => Cached(o, {"dir"})
<1> DEFINE T == {p \in Tree : IsDir(p) => \A o \in Nodes : AtOrAbove(o, p) => Cached(o, {"dir"})}
<1>1. <<>> \in T
  <2>1. ASSUME NEW o \in Nodes, AtOrAbove(o, <<>>) PROVE FALSE
    <3>1. o \in Tree /\ <<>> \in Tree
      BY DEF Tree
    <3>2. Len(o) <= Len(<<>>)
      BY <3>1, <2>1, AboveUp
    <3> QED
      BY <3>2, NodeTyped
  <2> QED
    BY <2>1 DEF Tree
<1>2. ASSUME NEW q \in Nodes, Parent(q) \in T PROVE q \in T
  <2>1. q \in Tree /\ q # <<>>
    BY NodeTyped DEF Tree
  <2> SUFFICES ASSUME IsDir(q), NEW o \in Nodes, AtOrAbove(o, q) PROVE Cached(o, {"dir"})
    BY <2>1
  <2>2. Cached(q, {"dir"})
    BY <2>1 DEF IsDir
  <2>3. IsDir(Parent(q))
    BY <2>2, DentryTyped DEF Cached
  <2>4. CASE o = q
    BY <2>2, <2>4
  <2>5. CASE IsStrictPrefix(o, q)
    <3>1. AtOrAbove(o, Parent(q))
      BY <2>5, AboveParent DEF Tree
    <3> QED
      BY <3>1, <2>3, <1>2
  <2> QED
    BY <2>4, <2>5 DEF AtOrAbove
<1>3. \A p \in Tree : p \in T
  <2> HIDE DEF T
  <2> QED
    BY <1>1, <1>2, TreeInduction
<1> QED
  BY <1>3

(* So are those above any dentry.                                          *)
LEMMA CachedAbove ==
  ASSUME CacheOK, NEW q \in DOMAIN cache, NEW p \in Nodes, IsStrictPrefix(p, q)
  PROVE  Cached(p, {"dir"})
<1>1. q \in Nodes /\ IsDir(Parent(q)) /\ Parent(q) \in Tree
  BY DentryTyped
<1>2. AtOrAbove(p, Parent(q))
  BY <1>1, AboveParent DEF Tree
<1> QED
  BY <1>1, <1>2, DirsAbove

(* What is below a local path is local.                                    *)
LEMMA LocalBelow ==
  ASSUME CacheOK, NEW p \in Tree, NEW q \in Tree, AtOrAbove(p, q), Local(p)
  PROVE  Local(q)
<1>1. DOMAIN cache \subseteq Nodes /\ DOMAIN cache \subseteq Tree
  BY DentryTyped
<1>2. PICK o \in DOMAIN cache : AtOrAbove(o, p) /\ cache[o].from # "volume"
  BY <1>1, LocalMeans DEF Local, LocalIn
<1>3. AtOrAbove(o, q)
  BY <1>1, <1>2, AboveTrans
<1>4. LocalIn(cache, q)
  BY <1>2, <1>3 DEF LocalIn
<1> QED
  BY <1>1, <1>4, LocalMeans DEF Local

(* The route to a directory that is the volume's word is right.            *)
LEMMA DirRoute ==
  ASSUME VInv
  PROVE  \A p \in Tree : IsDir(p) /\ ~Local(p) => get_cluster_number(vol, p) # Wrong
<1> DEFINE T == {p \in Tree : IsDir(p) /\ ~Local(p) => get_cluster_number(vol, p) # Wrong}
<1>0. CacheOK /\ Sound(vol) /\ CacheAgrees
  BY DEF VInv, TInv
<1>1. <<>> \in T
  <2>1. Root # Wrong
    BY BoundsTyped DEF Root, Wrong
  <2> QED
    BY <2>1, RouteStep DEF Tree
<1>2. ASSUME NEW q \in Nodes, Parent(q) \in T PROVE q \in T
  <2>1. q \in Tree /\ q # <<>> /\ Parent(q) \in Tree
    BY NodeTyped DEF Tree
  <2> SUFFICES ASSUME IsDir(q), ~Local(q) PROVE get_cluster_number(vol, q) # Wrong
    BY <2>1
  <2>2. q \in DOMAIN cache /\ cache[q].kind = "dir"
    BY <2>1 DEF IsDir, Cached
  <2>3. AtOrAbove(Parent(q), q)
    BY <2>1, AboveParent DEF AtOrAbove
  <2>4. ~Local(Parent(q))
    BY <2>1, <2>3, <1>0, LocalBelow
  <2>5. KindOnVolume(q) = "dir"
    BY <2>2, <1>0 DEF CacheAgrees
  <2> DEFINE d == get_cluster_number(vol, Parent(q))
             n == Last(q)
             S == Search(vol, d, n, Kinds)
  <2>6. S # {} /\ vol[CHOOSE i \in S : TRUE].kind = "dir"
    BY <2>5 DEF KindOnVolume, OnVolume, Route
  <2>7. /\ S \subseteq Match(vol, d, n, Kinds)
        /\ Match(vol, d, n, {"dir"}) # {} => Search(vol, d, n, {"dir"}) # {}
    BY <1>0, SearchTyped
  <2>8. \A i \in Match(vol, d, n, Kinds) : vol[i].kind = "dir" => i \in Match(vol, d, n, {"dir"})
    BY DEF Match
  <2> HIDE DEF d, n, S
  <2>9. Search(vol, d, n, {"dir"}) # {}
    BY <2>6, <2>7, <2>8
  <2> QED
    BY <2>9, <1>0, RouteFound DEF d, n
<1>3. \A p \in Tree : p \in T
  <2> HIDE DEF T
  <2> QED
    BY <1>1, <1>2, TreeInduction
<1> QED
  BY <1>3

(* So is the route to the directory of any name that is.                   *)
LEMMA RightRoute ==
  ASSUME VInv, NEW q \in Nodes, IsDir(Parent(q)), ~Local(Parent(q))
  PROVE  Route(vol, q) # Wrong
BY DirRoute, NodeTyped DEF Route

-----------------------------------------------------------------------------
(* How the cache changes.                                                  *)

(* A path is local when its parent is, or its own dentry.                  *)
LEMMA LocalStep ==
  ASSUME NEW c, DOMAIN c \subseteq Nodes, NEW q \in Nodes
  PROVE  LocalIn(c, q) <=> LocalIn(c, Parent(q)) \/ (q \in DOMAIN c /\ c[q].from # "volume")
<1>1. \A p \in DOMAIN c : IsStrictPrefix(p, q) <=> AtOrAbove(p, Parent(q))
  BY AboveParent DEF Tree
<1> QED
  BY <1>1 DEF LocalIn, AtOrAbove

(* The root is not local.                                                  *)
LEMMA RootNotLocal ==
  ASSUME NEW c, DOMAIN c \subseteq Nodes
  PROVE  ~LocalIn(c, <<>>)
<1>1. <<>> \in Tree /\ Len(<<>>) = 0
  BY DEF Tree
<1> QED
  BY <1>1, LocalMeans

(* Both ways to say so, before a step and after.                           *)
LEMMA LocalSteps ==
  ASSUME DOMAIN cache \subseteq Nodes, DOMAIN cache' \subseteq Nodes
  PROVE  /\ \A q \in Tree : Local(q) <=> LocalIn(cache, q)
         /\ \A q \in Tree : Local(q)' <=> LocalIn(cache', q)
<1>1. \A q \in Tree : Local(q) <=> LocalIn(cache, q)
  BY LocalMeans DEF Local
<1>2. \A q \in Tree : Local(q)' <=> LocalIn(cache', q)
  BY LocalMeans DEF Local
<1> QED
  BY <1>1, <1>2

(* A dentry that is added or changed where nothing was changes no other    *)
(* path.                                                                   *)
LEMMA AddOne ==
  ASSUME TInv, NEW q \in Nodes, NEW d \in Dentries, IsDir(Parent(q)),
         q \notin DOMAIN cache \/ Cached(q, {"none"}),
         cache' = With(q, d), UNCHANGED <<handle, listing>>,
         d.from = "pinned" => d.kind \in Kinds
  PROVE  /\ CacheOK' /\ OpenOK' /\ OpenTyped' /\ PinnedIs'
         /\ DOMAIN cache' = DOMAIN cache \cup {q} /\ cache'[q] = d
         /\ \A s \in DOMAIN cache : s # q => cache'[s] = cache[s]
         /\ \A s \in Tree : (s \in DOMAIN cache \/ s = <<>>) /\ s # q => (Local(s)' <=> Local(s))
         /\ Local(q)' <=> Local(Parent(q)) \/ d.from # "volume"
<1>1. CacheOK /\ OpenOK /\ OpenTyped /\ PinnedIs
  BY DEF TInv
<1>2. DOMAIN cache' = DOMAIN cache \cup {q} /\ cache'[q] = d
      /\ \A s \in DOMAIN cache : s # q => cache'[s] = cache[s]
  BY DEF With
<1>3. ASSUME NEW p, NEW K, "none" \notin K, Cached(p, K) PROVE Cached(p, K)'
  <2>1. p # q
    BY <1>3 DEF Cached
  <2> QED
    BY <2>1, <1>2, <1>3 DEF Cached
<1>4. \A p : IsDir(p) => IsDir(p)'
  BY <1>3 DEF IsDir
<1>5. DOMAIN cache \subseteq Nodes /\ DOMAIN cache' \subseteq Nodes
  BY <1>1, <1>2 DEF CacheOK
<1>6. CacheOK'
  <2>1. \A s \in DOMAIN cache' : cache'[s] \in Dentries /\ IsDir(Parent(s))'
    BY <1>1, <1>2, <1>4 DEF CacheOK
  <2> QED
    BY <2>1, <1>5 DEF CacheOK
<1>7. OpenOK'
  <2>1. (handle = NoHandle \/ Cached(handle.path, {"file"}))'
    BY <1>1, <1>3 DEF OpenOK, Cached
  <2>2. IsDir(listing.path)'
    BY <1>1, <1>4 DEF OpenOK, IsDir, Cached
  <2> QED
    BY <2>1, <2>2 DEF OpenOK
<1>8. OpenTyped'
  BY <1>1 DEF OpenTyped
<1>9. PinnedIs'
  BY <1>1, <1>2 DEF PinnedIs
<1>10. ASSUME NEW s \in Tree, s \in DOMAIN cache \/ IsDir(s), s # q
       PROVE  LocalIn(cache', s) <=> LocalIn(cache, s)
  <2>1. ~AtOrAbove(q, s)
    <3>1. ASSUME AtOrAbove(q, s) PROVE FALSE
      <4>1. IsStrictPrefix(q, s)
        BY <1>10, <3>1 DEF AtOrAbove
      <4>2. Cached(q, {"dir"})
        BY <4>1, <3>1, <1>1, <1>10, CachedAbove, DirsAbove
      <4> QED
        BY <4>2 DEF Cached
    <3> QED
      BY <3>1
  <2> QED
    BY <2>1, <1>2 DEF LocalIn
<1>11. \A s \in Tree : (s \in DOMAIN cache \/ s = <<>>) /\ s # q => (Local(s)' <=> Local(s))
  <2>1. IsDir(<<>>)
    BY DEF IsDir
  <2> QED
    BY <2>1, <1>5, <1>10, LocalSteps
<1>12. Local(q)' <=> Local(Parent(q)) \/ d.from # "volume"
  <2>1. Parent(q) \in Tree /\ Parent(q) # q /\ q \in Tree
    <3>1. Len(Parent(q)) = Len(q) - 1 /\ Len(q) \in Nat /\ Parent(q) \in Tree
      BY NodeTyped
    <3> QED
      BY <3>1 DEF Tree
  <2>2. LocalIn(cache', Parent(q)) <=> LocalIn(cache, Parent(q))
    BY <2>1, <1>10
  <2>3. LocalIn(cache', q) <=> LocalIn(cache', Parent(q)) \/ d.from # "volume"
    BY <1>2, <1>5, LocalStep
  <2> QED
    BY <2>1, <2>2, <2>3, <1>5, LocalSteps
<1> QED
  BY <1>2, <1>6, <1>7, <1>8, <1>9, <1>11, <1>12

(* A dentry goes, or loses what it says, with all below it, when there is  *)
(* nothing below it.                                                       *)
LEMMA TakeOne ==
  ASSUME TInv, NEW q \in DOMAIN cache, ~Held(q), simple_empty(q), UNCHANGED <<handle, listing>>,
         \/ cache' = [r \in DOMAIN cache \ Under(q) |->
                        IF r = q THEN Says("none", "local") ELSE cache[r]]
         \/ cache' = Without({q} \cup Under(q))
  PROVE  /\ CacheOK' /\ OpenOK' /\ OpenTyped' /\ PinnedIs'
         /\ \A s \in DOMAIN cache' : s # q => s \in DOMAIN cache /\ cache'[s] = cache[s]
         /\ \A s \in Tree : (s \in DOMAIN cache' \/ s = <<>>) /\ s # q => (Local(s)' <=> Local(s))
         /\ q \in DOMAIN cache' => Local(q)'
<1>1. CacheOK /\ OpenOK /\ OpenTyped /\ PinnedIs
  BY DEF TInv
<1> DEFINE R == {q} \cup Under(q)
<1>2. /\ DOMAIN cache \ R \subseteq DOMAIN cache' /\ DOMAIN cache' \subseteq (DOMAIN cache \ Under(q))
      /\ \A s \in DOMAIN cache \ R : cache'[s] = cache[s]
      /\ q \in DOMAIN cache' => cache'[q] = Says("none", "local")
  <2>1. CASE cache' = [r \in DOMAIN cache \ Under(q) |->
                         IF r = q THEN Says("none", "local") ELSE cache[r]]
    BY <2>1
  <2>2. CASE cache' = Without(R)
    BY <2>2 DEF Without
  <2> QED
    BY <2>1, <2>2
<1>3. \A s \in DOMAIN cache' : s # q => s \in DOMAIN cache \ R
  BY <1>2
<1>4. DOMAIN cache \subseteq Nodes /\ DOMAIN cache' \subseteq Nodes
      /\ DOMAIN cache \subseteq Tree /\ DOMAIN cache' \subseteq Tree
  BY <1>1, <1>2, DentryTyped
<1>5. ASSUME NEW p, Cached(p, Kinds), p # q PROVE p \in DOMAIN cache \ R
  <2>1. p \notin Under(q)
    BY <1>5 DEF simple_empty, Cached, Kinds
  <2> QED
    BY <2>1, <1>5 DEF Cached
<1>6. ASSUME NEW p, NEW K \in SUBSET Kinds, Cached(p, K), p # q PROVE Cached(p, K)'
  <2>1. p \in DOMAIN cache \ R
    BY <1>5, <1>6 DEF Cached
  <2> HIDE DEF R
  <2> QED
    BY <2>1, <1>2, <1>6 DEF Cached
<1>7. \A p : IsDir(p) /\ p # q => IsDir(p)'
  BY <1>6 DEF IsDir, Kinds
<1>8. ASSUME NEW s \in DOMAIN cache' PROVE Parent(s) # q
  <2>1. ASSUME Parent(s) = q PROVE FALSE
    <3>1. s \in Nodes /\ q \in Tree /\ s \in DOMAIN cache
      BY <1>2, <1>4
    <3>2. IsStrictPrefix(q, s)
      BY <2>1, <3>1, AboveParent DEF AtOrAbove
    <3> QED
      BY <3>1, <3>2, <1>2 DEF Under
  <2> QED
    BY <2>1
<1> HIDE DEF R
<1>9. CacheOK'
  <2>1. ASSUME NEW s \in DOMAIN cache' PROVE cache'[s] \in Dentries /\ IsDir(Parent(s))'
    <3>1. s \in DOMAIN cache
      BY <1>2
    <3>2. cache[s] \in Dentries /\ IsDir(Parent(s))
      BY <3>1, <1>1 DEF CacheOK
    <3>3. IsDir(Parent(s))'
      BY <3>2, <1>7, <1>8
    <3>4. cache'[s] \in Dentries
      <4>1. Says("none", "local") \in Dentries
        BY DEF Says, Dentries
      <4> QED
        BY <4>1, <3>2, <1>2, <1>3
    <3> QED
      BY <3>3, <3>4
  <2> QED
    BY <2>1, <1>4 DEF CacheOK
<1>10. OpenOK'
  <2>1. (handle = NoHandle \/ Cached(handle.path, {"file"}))'
    <3>1. handle.path # q
      BY DEF Held
    <3> QED
      BY <3>1, <1>1, <1>6 DEF OpenOK, Kinds, Cached
  <2>2. IsDir(listing.path)'
    <3>1. listing.path # q
      BY DEF Held
    <3> QED
      BY <3>1, <1>1, <1>7 DEF OpenOK, IsDir, Cached
  <2> QED
    BY <2>1, <2>2 DEF OpenOK
<1>11. OpenTyped'
  BY <1>1 DEF OpenTyped
<1>12. PinnedIs'
  <2>1. Says("none", "local").from # "pinned"
    BY DEF Says
  <2> QED
    BY <2>1, <1>1, <1>2, <1>3 DEF PinnedIs
<1>13. ASSUME NEW s \in Tree, s \in DOMAIN cache' \/ s = <<>>, s # q
       PROVE  LocalIn(cache', s) <=> LocalIn(cache, s)
  <2>1. s \in DOMAIN cache \/ s = <<>>
    BY <1>2, <1>13
  <2>2. ~AtOrAbove(q, s)
    <3>1. ASSUME AtOrAbove(q, s) PROVE FALSE
      <4>1. IsStrictPrefix(q, s)
        BY <1>13, <3>1 DEF AtOrAbove
      <4>2. CASE s \in DOMAIN cache
        BY <4>1, <4>2, <1>2, <1>13, NodeTyped, <1>4, StrictUp DEF Under
      <4>3. CASE s = <<>>
        <5>1. Len(q) < Len(<<>>) /\ Len(q) \in Nat
          BY <4>1, <4>3, <1>4, StrictUp, UpTyped
        <5> QED
          BY <5>1
      <4> QED
        BY <2>1, <4>2, <4>3
    <3> QED
      BY <3>1
  <2>3. ASSUME NEW p \in DOMAIN cache, AtOrAbove(p, s) PROVE p \in DOMAIN cache \ R
    <3>1. p # q
      BY <2>2, <2>3
    <3>2. p \notin Under(q)
      <4>1. ASSUME p \in Under(q) PROVE FALSE
        <5>1. AtOrAbove(q, p)
          BY <4>1 DEF Under, AtOrAbove
        <5>2. AtOrAbove(q, s)
          BY <5>1, <2>3, <1>4, <1>13, AboveTrans
        <5> QED
          BY <5>2, <2>2
      <4> QED
        BY <4>1
    <3> QED
      BY <3>1, <3>2 DEF R
  <2>4. LocalIn(cache, s) => LocalIn(cache', s)
    BY <2>3, <1>2 DEF LocalIn
  <2>5. LocalIn(cache', s) => LocalIn(cache, s)
    <3>1. ASSUME NEW p \in DOMAIN cache', AtOrAbove(p, s), cache'[p].from # "volume"
          PROVE  p \in DOMAIN cache /\ cache[p].from # "volume"
      <4>1. p \in DOMAIN cache \ R
        BY <3>1, <2>3, <1>2
      <4> QED
        BY <4>1, <3>1, <1>2
    <3> QED
      BY <3>1 DEF LocalIn
  <2> QED
    BY <2>4, <2>5
<1>14. q \in DOMAIN cache' => Local(q)'
  <2>1. ASSUME q \in DOMAIN cache' PROVE LocalIn(cache', q)
    <3>1. cache'[q].from # "volume"
      BY <1>2, <2>1 DEF Says
    <3> QED
      BY <2>1, <3>1 DEF LocalIn, AtOrAbove
  <2> QED
    BY <2>1, <1>4, LocalSteps
<1>15. \A s \in Tree : (s \in DOMAIN cache' \/ s = <<>>) /\ s # q => (Local(s)' <=> Local(s))
  BY <1>4, <1>13, LocalSteps
<1>16. \A s \in DOMAIN cache' : s # q => s \in DOMAIN cache /\ cache'[s] = cache[s]
  BY <1>2, <1>3
<1> QED
  BY <1>9, <1>10, <1>11, <1>12, <1>14, <1>15, <1>16

(* What is right about one dentry.                                         *)
Agrees(q) ==
  cache[q].kind = KindOnVolume(q) /\ (cache[q].kind = "file" => mfs_getattr(q) # {})

(* A step that leaves the volume alone keeps the invariant when it makes   *)
(* local whatever it changes.                                              *)
LEMMA CacheOnly ==
  ASSUME VInv, CacheOK', OpenOK', OpenTyped', PinnedIs', state' \in {"ok", "hung", "wrecked"},
         vol' = vol,
         \A s \in DOMAIN cache' : ~Local(s)' =>
           Agrees(s)' \/ (s \in DOMAIN cache /\ cache'[s] = cache[s] /\ ~Local(s)),
         ~Local(handle.path)' => handle' = handle /\ ~Local(handle.path),
         ~Local(listing.path)' => listing' = listing /\ ~Local(listing.path)
  PROVE  VInv'
<1>1. TInv'
  BY DEF VInv, TInv
<1>2. CacheAgrees'
  <2>1. ASSUME NEW s \in DOMAIN cache', ~Local(s)' PROVE Agrees(s)'
    <3>1. ASSUME s \in DOMAIN cache, cache'[s] = cache[s], ~Local(s) PROVE Agrees(s)'
      <4>1. Agrees(s)
        BY <3>1 DEF VInv, CacheAgrees, Agrees
      <4> QED
        BY <3>1, <4>1 DEF Agrees, KindOnVolume, OnVolume, mfs_getattr
    <3> QED
      BY <2>1, <3>1
  <2> QED
    BY <2>1 DEF CacheAgrees, Agrees
<1>3. HandleFits'
  BY DEF VInv, HandleFits
<1>4. ListingFits'
  BY DEF VInv, ListingFits
<1> QED
  BY <1>1, <1>2, <1>3, <1>4 DEF VInv

(* What is open is there.                                                  *)
LEMMA OpenThere ==
  ASSUME TInv
  PROVE  /\ handle.path \in Tree /\ listing.path \in Tree /\ handle.pos \in Nat
         /\ handle.path = <<>> \/ Cached(handle.path, {"file"})
         /\ listing.path = <<>> \/ Cached(listing.path, {"dir"})
         /\ handle # NoHandle => Cached(handle.path, {"file"}) /\ handle.path \in Nodes
<1>1. OpenTyped /\ OpenOK /\ CacheOK
  BY DEF TInv
<1>2. handle.path \in Tree /\ listing.path \in Tree /\ handle.pos \in Nat
  BY <1>1 DEF OpenTyped
<1>3. handle = NoHandle \/ Cached(handle.path, {"file"})
  BY <1>1 DEF OpenOK
<1>4. NoHandle.path = <<>>
  BY DEF NoHandle
<1>5. listing.path = <<>> \/ Cached(listing.path, {"dir"})
  BY <1>1 DEF OpenOK, IsDir
<1>6. \A p : Cached(p, {"file"}) => p \in Nodes
  BY <1>1 DEF Cached, CacheOK
<1> QED
  BY <1>2, <1>3, <1>4, <1>5, <1>6

(* What is open and stays where it is.                                     *)
LEMMA OpenStays ==
  ASSUME UNCHANGED <<handle, listing>>, NEW D, handle.path \in D, listing.path \in D,
         \A s \in D : Local(s)' <=> Local(s)
  PROVE  /\ Local(handle.path)' <=> Local(handle.path)
         /\ Local(listing.path)' <=> Local(listing.path)
BY DEF Local

(* A call that fails.                                                      *)
LEMMA FailKeeps ==
  ASSUME VInv, NEW s \in {"hung", "wrecked"}, Fail(s)
  PROVE  VInv'
<1>1. UNCHANGED <<vol, cache, handle, listing>> /\ state' \in {"ok", "hung", "wrecked"}
  BY DEF Fail
<1>2. TInv'
  <2>1. TInv
    BY DEF VInv
  <2> QED
    BY <1>1, <2>1 DEF TInv, CacheOK, OpenOK, OpenTyped, PinnedIs, IsDir, Cached
<1>3. CacheAgrees'
  BY <1>1 DEF VInv, CacheAgrees, Local, KindOnVolume, OnVolume, mfs_getattr
<1>4. HandleFits' /\ ListingFits'
  BY <1>1 DEF VInv, HandleFits, ListingFits, Local
<1> QED
  BY <1>2, <1>3, <1>4 DEF VInv

(* A file or a directory is opened, read or closed.                        *)
LEMMA HandKeeps ==
  ASSUME VInv, UNCHANGED <<vol, cache, state>>, OpenOK', OpenTyped', HandleFits', ListingFits'
  PROVE  VInv'
<1>1. TInv'
  <2>1. TInv
    BY DEF VInv
  <2> QED
    BY <2>1 DEF TInv, CacheOK, PinnedIs, IsDir, Cached
<1>2. CacheAgrees'
  BY DEF VInv, CacheAgrees, Local, KindOnVolume, OnVolume, mfs_getattr
<1> QED
  BY <1>1, <1>2 DEF VInv

(* A dentry is added or changed, and is local or agrees.                   *)
LEMMA AddKeeps ==
  ASSUME VInv, NEW q \in Nodes, NEW d \in Dentries, IsDir(Parent(q)),
         q \notin DOMAIN cache \/ Cached(q, {"none"}),
         cache' = With(q, d), UNCHANGED <<vol, handle, listing, state>>,
         d.from = "pinned" => d.kind \in Kinds,
         d.from # "volume" \/ Agrees(q)'
  PROVE  VInv'
<1>0. TInv
  BY DEF VInv
<1>1. /\ CacheOK' /\ OpenOK' /\ OpenTyped' /\ PinnedIs'
      /\ DOMAIN cache' = DOMAIN cache \cup {q} /\ cache'[q] = d
      /\ \A s \in DOMAIN cache : s # q => cache'[s] = cache[s]
      /\ \A s \in Tree : (s \in DOMAIN cache \/ s = <<>>) /\ s # q => (Local(s)' <=> Local(s))
      /\ Local(q)' <=> Local(Parent(q)) \/ d.from # "volume"
  BY <1>0, AddOne
<1> DEFINE D == {s \in Tree : (s \in DOMAIN cache \/ s = <<>>) /\ s # q}
<1>2. handle.path \in D /\ listing.path \in D
  <2>1. q # <<>> /\ <<>> \in Tree
    BY NodeTyped DEF Tree
  <2>2. ~Cached(q, {"file"}) /\ ~Cached(q, {"dir"})
    BY DEF Cached
  <2>3. \A p : Cached(p, {"file"}) \/ Cached(p, {"dir"}) => p \in DOMAIN cache
    BY DEF Cached
  <2> QED
    BY <2>1, <2>2, <2>3, <1>0, OpenThere
<1>3. \A s \in D : Local(s)' <=> Local(s)
  BY <1>1
<1> HIDE DEF D
<1>4. (Local(handle.path)' <=> Local(handle.path)) /\ (Local(listing.path)' <=> Local(listing.path))
  BY <1>2, <1>3, OpenStays
<1>5. ASSUME NEW s \in DOMAIN cache', ~Local(s)'
      PROVE  Agrees(s)' \/ (s \in DOMAIN cache /\ cache'[s] = cache[s] /\ ~Local(s))
  <2>1. CASE s = q
    BY <2>1, <1>1, <1>5
  <2>2. CASE s # q
    <3>1. s \in DOMAIN cache /\ s \in Tree
      BY <2>2, <1>0, <1>1, DentryTyped DEF TInv
    <3> QED
      BY <2>2, <3>1, <1>1, <1>5
  <2> QED
    BY <2>1, <2>2
<1>6. state' \in {"ok", "hung", "wrecked"}
  BY <1>0 DEF TInv
<1> QED
  BY <1>1, <1>4, <1>5, <1>6, CacheOnly

(* A dentry is taken.                                                      *)
LEMMA TakeKeeps ==
  ASSUME VInv, NEW q \in DOMAIN cache, ~Held(q), simple_empty(q),
         UNCHANGED <<vol, handle, listing, state>>,
         \/ cache' = [r \in DOMAIN cache \ Under(q) |->
                        IF r = q THEN Says("none", "local") ELSE cache[r]]
         \/ cache' = Without({q} \cup Under(q))
  PROVE  VInv'
<1>0. TInv
  BY DEF VInv
<1>1. /\ CacheOK' /\ OpenOK' /\ OpenTyped' /\ PinnedIs'
      /\ \A s \in DOMAIN cache' : s # q => s \in DOMAIN cache /\ cache'[s] = cache[s]
      /\ \A s \in Tree : (s \in DOMAIN cache' \/ s = <<>>) /\ s # q => (Local(s)' <=> Local(s))
      /\ q \in DOMAIN cache' => Local(q)'
  BY <1>0, TakeOne
<1> DEFINE D == {s \in Tree : (s \in DOMAIN cache' \/ s = <<>>) /\ s # q}
<1>2. handle.path \in D /\ listing.path \in D
  <2>1. handle.path # q /\ listing.path # q
    BY DEF Held
  <2>2. handle.path \in Tree /\ listing.path \in Tree
    BY <1>0, OpenThere
  <2>3. handle.path \in DOMAIN cache' \/ handle.path = <<>>
    BY <1>1 DEF OpenOK, NoHandle, Cached
  <2>4. listing.path \in DOMAIN cache' \/ listing.path = <<>>
    BY <1>1 DEF OpenOK, IsDir, Cached
  <2> QED
    BY <2>1, <2>2, <2>3, <2>4
<1>3. \A s \in D : Local(s)' <=> Local(s)
  BY <1>1
<1> HIDE DEF D
<1>4. (Local(handle.path)' <=> Local(handle.path)) /\ (Local(listing.path)' <=> Local(listing.path))
  BY <1>2, <1>3, OpenStays
<1>5. ASSUME NEW s \in DOMAIN cache', ~Local(s)'
      PROVE  s \in DOMAIN cache /\ cache'[s] = cache[s] /\ ~Local(s)
  <2>1. s # q
    BY <1>1, <1>5
  <2>2. s \in Tree
    BY <1>1 DEF CacheOK, Tree
  <2> QED
    BY <2>1, <2>2, <1>1, <1>5
<1>6. state' \in {"ok", "hung", "wrecked"}
  BY <1>0 DEF TInv
<1> QED
  BY <1>1, <1>4, <1>5, <1>6, CacheOnly

(* The kind a look at the volume finds there, it finds when it looks for   *)
(* that kind.                                                              *)
LEMMA KindFound ==
  ASSUME Sound(vol), NEW q \in Nodes
  PROVE  /\ KindOnVolume(q) \in Kinds \cup {"none"}
         /\ KindOnVolume(q) = "file" => get_dentry(vol, q) # {} /\ mfs_getattr(q) # {}
         /\ KindOnVolume(q) = "none" <=> OnVolume(q) = {}
<1> DEFINE d == Route(vol, q)
           n == Last(q)
           S == Search(vol, d, n, Kinds)
<1>1. KindOnVolume(q) = IF S = {} THEN "none" ELSE vol[CHOOSE i \in S : TRUE].kind
  BY DEF KindOnVolume, OnVolume
<1>2. S \subseteq Match(vol, d, n, Kinds)
      /\ (Match(vol, d, n, {"file"}) # {} => Search(vol, d, n, {"file"}) # {})
  BY SearchTyped
<1>3. \A i \in Match(vol, d, n, Kinds) :
        vol[i].kind \in Kinds /\ (vol[i].kind = "file" => i \in Match(vol, d, n, {"file"}))
  BY DEF Match
<1>4. OnVolume(q) = S /\ get_dentry(vol, q) = Search(vol, d, n, {"file"})
  BY DEF OnVolume, get_dentry
<1> HIDE DEF d, n, S
<1>5. S # {} => vol[CHOOSE i \in S : TRUE].kind \in Kinds
  BY <1>2, <1>3
<1>6. KindOnVolume(q) = "file" => get_dentry(vol, q) # {}
  BY <1>1, <1>2, <1>3, <1>4
<1>7. get_dentry(vol, q) # {} => mfs_getattr(q) # {}
  BY DEF mfs_getattr
<1> QED
  BY <1>1, <1>4, <1>5, <1>6, <1>7 DEF Kinds

-----------------------------------------------------------------------------
(* The operations that leave the volume alone.                             *)

(* mfs_lookup keeps the invariant: the name that is not cached is searched *)
(* on the volume, by the route the cache gives, and what is found is new.  *)
LEMMA LookupKeeps ==
  ASSUME VInv, NEW q \in Nodes, mfs_lookup(q)
  PROVE  VInv'
<1>0. TInv /\ Sound(vol)
  BY DEF VInv, TInv
<1>1. CASE Misrouted(q)
  BY <1>1, FailKeeps DEF mfs_lookup
<1>2. CASE ~Misrouted(q)
  <2> DEFINE d == Says(KindOnVolume(q), "volume")
  <2>1. /\ IsDir(Parent(q)) /\ q \notin DOMAIN cache
        /\ cache' = With(q, d) /\ UNCHANGED <<vol, handle, listing, state>>
    BY <1>2 DEF mfs_lookup, KindOnVolume, OnVolume, __mfs_lookup
  <2>2. d \in Dentries /\ d.kind = KindOnVolume(q) /\ d.from = "volume"
    BY <1>0, KindFound DEF Says, Dentries
  <2>3. Agrees(q)'
    <3>1. cache'[q] = d
      BY <2>1 DEF With
    <3>2. KindOnVolume(q)' = KindOnVolume(q) /\ mfs_getattr(q)' = mfs_getattr(q)
      BY <2>1 DEF KindOnVolume, OnVolume, mfs_getattr
    <3> QED
      BY <3>1, <3>2, <2>2, <1>0, KindFound DEF Agrees
  <2> HIDE DEF d
  <2> QED
    BY <2>1, <2>2, <2>3, AddKeeps
<1> QED
  BY <1>1, <1>2

(* mknod and link.                                                         *)
LEMMA MadeInCacheKeeps ==
  ASSUME VInv, NEW q \in Nodes, Negative(q), cache' = With(q, Says("file", "pinned")),
         UNCHANGED <<vol, handle, listing, state>>
  PROVE  VInv'
<1> DEFINE d == Says("file", "pinned")
<1>1. d \in Dentries /\ d.kind \in Kinds /\ d.from = "pinned"
  BY DEF Says, Dentries, Kinds
<1>2. IsDir(Parent(q)) /\ Cached(q, {"none"})
  BY DEF Negative
<1> HIDE DEF d
<1> QED
  BY <1>1, <1>2, AddKeeps DEF d

(* Nothing is below a file.                                                *)
LEMMA NothingBelow ==
  ASSUME CacheOK, NEW q, Cached(q, {"file"})
  PROVE  simple_empty(q)
<1>1. q \in Nodes
  BY DEF Cached, CacheOK
<1>2. ASSUME NEW s \in Under(q) PROVE FALSE
  <2>1. s \in DOMAIN cache /\ IsStrictPrefix(q, s)
    BY <1>2 DEF Under
  <2>2. Cached(q, {"dir"})
    BY <1>1, <2>1, CachedAbove
  <2> QED
    BY <2>2 DEF Cached
<1> QED
  BY <1>2 DEF simple_empty

(* unlink and rmdir.                                                       *)
LEMMA GoneKeeps ==
  ASSUME VInv, NEW q, simple_unlink(q) \/ simple_rmdir(q)
  PROVE  VInv'
<1>1. q \in DOMAIN cache /\ ~Held(q) /\ Gone(q)
  BY DEF simple_unlink, simple_rmdir, Cached
<1>2. simple_empty(q)
  BY NothingBelow DEF simple_unlink, simple_rmdir, VInv, TInv
<1> QED
  BY <1>1, <1>2, TakeKeeps DEF Gone

(* The kernel drops what is neither pinned nor open: the volume has it.    *)
LEMMA DropKeeps ==
  ASSUME VInv, NEW q, Drop(q)
  PROVE  VInv'
<1>1. q \in DOMAIN cache /\ ~Held(q) /\ Under(q) = {} /\ cache' = Without({q})
      /\ UNCHANGED <<vol, handle, listing, state>>
  BY DEF Drop
<1>2. simple_empty(q) /\ {q} = {q} \cup Under(q)
  BY <1>1 DEF simple_empty
<1>3. cache' = Without({q} \cup Under(q))
  BY <1>1, <1>2
<1> QED
  BY <1>1, <1>2, <1>3, TakeKeeps

(* Unmounting empties the cache, and nothing was open.                     *)
LEMMA PutSuperKeeps ==
  ASSUME VInv, mfs_put_super
  PROVE  VInv'
<1>1. CASE \E q \in DOMAIN cache : cache[q].from = "pinned"
  BY <1>1, FailKeeps DEF mfs_put_super
<1>2. CASE ~ \E q \in DOMAIN cache : cache[q].from = "pinned"
  <2>1. cache' = <<>> /\ UNCHANGED <<vol, handle, listing, state>>
        /\ handle = NoHandle /\ listing = NoListing
    BY <1>2 DEF mfs_put_super
  <2>2. DOMAIN cache' = {}
    BY <2>1
  <2>3. TInv /\ OpenTyped
    BY DEF VInv, TInv
  <2>4. CacheOK' /\ PinnedIs'
    BY <2>2 DEF CacheOK, PinnedIs
  <2>5. OpenOK'
    BY <2>1 DEF OpenOK, IsDir, NoListing
  <2>6. OpenTyped'
    BY <2>1, <2>3 DEF OpenTyped
  <2>7. ~Local(handle.path) /\ ~Local(listing.path)
    <3>1. handle.path = <<>> /\ listing.path = <<>> /\ Len(<<>>) = 0
      BY <2>1 DEF NoHandle, NoListing
    <3> QED
      BY <3>1 DEF Local
  <2>8. state' \in {"ok", "hung", "wrecked"}
    BY <2>1, <2>3 DEF TInv
  <2> QED
    BY <2>1, <2>2, <2>4, <2>5, <2>6, <2>7, <2>8, CacheOnly
<1> QED
  BY <1>1, <1>2

-----------------------------------------------------------------------------
(* Files and directories are opened, read and closed.                      *)

(* An open file is the entry its place in the cache says.                  *)
LEMMA OpenKeeps ==
  ASSUME VInv, NEW q \in Nodes, Open(q)
  PROVE  VInv'
<1>1. /\ Cached(q, {"file"}) /\ handle' = [path |-> q, pos |-> 0]
      /\ UNCHANGED <<vol, cache, listing, state>>
  BY DEF Open
<1>2. TInv /\ OpenTyped /\ OpenOK /\ CacheAgrees /\ ListingFits
  BY DEF VInv, TInv
<1>3. OpenOK'
  BY <1>1, <1>2 DEF OpenOK, IsDir, Cached
<1>4. OpenTyped'
  BY <1>1, <1>2 DEF OpenTyped, Tree
<1>5. ListingFits'
  BY <1>1, <1>2 DEF ListingFits, Local
<1>6. HandleFits'
  <2>1. ASSUME ~Local(q) PROVE \E i \in get_dentry(vol, q) : 0 <= vol[i].size
    <3>1. get_dentry(vol, q) # {}
      BY <1>1, <1>2, <2>1 DEF CacheAgrees, Cached, mfs_getattr
    <3>2. \A i \in get_dentry(vol, q) : vol[i].size \in Nat
      <4>1. get_dentry(vol, q) \subseteq DOMAIN vol
        BY DEF get_dentry, Search
      <4> QED
        BY <4>1, <1>2, VolumeTyped DEF TInv
    <3> QED
      BY <3>1, <3>2
  <2> QED
    BY <1>1, <2>1 DEF HandleFits, Local
<1> QED
  BY <1>1, <1>3, <1>4, <1>5, <1>6, HandKeeps

(* The names of a directory are a sequence of names.                       *)
LEMMA ListedTyped ==
  ASSUME NEW v, Sound(v), NEW p
  PROVE  /\ Listed(v, p) \in Seq(Names) /\ Len(Listed(v, p)) \in Nat
         /\ Range(Listed(v, p)) = {Listed(v, p)[i] : i \in 1..Len(Listed(v, p))}
         /\ Range(Listed(v, p)) \subseteq Names
<1> DEFINE s == Listed(v, p)
<1>1. s \in Seq(Names)
  <2>1. Len(v) \in 0..Len(v)
    BY VolumeTyped
  <2> QED
    BY <2>1, ListedIs, NamesTyped
<1> HIDE DEF s
<1>2. Len(s) \in Nat /\ DOMAIN s = 1..Len(s) /\ \A i \in 1..Len(s) : s[i] \in Names
  BY <1>1, LenProperties, ElementOfSeq
<1>3. Range(s) = {s[i] : i \in 1..Len(s)} /\ Range(s) \subseteq Names
  BY <1>2 DEF Range
<1> QED
  BY <1>1, <1>2, <1>3 DEF s

(* A listing begins with a directory, and nothing read.                    *)
LEMMA OpenDirKeeps ==
  ASSUME VInv, NEW p \in Tree, OpenDir(p)
  PROVE  VInv'
<1> DEFINE names == Listed(vol, p)
<1>1. /\ IsDir(p) /\ UNCHANGED <<vol, cache, handle, state>>
      /\ listing' = [path |-> p, pos |-> 0, got |-> <<>>, had |-> Range(names), over |-> FALSE]
  BY DEF OpenDir
<1>2. TInv /\ OpenTyped /\ OpenOK /\ HandleFits /\ Sound(vol)
  BY DEF VInv, TInv
<1>3. /\ names \in Seq(Names) /\ Len(names) \in Nat
      /\ Range(names) = {names[i] : i \in 1..Len(names)} /\ Range(names) \subseteq Names
  BY <1>2, ListedTyped
<1>4. OpenOK'
  BY <1>1, <1>2 DEF OpenOK, IsDir, Cached
<1>5. HandleFits'
  BY <1>1, <1>2 DEF HandleFits, Local
<1>6. Listed(vol, listing.path)' = names
  BY <1>1
<1> HIDE DEF names
<1>7. OpenTyped'
  <2>1. <<>> \in Seq(Names) /\ Range(names) \in SUBSET Names
    BY <1>3
  <2> QED
    BY <2>1, <1>1, <1>2 DEF OpenTyped
<1>8. Given(names, listing')
  BY <1>1, <1>3 DEF Given
<1>9. ListingFits'
  BY <1>6, <1>8 DEF ListingFits
<1> QED
  BY <1>1, <1>4, <1>5, <1>7, <1>9, HandKeeps

(* Closing takes nothing away but the handle.                              *)
LEMMA CloseKeeps ==
  ASSUME VInv, Close
  PROVE  VInv'
<1>1. handle' = NoHandle /\ listing' = NoListing /\ UNCHANGED <<vol, cache, state>>
  BY DEF Close
<1>2. OpenOK'
  BY <1>1 DEF OpenOK, IsDir, NoListing
<1>3. OpenTyped'
  BY <1>1, EmptySeq DEF OpenTyped, NoHandle, NoListing, Tree
<1>4. HandleFits'
  BY <1>1 DEF HandleFits
<1>5. ListingFits'
  <2> DEFINE names == Listed(vol', <<>>)
  <2>1. Len(names) \in Nat
    BY <1>1, ListedTyped DEF VInv, TInv
  <2>2. Listed(vol, listing.path)' = names
    BY <1>1 DEF NoListing
  <2> HIDE DEF names
  <2>3. 0 \in 0..Len(names) /\ {names[i] : i \in 1..0} = {}
    BY <2>1
  <2>4. Given(names, NoListing)
    BY <2>3 DEF Given, NoListing
  <2> QED
    BY <1>1, <2>2, <2>4 DEF ListingFits
<1> QED
  BY <1>1, <1>2, <1>3, <1>4, <1>5, HandKeeps

(* mfs_readdir: what was listed so far is the head of what the route of the*)
(* directory has, so one more name is too.                                 *)
LEMMA ReaddirKeeps ==
  ASSUME VInv, mfs_readdir
  PROVE  VInv'
<1> DEFINE names == Listed(vol, listing.path)
           n == AtMost(Len(names), Room)
<1>1. /\ ~listing.over /\ UNCHANGED <<vol, cache, handle, state>>
      /\ listing' = IF listing.pos > 0 THEN [listing EXCEPT !.over = TRUE]
                    ELSE [listing EXCEPT !.pos = 2 + n, !.got = SubSeq(names, 1, n)]
  BY DEF mfs_readdir, AtMost
<1>2. TInv /\ OpenTyped /\ OpenOK /\ HandleFits /\ ListingFits /\ Sound(vol)
  BY DEF VInv, TInv
<1>3. names \in Seq(Names) /\ Len(names) \in Nat
  BY <1>2, ListedTyped
<1>4. n \in 0..Len(names) /\ n \in Nat
  BY <1>3, BoundsTyped DEF AtMost
<1>5. listing \in [path : Tree, pos : Nat, got : Seq(Names), had : SUBSET Names, over : BOOLEAN]
  BY <1>2 DEF OpenTyped
<1>6. listing'.path = listing.path
  BY <1>1, <1>5
<1>7. OpenOK'
  BY <1>1, <1>2, <1>6 DEF OpenOK, IsDir, Cached
<1>8. HandleFits'
  BY <1>1, <1>2 DEF HandleFits, Local
<1>9. Listed(vol, listing.path)' = names
  BY <1>1, <1>6
<1>10. Local(listing.path)' <=> Local(listing.path)
  BY <1>1, <1>6 DEF Local
<1>11. ~Local(listing.path) => Given(names, listing)
  BY <1>2 DEF ListingFits
<1>12. n = AtMost(Len(names), Room)
  OBVIOUS
<1> HIDE DEF names, n
<1>13. OpenTyped'
  <2>1. SubSeq(names, 1, n) \in Seq(Names) /\ 2 + n \in Nat
    BY <1>3, <1>4
  <2> QED
    BY <2>1, <1>1, <1>2, <1>5 DEF OpenTyped
<1>14. ASSUME Given(names, listing) PROVE Given(names, listing')
  <2>1. PICK h \in 0..Len(names) :
          /\ listing.had = {names[i] : i \in 1..h}
          /\ listing.pos = 0 => listing.got = <<>> /\ (listing.over => listing.had = {})
          /\ listing.pos > 0 => \E m \in h..Len(names) : listing.got = SubSeq(names, 1, AtMost(m, Room))
    BY <1>14 DEF Given
  <2>2. listing'.had = listing.had
    BY <1>1, <1>5
  <2>3. CASE listing.pos > 0
    <3>1. listing'.pos = listing.pos /\ listing'.got = listing.got
      BY <1>1, <1>5, <2>3
    <3>2. listing'.pos # 0
      BY <3>1, <2>3, <1>5
    <3> QED
      BY <2>1, <2>2, <2>3, <3>1, <3>2 DEF Given
  <2>4. CASE ~ (listing.pos > 0)
    <3>1. listing'.pos = 2 + n /\ listing'.got = SubSeq(names, 1, AtMost(Len(names), Room))
      BY <1>1, <1>5, <1>12, <2>4
    <3>2. listing'.pos # 0 /\ Len(names) \in h..Len(names)
      BY <3>1, <1>3, <1>4
    <3> QED
      BY <2>1, <2>2, <3>1, <3>2 DEF Given
  <2> QED
    BY <2>3, <2>4
<1>15. ListingFits'
  BY <1>9, <1>10, <1>11, <1>14 DEF ListingFits
<1> QED
  BY <1>1, <1>7, <1>8, <1>13, <1>15, HandKeeps

-----------------------------------------------------------------------------
(* The operations that write the volume.                                   *)

(* What was given of the first names was given of more of them.            *)
LEMMA GivenStays ==
  ASSUME NEW s \in Seq(Names), NEW t \in Seq(Names), Begins(s, t), NEW l, Given(s, l)
  PROVE  Given(t, l)
<1>1. Len(s) \in Nat /\ Len(t) \in Nat /\ Len(s) <= Len(t) /\ \A i \in 1..Len(s) : t[i] = s[i]
  BY LenProperties DEF Begins
<1>2. PICK h \in 0..Len(s) :
        /\ l.had = {s[i] : i \in 1..h}
        /\ l.pos = 0 => l.got = <<>> /\ (l.over => l.had = {})
        /\ l.pos > 0 => \E m \in h..Len(s) : l.got = SubSeq(s, 1, AtMost(m, Room))
  BY DEF Given
<1>3. h \in 0..Len(t) /\ {s[i] : i \in 1..h} = {t[i] : i \in 1..h}
  <2>1. \A i \in 1..h : i \in 1..Len(s)
    BY <1>1
  <2> QED
    BY <1>1, <2>1
<1>4. ASSUME NEW m \in h..Len(s)
      PROVE  /\ m \in h..Len(t)
             /\ SubSeq(s, 1, AtMost(m, Room)) = SubSeq(t, 1, AtMost(m, Room))
  <2>1. PICK a : a = AtMost(m, Room)
    OBVIOUS
  <2>2. a \in 0..Len(s) /\ a \in 0..Len(t) /\ a \in Nat
    BY <1>1, <2>1, BoundsTyped DEF AtMost
  <2>3. SubSeq(s, 1, a) \in Seq(Names) /\ Len(SubSeq(s, 1, a)) = a
        /\ \A i \in 1..a : SubSeq(s, 1, a)[i] = s[i]
    BY <2>2
  <2>4. SubSeq(t, 1, a) \in Seq(Names) /\ Len(SubSeq(t, 1, a)) = a
        /\ \A i \in 1..a : SubSeq(t, 1, a)[i] = t[i]
    BY <2>2
  <2>5. \A i \in 1..a : i \in 1..Len(s)
    BY <1>1, <2>2
  <2>6. SubSeq(s, 1, a) = SubSeq(t, 1, a)
    <3>1. \A i \in 1..a : SubSeq(s, 1, a)[i] = SubSeq(t, 1, a)[i]
      BY <1>1, <2>3, <2>4, <2>5
    <3> QED
      BY <3>1, <2>3, <2>4, SeqEqual
  <2>7. m \in h..Len(t)
    BY <1>1
  <2>8. SubSeq(s, 1, AtMost(m, Room)) = SubSeq(t, 1, AtMost(m, Room))
    BY <2>1, <2>6
  <2> QED
    BY <2>7, <2>8
<1> QED
  BY <1>2, <1>3, <1>4 DEF Given

(* A volume that grew, or whose sizes grew, is read as before.             *)
LEMMA GrownReads ==
  ASSUME VInv, Sound(vol'), Extends(vol, vol')
  PROVE  /\ \A p \in Tree : IsDir(p) /\ ~Local(p) =>
              /\ get_cluster_number(vol', p) = get_cluster_number(vol, p)
              /\ get_cluster_number(vol, p) # Wrong
              /\ \A l : Given(Listed(vol, p), l) => Given(Listed(vol', p), l)
         /\ \A q \in DOMAIN cache : ~Local(q) =>
              /\ Route(vol', q) = Route(vol, q) /\ Route(vol, q) # Wrong
              /\ get_dentry(vol, q) # {} => get_dentry(vol', q) = get_dentry(vol, q)
<1>0. Sound(vol) /\ CacheOK
  BY DEF VInv, TInv
<1>1. ASSUME NEW p \in Tree, IsDir(p), ~Local(p)
      PROVE  /\ get_cluster_number(vol', p) = get_cluster_number(vol, p)
             /\ get_cluster_number(vol, p) # Wrong
             /\ \A l : Given(Listed(vol, p), l) => Given(Listed(vol', p), l)
  <2>1. get_cluster_number(vol, p) # Wrong
    BY <1>1, DirRoute
  <2>2. get_cluster_number(vol', p) = get_cluster_number(vol, p)
    BY <2>1, <1>0, RouteKept
  <2>3. /\ Begins(Listed(vol, p), Listed(vol', p))
        /\ Listed(vol, p) \in Seq(Names) /\ Listed(vol', p) \in Seq(Names)
    BY <2>2, <1>0, ListedKept
  <2> QED
    BY <2>1, <2>2, <2>3, GivenStays
<1>2. ASSUME NEW q \in DOMAIN cache, ~Local(q)
      PROVE  /\ Route(vol', q) = Route(vol, q) /\ Route(vol, q) # Wrong
             /\ get_dentry(vol, q) # {} => get_dentry(vol', q) = get_dentry(vol, q)
  <2>1. q \in Nodes /\ q \in Tree /\ IsDir(Parent(q)) /\ Parent(q) \in Tree
    BY <1>0, DentryTyped
  <2>2. AtOrAbove(Parent(q), q)
    BY <2>1, AboveParent DEF AtOrAbove
  <2>3. ~Local(Parent(q))
    BY <2>1, <2>2, <1>0, <1>2, LocalBelow
  <2>4. Route(vol', q) = Route(vol, q) /\ Route(vol, q) # Wrong
    BY <1>1, <2>1, <2>3 DEF Route
  <2>5. get_dentry(vol, q) # {} => get_dentry(vol', q) = get_dentry(vol, q)
    BY <2>4, <1>0, SearchKept DEF get_dentry
  <2> QED
    BY <2>4, <2>5
<1> QED
  BY <1>1, <1>2

(* A write changes a size and a length.                                    *)
Longer(m, n) == IF n > m THEN n ELSE m

(* The entry that a write leaves has the name of the one it found.         *)
LEMMA WrittenEntry ==
  ASSUME NEW e \in EntryType, NEW pos \in Nat, NEW k \in Nat
  PROVE  LET f == Written(e, pos, k) IN
         /\ f \in EntryType /\ f.dir = e.dir /\ f.name = e.name /\ f.kind = e.kind
         /\ f.size = e.size + k /\ f.len = Longer(e.len, pos + k)
<1>1. e \in [dir : Nat, name : Names, kind : Kinds, size : Nat, len : Nat]
  BY DEF EntryType
<1>2. pos + k \in Nat /\ e.size + k \in Nat /\ e.len \in Nat
  BY <1>1
<1> QED
  BY <1>1, <1>2 DEF EntryType, Written, Longer

(* The volume with such an entry in the place of the old one.              *)
LEMMA WrittenVolume ==
  ASSUME NEW v, Sound(v), NEW i \in DOMAIN v, NEW e \in EntryType,
         e.dir = v[i].dir, e.name = v[i].name, e.kind = v[i].kind,
         NEW w, w = [v EXCEPT ![i] = e]
  PROVE  /\ Sound(w) /\ Extends(v, w) /\ Extends(w, v) /\ DOMAIN w = DOMAIN v
         /\ \A j \in DOMAIN v : w[j] = IF j = i THEN e ELSE v[j]
<1>1. /\ v \in Seq(EntryType) /\ Len(v) <= MaxEntries /\ \A j \in DOMAIN v : v[j].dir < j
      /\ DOMAIN v = 1..Len(v) /\ Len(v) \in Nat
  BY VolumeTyped DEF Sound
<1>2. w \in Seq(EntryType) /\ Len(w) = Len(v)
      /\ \A j \in 1..Len(v) : w[j] = IF j = i THEN e ELSE v[j]
  BY <1>1, ExceptSeq
<1>3. DOMAIN w = DOMAIN v
  OBVIOUS
<1>4. \A j \in DOMAIN v : w[j].dir = v[j].dir /\ w[j].name = v[j].name /\ w[j].kind = v[j].kind
  BY <1>1, <1>2
<1>5. Sound(w)
  BY <1>1, <1>2, <1>3, <1>4 DEF Sound
<1>6. Extends(v, w) /\ Extends(w, v)
  BY <1>1, <1>2, <1>3, <1>4 DEF Extends
<1> QED
  BY <1>1, <1>2, <1>3, <1>5, <1>6

(* What a write that succeeds does.                                        *)
WritesTo(i, k, pos, after) ==
  /\ i \in get_dentry(vol, handle.path)
  /\ vol' = [vol EXCEPT ![i] = Written(@, pos, k)]
  /\ handle' = [handle EXCEPT !.pos = after]
  /\ UNCHANGED <<cache, listing, state>>

(* Where the handle stands and on with it, or at the client's position.    *)
WritesOn(i, k) ==
  \/ WritesTo(i, k, handle.pos, handle.pos + k)
  \/ \E pos \in 0..MaxSize : WritesTo(i, k, pos, handle.pos)

(* mfs_write changes one entry of the volume, or wrecks it, or hangs.      *)
LEMMA WriteCases ==
  ASSUME NEW k, NEW pos, NEW after, mfs_write(k, pos, after)
  PROVE  \/ /\ Misrouted(handle.path) \/ get_dentry(vol, handle.path) = {}
            /\ handle # NoHandle /\ \E s \in {"hung", "wrecked"} : Fail(s)
         \/ ~Misrouted(handle.path) /\ handle # NoHandle /\ \E i \in DOMAIN vol : WritesTo(i, k, pos, after)
<1>1. get_dentry(vol, handle.path) \subseteq DOMAIN vol
  BY DEF get_dentry, Search
<1>2. CASE Misrouted(handle.path)
  <2>1. handle # NoHandle /\ \E s \in {"hung", "wrecked"} : Fail(s)
    BY <1>2 DEF mfs_write
  <2> QED
    BY <2>1, <1>2
<1>3. CASE ~Misrouted(handle.path)
  <2>1. handle # NoHandle
    BY DEF mfs_write
  <2>2. \/ get_dentry(vol, handle.path) = {} /\ Fail("wrecked")
        \/ \E i \in get_dentry(vol, handle.path) :
             /\ vol' = [vol EXCEPT ![i] = Written(@, pos, k)]
             /\ handle' = [handle EXCEPT !.pos = after]
             /\ UNCHANGED <<cache, listing, state>>
    BY <1>3 DEF mfs_write
  <2> QED
    BY <1>1, <1>3, <2>1, <2>2 DEF WritesTo
<1> QED
  BY <1>2, <1>3

(* mfs_write keeps the invariant: only a size changes, so every search     *)
(* finds the same entry as before.                                         *)
LEMMA WriteKeeps ==
  ASSUME VInv, NEW k \in 1..MaxLen, NEW pos \in Nat, NEW after \in Nat,
         after <= handle.pos + k, mfs_write(k, pos, after)
  PROVE  VInv'
<1>0. /\ TInv /\ Sound(vol) /\ CacheOK /\ OpenOK /\ OpenTyped /\ PinnedIs
      /\ CacheAgrees /\ HandleFits /\ ListingFits /\ state \in {"ok", "hung", "wrecked"}
  BY DEF VInv, TInv
<1>1. CASE \E s \in {"hung", "wrecked"} : Fail(s)
  BY <1>1, FailKeeps
<1>2. ASSUME NEW i \in DOMAIN vol, WritesTo(i, k, pos, after), handle # NoHandle PROVE VInv'
  <2>1. /\ i \in get_dentry(vol, handle.path)
        /\ vol' = [vol EXCEPT ![i] = Written(@, pos, k)]
        /\ handle' = [handle EXCEPT !.pos = after]
        /\ UNCHANGED <<cache, listing, state>>
    BY <1>2 DEF WritesTo
  <2>2. k \in Nat /\ handle.pos \in Nat /\ handle \in [path : Tree, pos : Nat]
    BY <1>0, BoundsTyped DEF OpenTyped
  <2>3. handle'.path = handle.path /\ handle'.pos = after /\ handle' \in [path : Tree, pos : Nat]
    BY <2>1, <2>2
  <2>4. /\ Sound(vol') /\ Extends(vol, vol') /\ Extends(vol', vol) /\ DOMAIN vol' = DOMAIN vol
        /\ \A j \in DOMAIN vol : j # i => vol'[j] = vol[j]
        /\ vol'[i].size = vol[i].size + k
    <3> DEFINE e == Written(vol[i], pos, k)
    <3>1. vol' = [vol EXCEPT ![i] = e]
      BY <2>1
    <3>2. vol[i] \in EntryType
      BY <1>0, VolumeTyped
    <3>3. /\ e \in EntryType /\ e.dir = vol[i].dir /\ e.name = vol[i].name /\ e.kind = vol[i].kind
          /\ e.size = vol[i].size + k
      BY <2>2, <3>2, WrittenEntry
    <3> HIDE DEF e
    <3>4. /\ Sound(vol') /\ Extends(vol, vol') /\ Extends(vol', vol) /\ DOMAIN vol' = DOMAIN vol
          /\ \A j \in DOMAIN vol : vol'[j] = IF j = i THEN e ELSE vol[j]
      BY <1>0, <3>1, <3>3, WrittenVolume
    <3> QED
      BY <3>3, <3>4
  <2>5. \A p \in Tree : get_cluster_number(vol', p) = get_cluster_number(vol, p)
    BY <1>0, <2>4, RouteSame
  <2>6. \A d, n, K : Search(vol', d, n, K) = Search(vol, d, n, K)
    BY <1>0, <2>4, SearchSame
  <2>7. ASSUME NEW q \in Tree, Parent(q) \in Tree
        PROVE  /\ Route(vol', q) = Route(vol, q)
               /\ OnVolume(q)' = OnVolume(q) /\ get_dentry(vol', q) = get_dentry(vol, q)
    BY <2>5, <2>6, <2>7 DEF Route, OnVolume, get_dentry
  <2>8. \A j \in DOMAIN vol : vol'[j].kind = vol[j].kind
    BY <2>4 DEF Extends
  <2>9. TInv'
    <3>1. OpenTyped' /\ OpenOK'
      <4>1. (handle = NoHandle \/ Cached(handle.path, {"file"}))'
        BY <1>0, <1>2, <2>1, <2>3 DEF OpenOK, Cached
      <4>2. IsDir(listing.path)'
        BY <1>0, <2>1 DEF OpenOK, IsDir, Cached
      <4>3. OpenTyped'
        BY <1>0, <2>1, <2>3 DEF OpenTyped
      <4> QED
        BY <4>1, <4>2, <4>3 DEF OpenOK
    <3>2. CacheOK' /\ PinnedIs'
      BY <1>0, <2>1 DEF CacheOK, PinnedIs, IsDir, Cached
    <3> QED
      BY <1>0, <2>1, <2>4, <3>1, <3>2 DEF TInv
  <2>10. CacheAgrees'
    <3>1. ASSUME NEW q \in DOMAIN cache, ~Local(q) PROVE Agrees(q)'
      <4>1. q \in Tree /\ Parent(q) \in Tree
        BY <1>0, DentryTyped
      <4>2. Agrees(q)
        BY <1>0, <3>1 DEF CacheAgrees, Agrees
      <4>3. OnVolume(q) \subseteq DOMAIN vol
        BY DEF OnVolume, Search
      <4>4. OnVolume(q)' = OnVolume(q) /\ get_dentry(vol', q) = get_dentry(vol, q)
        BY <4>1, <2>7
      <4>5. KindOnVolume(q)' = KindOnVolume(q)
        <5>1. OnVolume(q) # {} => (CHOOSE j \in OnVolume(q) : TRUE) \in DOMAIN vol
          BY <4>3
        <5> QED
          BY <4>4, <5>1, <2>8 DEF KindOnVolume
      <4>6. mfs_getattr(q) # {} => mfs_getattr(q)' # {}
        BY <4>4 DEF mfs_getattr
      <4> QED
        BY <4>2, <4>5, <4>6, <2>1 DEF Agrees
    <3>2. \A q : Local(q)' <=> Local(q)
      BY <2>1 DEF Local
    <3> QED
      BY <3>1, <3>2, <2>1 DEF CacheAgrees, Agrees
  <2>11. HandleFits'
    <3>1. ASSUME ~Local(handle.path) PROVE \E j \in get_dentry(vol', handle.path) : handle'.pos <= vol'[j].size
      <4>1. PICK j \in get_dentry(vol, handle.path) : handle.pos <= vol[j].size
        BY <1>0, <1>2, <3>1 DEF HandleFits
      <4>2. j = i
        <5>1. \A a, b \in get_dentry(vol, handle.path) : a = b
          BY <1>0, SearchTyped DEF get_dentry
        <5> QED
          BY <5>1, <4>1, <2>1
      <4>3. get_dentry(vol', handle.path) = get_dentry(vol, handle.path)
        <5>1. handle.path \in Nodes
          BY <1>0, <1>2, OpenThere
        <5> QED
          BY <5>1, <2>7, NodeTyped DEF Tree
      <4>4. vol[i].size \in Nat
        BY <1>0, VolumeTyped
      <4>5. handle'.pos <= vol'[i].size
        BY <4>1, <4>2, <4>4, <2>2, <2>3, <2>4
      <4> QED
        BY <4>3, <4>5, <2>1
    <3>2. Local(handle.path)' <=> Local(handle.path)
      BY <2>1, <2>3 DEF Local
    <3>3. get_dentry(vol, handle.path)' = get_dentry(vol', handle.path)
      BY <2>3
    <3> QED
      BY <3>1, <3>2, <3>3 DEF HandleFits
  <2>12. ListingFits'
    <3>1. listing.path \in Tree
      BY <1>0, OpenThere
    <3>2. Listed(vol', listing.path) = Listed(vol, listing.path)
      BY <3>1, <1>0, <2>4, ListedSame
    <3>3. Listed(vol, listing.path)' = Listed(vol', listing.path) /\ listing' = listing
      BY <2>1
    <3>4. Local(listing.path)' <=> Local(listing.path)
      BY <2>1 DEF Local
    <3> QED
      BY <1>0, <3>2, <3>3, <3>4 DEF ListingFits
  <2> QED
    BY <2>9, <2>10, <2>11, <2>12 DEF VInv
<1> QED
  BY <1>1, <1>2, WriteCases

(* A read moves the handle, but not past the size of the entry it reads.   *)
LEMMA ReadKeeps ==
  ASSUME VInv, NEW k \in 1..MaxLen, mfs_read(k)
  PROVE  VInv'
<1>0. /\ TInv /\ OpenOK /\ OpenTyped /\ HandleFits /\ ListingFits
  BY DEF VInv, TInv
<1>1. CASE Fail("hung")
  BY <1>1, FailKeeps
<1>2. CASE ~Fail("hung")
  <2>1. /\ handle # NoHandle /\ handle' = [handle EXCEPT !.pos = @ + k]
        /\ UNCHANGED <<vol, cache, listing, state>>
    BY <1>2 DEF mfs_read
  <2>2. get_dentry(vol, handle.path) # {} =>
          \E i \in get_dentry(vol, handle.path) : handle.pos + k <= vol[i].size
    BY <1>2 DEF mfs_read, mfs_getattr
  <2>3. k \in Nat /\ handle.pos \in Nat /\ handle \in [path : Tree, pos : Nat]
    BY <1>0, BoundsTyped DEF OpenTyped
  <2>4. handle'.path = handle.path /\ handle'.pos = handle.pos + k /\ handle' \in [path : Tree, pos : Nat]
    BY <2>1, <2>3
  <2>5. OpenTyped'
    BY <1>0, <2>1, <2>4 DEF OpenTyped
  <2>6. OpenOK'
    BY <1>0, <2>1, <2>4 DEF OpenOK, Cached, IsDir
  <2>7. HandleFits'
    <3>1. Local(handle.path)' <=> Local(handle.path)
      BY <2>1, <2>4 DEF Local
    <3>2. get_dentry(vol, handle.path)' = get_dentry(vol, handle.path)
      BY <2>1, <2>4
    <3>3. ~Local(handle.path) => get_dentry(vol, handle.path) # {}
      BY <1>0, <2>1 DEF HandleFits
    <3>4. ~Local(handle.path) =>
            \E i \in get_dentry(vol, handle.path) : handle'.pos <= vol[i].size
      BY <2>2, <2>4, <3>3
    <3> QED
      BY <2>1, <3>1, <3>2, <3>4 DEF HandleFits
  <2>8. ListingFits'
    BY <1>0, <2>1 DEF ListingFits, Local
  <2> QED
    BY <2>1, <2>5, <2>6, <2>7, <2>8, HandKeeps
<1> QED
  BY <1>1, <1>2

(* An entry is added at the end.                                           *)
LEMMA AppendedVolume ==
  ASSUME NEW v, Sound(v), Len(v) < MaxEntries, NEW e \in EntryType, e.dir <= Len(v)
  PROVE  /\ Sound(Append(v, e)) /\ Extends(v, Append(v, e))
         /\ DOMAIN Append(v, e) = DOMAIN v \cup {Len(v) + 1} /\ Len(v) + 1 \notin DOMAIN v
         /\ Append(v, e)[Len(v) + 1] = e /\ \A i \in DOMAIN v : Append(v, e)[i] = v[i]
<1>1. /\ v \in Seq(EntryType) /\ \A i \in DOMAIN v : v[i].dir < i
      /\ DOMAIN v = 1..Len(v) /\ Len(v) \in Nat
  BY VolumeTyped DEF Sound
<1> DEFINE w == Append(v, e)
<1>2. /\ w \in Seq(EntryType) /\ Len(w) = Len(v) + 1 /\ w[Len(v) + 1] = e
      /\ \A i \in 1..Len(v) : w[i] = v[i]
  BY <1>1
<1> HIDE DEF w
<1>3. DOMAIN w = 1..(Len(v) + 1)
  BY <1>2, LenProperties
<1>4. DOMAIN w = DOMAIN v \cup {Len(v) + 1} /\ Len(v) + 1 \notin DOMAIN v
  BY <1>1, <1>3
<1>5. Sound(w)
  <2>1. e.dir < Len(v) + 1
    BY <1>1 DEF EntryType
  <2>2. \A i \in DOMAIN w : w[i].dir < i
    BY <1>1, <1>2, <1>4, <2>1
  <2>3. Len(w) <= MaxEntries
    BY <1>1, <1>2, BoundsTyped
  <2> QED
    BY <1>2, <2>2, <2>3 DEF Sound
<1>6. Extends(v, w)
  BY <1>1, <1>2 DEF Extends
<1> QED
  BY <1>1, <1>2, <1>4, <1>5, <1>6 DEF w

(* A search finds it when there was nothing, and it only.                  *)
Adds(v, w, l, d, n, kind) ==
  /\ Sound(v) /\ Sound(w) /\ DOMAIN w = DOMAIN v \cup {l} /\ l \notin DOMAIN v
  /\ \A i \in DOMAIN v : w[i] = v[i]
  /\ w[l].dir = d /\ w[l].name = n /\ w[l].kind = kind

(* A search in a volume with one more entry finds the entry when it is the *)
(* one looked for and none was there, and what it found before otherwise.  *)
LEMMA SearchAppended ==
  ASSUME NEW v, NEW w, NEW l, NEW d, NEW n, NEW kind, Adds(v, w, l, d, n, kind)
  PROVE  /\ \A d1, n1, K : d # d1 \/ n # n1 => Search(w, d1, n1, K) = Search(v, d1, n1, K)
         /\ \A K : kind \in K /\ Search(v, d, n, K) = {} => Search(w, d, n, K) = {l}
<1>0. /\ Sound(v) /\ Sound(w) /\ DOMAIN w = DOMAIN v \cup {l} /\ l \notin DOMAIN v
      /\ \A i \in DOMAIN v : w[i] = v[i]
      /\ w[l].dir = d /\ w[l].name = n /\ w[l].kind = kind
  BY DEF Adds
<1>1. ASSUME NEW d1, NEW n1, NEW K, d # d1 \/ n # n1
      PROVE  Search(w, d1, n1, K) = Search(v, d1, n1, K)
  <2>1. Match(w, d1, n1, K) = Match(v, d1, n1, K)
    BY <1>0, <1>1 DEF Match
  <2>2. Search(w, d1, n1, K) = {i \in Match(w, d1, n1, K) : \A j \in Match(w, d1, n1, K) : i <= j}
    BY DEF Search, Match
  <2>3. Search(v, d1, n1, K) = {i \in Match(v, d1, n1, K) : \A j \in Match(v, d1, n1, K) : i <= j}
    BY DEF Search, Match
  <2> QED
    BY <2>1, <2>2, <2>3
<1>2. ASSUME NEW K, kind \in K, Search(v, d, n, K) = {}
      PROVE  Search(w, d, n, K) = {l}
  <2>1. Match(v, d, n, K) = {}
    BY <1>0, <1>2, SearchTyped
  <2>2. Match(w, d, n, K) = {l}
    BY <1>0, <1>2, <2>1 DEF Match
  <2> QED
    BY <1>0, <2>2, SearchTyped
<1> QED
  BY <1>1, <1>2

(* No route leads past the entries.                                        *)
LEMMA RouteBound ==
  ASSUME NEW v, Sound(v), NEW p \in Tree, get_cluster_number(v, p) # Wrong
  PROVE  get_cluster_number(v, p) \in 0..Len(v)
<1>1. CASE p = <<>>
  BY <1>1, RouteStep, VolumeTyped DEF Root
<1>2. CASE p # <<>>
  <2>1. p \in Nodes
    BY <1>2 DEF Tree
  <2>2. get_cluster_number(v, p) \in DOMAIN v
    BY <2>1, RouteFound
  <2> QED
    BY <2>2, VolumeTyped
<1> QED
  BY <1>1, <1>2

(* The entry of a new name: a right route gives it a directory that is     *)
(* there.                                                                  *)
LEMMA NewEntry ==
  ASSUME VInv, NEW q \in Nodes, ~Misrouted(q), NEW kind \in Kinds, Len(vol) < MaxEntries,
         vol' = Append(vol, Entry(q, kind))
  PROVE  LET e == Entry(q, kind)
             l == Len(vol) + 1
         IN  /\ e \in EntryType /\ e.dir = Route(vol, q) /\ e.name = Last(q) /\ e.kind = kind
             /\ Sound(vol') /\ Extends(vol, vol')
             /\ DOMAIN vol' = DOMAIN vol \cup {l} /\ l \notin DOMAIN vol
             /\ vol'[l] = e /\ \A i \in DOMAIN vol : vol'[i] = vol[i]
<1>1. Sound(vol)
  BY DEF VInv, TInv
<1>2. Parent(q) \in Tree /\ Last(q) \in Names
  BY NodeTyped
<1>3. Route(vol, q) \in 0..Len(vol)
  BY <1>1, <1>2, RouteBound DEF Misrouted, Route
<1> DEFINE e == Entry(q, kind)
<1>4. /\ e \in EntryType /\ e.dir = Route(vol, q) /\ e.name = Last(q) /\ e.kind = kind
      /\ e.dir <= Len(vol)
  <2>1. Route(vol, q) \in Nat /\ Route(vol, q) <= Len(vol) /\ 0 \in Nat
    BY <1>1, <1>3, VolumeTyped
  <2> QED
    BY <2>1, <1>2 DEF Entry, EntryType
<1>5. vol' = Append(vol, e)
  OBVIOUS
<1> HIDE DEF e
<1> QED
  BY <1>1, <1>4, <1>5, AppendedVolume DEF e

(* create and mkdir: the name gets an entry, and its dentry says so or is  *)
(* local.                                                                  *)
LEMMA MakeKeeps ==
  ASSUME VInv, NEW q \in Nodes, Negative(q), ~Misrouted(q), NEW kind \in Kinds,
         Len(vol) < MaxEntries,
         vol' = Append(vol, Entry(q, kind)),
         NEW d \in Dentries, cache' = With(q, d), UNCHANGED <<handle, listing, state>>,
         d.from = "pinned" => d.kind \in Kinds,
         cache[q].from # "volume" => d.from # "volume",
         d.from = "volume" => d.kind = kind
  PROVE  VInv'
<1> DEFINE l == Len(vol) + 1
           e == Entry(q, kind)
<1>0. /\ TInv /\ Sound(vol) /\ CacheOK /\ CacheAgrees /\ HandleFits /\ ListingFits
      /\ state \in {"ok", "hung", "wrecked"}
  BY DEF VInv, TInv
<1>1. IsDir(Parent(q)) /\ Cached(q, {"none"}) /\ q \in DOMAIN cache /\ cache[q].kind = "none"
  BY DEF Negative, Cached
<1>2. /\ CacheOK' /\ OpenOK' /\ OpenTyped' /\ PinnedIs'
      /\ DOMAIN cache' = DOMAIN cache \cup {q} /\ cache'[q] = d
      /\ \A s \in DOMAIN cache : s # q => cache'[s] = cache[s]
      /\ \A s \in Tree : (s \in DOMAIN cache \/ s = <<>>) /\ s # q => (Local(s)' <=> Local(s))
      /\ Local(q)' <=> Local(Parent(q)) \/ d.from # "volume"
  BY <1>0, <1>1, AddOne
<1>3. /\ e \in EntryType /\ e.dir = Route(vol, q) /\ e.name = Last(q) /\ e.kind = kind
      /\ Sound(vol') /\ Extends(vol, vol')
      /\ DOMAIN vol' = DOMAIN vol \cup {l} /\ l \notin DOMAIN vol
      /\ vol'[l] = e /\ \A i \in DOMAIN vol : vol'[i] = vol[i]
  BY NewEntry
<1> HIDE DEF e, l
<1>4. /\ \A p \in Tree : IsDir(p) /\ ~Local(p) =>
           /\ get_cluster_number(vol', p) = get_cluster_number(vol, p)
           /\ get_cluster_number(vol, p) # Wrong
           /\ \A g : Given(Listed(vol, p), g) => Given(Listed(vol', p), g)
      /\ \A s \in DOMAIN cache : ~Local(s) =>
           /\ Route(vol', s) = Route(vol, s) /\ Route(vol, s) # Wrong
           /\ get_dentry(vol, s) # {} => get_dentry(vol', s) = get_dentry(vol, s)
  BY <1>3, GrownReads
<1>5. \A i \in DOMAIN vol : vol'[i].kind = vol[i].kind /\ vol'[i].size = vol[i].size
  BY <1>3
<1>6. TInv' /\ Adds(vol, vol', l, Route(vol, q), Last(q), kind)
  BY <1>0, <1>2, <1>3 DEF TInv, Adds
<1>15. /\ \A d1, n1, K : Route(vol, q) # d1 \/ Last(q) # n1
                          => Search(vol', d1, n1, K) = Search(vol, d1, n1, K)
       /\ \A K : kind \in K /\ Search(vol, Route(vol, q), Last(q), K) = {}
                   => Search(vol', Route(vol, q), Last(q), K) = {l}
  BY <1>6, SearchAppended
<1>7. handle.path \in Tree /\ (handle.path = <<>> \/ handle.path \in DOMAIN cache) /\ handle.path # q
  <2>1. q # <<>>
    BY NodeTyped
  <2>2. handle.path = <<>> \/ (handle.path \in DOMAIN cache /\ cache[handle.path].kind = "file")
    BY <1>0, OpenThere DEF Cached
  <2> QED
    BY <1>0, <1>1, <2>1, <2>2, OpenThere
<1>8. /\ listing.path \in Tree /\ (listing.path = <<>> \/ listing.path \in DOMAIN cache)
      /\ listing.path # q /\ IsDir(listing.path)
  <2>1. q # <<>>
    BY NodeTyped
  <2>2. listing.path = <<>> \/ (listing.path \in DOMAIN cache /\ cache[listing.path].kind = "dir")
    BY <1>0, OpenThere DEF Cached
  <2> QED
    BY <1>0, <1>1, <2>1, <2>2, OpenThere DEF IsDir, Cached
<1>9. (Local(handle.path)' <=> Local(handle.path)) /\ (Local(listing.path)' <=> Local(listing.path))
  <2> DEFINE D == {s \in Tree : (s \in DOMAIN cache \/ s = <<>>) /\ s # q}
  <2>1. handle.path \in D /\ listing.path \in D /\ \A s \in D : Local(s)' <=> Local(s)
    BY <1>2, <1>7, <1>8
  <2> HIDE DEF D
  <2> QED
    BY <2>1, OpenStays
<1>10. ASSUME NEW s \in DOMAIN cache', s # q, ~Local(s)' PROVE Agrees(s)'
  <2>1. s \in DOMAIN cache /\ s \in Nodes /\ s \in Tree /\ cache'[s] = cache[s] /\ ~Local(s)
    BY <1>0, <1>2, <1>10, DentryTyped
  <2>2. Route(vol', s) = Route(vol, s) /\ Route(vol, s) # Wrong
    BY <2>1, <1>4
  <2>3. Agrees(s)
    BY <2>1, <1>0 DEF CacheAgrees, Agrees
  <2>4. e.dir # Route(vol, s) \/ e.name # Last(s)
    <3>1. ASSUME Route(vol, q) = Route(vol, s), Last(q) = Last(s) PROVE FALSE
      <4>1. Parent(q) \in Tree /\ Parent(s) \in Tree
        BY <2>1, NodeTyped
      <4>2. Parent(q) = Parent(s)
        BY <3>1, <4>1, <2>2, <1>0, RouteOnce DEF Route
      <4> QED
        BY <4>2, <3>1, <2>1, <1>10, NodeEqual
    <3> QED
      BY <3>1, <1>3
  <2>5. \A K : Search(vol', Route(vol, s), Last(s), K) = Search(vol, Route(vol, s), Last(s), K)
    BY <2>4, <1>3, <1>15
  <2>6. OnVolume(s)' = OnVolume(s) /\ get_dentry(vol, s)' = get_dentry(vol, s)
    BY <2>2, <2>5 DEF OnVolume, get_dentry
  <2>7. OnVolume(s) \subseteq DOMAIN vol
    BY DEF OnVolume, Search
  <2>8. KindOnVolume(s)' = KindOnVolume(s)
    <3>1. OnVolume(s) # {} => (CHOOSE j \in OnVolume(s) : TRUE) \in DOMAIN vol
      BY <2>7
    <3> QED
      BY <2>6, <3>1, <1>5 DEF KindOnVolume
  <2>9. mfs_getattr(s) # {} => mfs_getattr(s)' # {}
    BY <2>6 DEF mfs_getattr
  <2> QED
    BY <2>1, <2>3, <2>8, <2>9 DEF Agrees
<1>11. ASSUME ~Local(q)' PROVE Agrees(q)'
  <2>1. ~Local(Parent(q)) /\ d.from = "volume" /\ d.kind = kind /\ cache[q].from = "volume"
    BY <1>2, <1>11
  <2>2. ~Local(q)
    <3>1. DOMAIN cache \subseteq Nodes /\ q \in Tree /\ Parent(q) \in Tree
      BY <1>0, NodeTyped, DentryTyped DEF Tree
    <3>2. Local(q) <=> LocalIn(cache, q)
      BY <3>1, LocalMeans DEF Local
    <3>3. Local(Parent(q)) <=> LocalIn(cache, Parent(q))
      BY <3>1, LocalMeans DEF Local
    <3> QED
      BY <2>1, <3>1, <3>2, <3>3, LocalStep
  <2>3. OnVolume(q) = {}
    <3>1. KindOnVolume(q) = "none"
      BY <2>2, <1>0, <1>1 DEF CacheAgrees
    <3> QED
      BY <3>1, <1>0, KindFound
  <2>4. Route(vol', q) = Route(vol, q)
    BY <1>1, <1>4, <2>2
  <2>5. Search(vol, Route(vol, q), Last(q), Kinds) = {}
    BY <2>3 DEF OnVolume
  <2>6. Search(vol', Route(vol, q), Last(q), Kinds) = {l}
    BY <2>5, <1>15
  <2>7. ASSUME kind = "file" PROVE Search(vol', Route(vol, q), Last(q), {"file"}) = {l}
    <3>1. Match(vol, Route(vol, q), Last(q), Kinds) = {}
      BY <2>5, <1>0, SearchTyped
    <3>2. Match(vol, Route(vol, q), Last(q), {"file"}) \subseteq Match(vol, Route(vol, q), Last(q), Kinds)
      BY DEF Match, Kinds
    <3>3. Search(vol, Route(vol, q), Last(q), {"file"}) = {}
      BY <3>1, <3>2, <1>0, SearchTyped
    <3> QED
      BY <3>3, <2>7, <1>15
  <2>8. OnVolume(q)' = {l}
    BY <2>4, <2>6 DEF OnVolume
  <2>9. KindOnVolume(q)' = kind
    BY <2>8, <1>3 DEF KindOnVolume
  <2>10. kind = "file" => mfs_getattr(q)' # {}
    BY <2>4, <2>7 DEF mfs_getattr, get_dentry
  <2> QED
    BY <2>1, <2>9, <2>10, <1>2 DEF Agrees
<1>12. CacheAgrees'
  BY <1>10, <1>11 DEF CacheAgrees, Agrees
<1>13. HandleFits'
  <2>1. ASSUME handle # NoHandle, ~Local(handle.path)
        PROVE  \E i \in get_dentry(vol', handle.path) : handle.pos <= vol'[i].size
    <3>1. PICK i \in get_dentry(vol, handle.path) : handle.pos <= vol[i].size
      BY <2>1, <1>0 DEF HandleFits
    <3>2. handle.path \in DOMAIN cache
      BY <2>1, <1>0, OpenThere DEF Cached
    <3>3. get_dentry(vol', handle.path) = get_dentry(vol, handle.path)
      BY <2>1, <3>1, <3>2, <1>4
    <3>4. i \in DOMAIN vol
      BY DEF get_dentry, Search
    <3> QED
      BY <3>1, <3>3, <3>4, <1>5
  <2> QED
    BY <2>1, <1>9 DEF HandleFits
<1>14. ListingFits'
  <2>1. ~Local(listing.path) => Given(Listed(vol', listing.path), listing)
    BY <1>0, <1>4, <1>8 DEF ListingFits
  <2> QED
    BY <2>1, <1>9 DEF ListingFits
<1> QED
  BY <1>6, <1>12, <1>13, <1>14 DEF VInv

(* mfs_create adds an entry to the volume and its dentry to the cache.     *)
LEMMA CreateKeeps ==
  ASSUME VInv, NEW q \in Nodes, mfs_create(q)
  PROVE  VInv'
<1>1. CASE Misrouted(q)
  BY <1>1, FailKeeps DEF mfs_create
<1>2. CASE ~Misrouted(q)
  <2> DEFINE d == Says("file", cache[q].from)
  <2>1. /\ Negative(q) /\ Len(vol) < MaxEntries
        /\ vol' = Append(vol, Entry(q, "file")) /\ cache' = With(q, d)
        /\ UNCHANGED <<handle, listing, state>>
    BY <1>2 DEF mfs_create
  <2>2. d \in Dentries /\ d.kind = "file" /\ d.from = cache[q].from /\ "file" \in Kinds
    <3>1. cache[q].from \in {"volume", "local", "pinned"}
      BY <2>1, DentryTyped DEF Negative, Cached, VInv, TInv
    <3> QED
      BY <3>1 DEF Says, Dentries, Kinds
  <2> HIDE DEF d
  <2> QED
    BY <2>1, <2>2, <1>2, MakeKeeps
<1> QED
  BY <1>1, <1>2

(* mfs_mkdir adds an entry to the volume; the dentry stays negative, and is*)
(* local from then on.                                                     *)
LEMMA MkdirKeeps ==
  ASSUME VInv, NEW q \in Nodes, mfs_mkdir(q)
  PROVE  VInv'
<1>1. CASE Misrouted(q)
  BY <1>1, FailKeeps DEF mfs_mkdir
<1>2. CASE ~Misrouted(q)
  <2> DEFINE d == Says("none", "local")
  <2>1. /\ Negative(q) /\ Len(vol) < MaxEntries
        /\ vol' = Append(vol, Entry(q, "dir")) /\ cache' = With(q, d)
        /\ UNCHANGED <<handle, listing, state>>
    BY <1>2 DEF mfs_mkdir
  <2>2. d \in Dentries /\ d.from = "local" /\ "dir" \in Kinds
    BY DEF Says, Dentries, Kinds
  <2> HIDE DEF d
  <2> QED
    BY <2>1, <2>2, <1>2, MakeKeeps
<1> QED
  BY <1>1, <1>2

-----------------------------------------------------------------------------
(* Rename.  To(q, r, s) is where s goes when q is moved to r.              *)

To(q, r, s) == r \o SubSeq(s, Len(q) + 1, Len(s))

(* The names of a path that was moved.                                     *)
LEMMA ToTyped ==
  ASSUME NEW q \in Tree, NEW r \in Tree, NEW s \in Tree, AtOrAbove(q, s)
  PROVE  /\ To(q, r, s) \in Seq(Names) /\ Len(To(q, r, s)) = Len(r) + (Len(s) - Len(q))
         /\ \A i \in 1..Len(r) : To(q, r, s)[i] = r[i]
         /\ \A i \in 1..(Len(s) - Len(q)) : To(q, r, s)[Len(r) + i] = s[Len(q) + i]
<1>1. /\ r \in Seq(Names) /\ s \in Seq(Names) /\ Len(r) \in Nat /\ Len(s) \in Nat /\ Len(q) \in Nat
      /\ Len(q) <= Len(s)
  BY UpTyped, AboveUp
<1> DEFINE t == SubSeq(s, Len(q) + 1, Len(s))
<1>2. /\ t \in Seq(Names) /\ Len(t) = Len(s) - Len(q)
      /\ \A i \in 1..(Len(s) - Len(q)) : t[i] = s[Len(q) + i]
  <2> DEFINE m == Len(q) + 1
             n == Len(s)
  <2>1. m \in Int /\ n \in Int /\ (\A i \in m..n : s[i] \in Names)
    <3>1. \A i \in m..n : i \in 1..Len(s)
      BY <1>1
    <3> QED
      BY <1>1, <3>1, ElementOfSeq
  <2>2. m <= n + 1 /\ n - m + 1 = Len(s) - Len(q) /\ (~(m <= n) => Len(s) - Len(q) = 0)
        /\ \A i \in Int : m + i - 1 = Len(q) + i
    BY <1>1
  <2> HIDE DEF m, n
  <2>3. /\ SubSeq(s, m, n) \in Seq(Names)
        /\ Len(SubSeq(s, m, n)) = IF m <= n THEN n - m + 1 ELSE 0
        /\ \A i \in 1..(n - m + 1) : SubSeq(s, m, n)[i] = s[m + i - 1]
    BY <2>1, SubSeqProperties
  <2>4. t = SubSeq(s, m, n)
    BY DEF m, n
  <2> HIDE DEF t
  <2>5. Len(t) = Len(s) - Len(q) /\ t \in Seq(Names)
    BY <2>2, <2>3, <2>4
  <2>6. \A i \in 1..(Len(s) - Len(q)) : t[i] = s[Len(q) + i]
    BY <2>2, <2>3, <2>4
  <2> QED
    BY <2>5, <2>6
<1> HIDE DEF t
<1>3. /\ r \o t \in Seq(Names) /\ Len(r \o t) = Len(r) + Len(t)
      /\ \A i \in 1..(Len(r) + Len(t)) : (r \o t)[i] = IF i <= Len(r) THEN r[i] ELSE t[i - Len(r)]
  BY <1>1, <1>2, ConcatProperties
<1>4. To(q, r, s) = r \o t
  BY DEF To, t
<1>5. \A i \in 1..Len(r) : (r \o t)[i] = r[i]
  <2>1. \A i \in 1..Len(r) : i \in 1..(Len(r) + Len(t)) /\ i <= Len(r)
    BY <1>1, <1>2
  <2> QED
    BY <2>1, <1>3
<1>6. \A i \in 1..(Len(s) - Len(q)) : (r \o t)[Len(r) + i] = s[Len(q) + i]
  <2>1. \A i \in 1..(Len(s) - Len(q)) :
          /\ Len(r) + i \in 1..(Len(r) + Len(t)) /\ ~(Len(r) + i <= Len(r))
          /\ (Len(r) + i) - Len(r) = i
    BY <1>1, <1>2
  <2> QED
    BY <2>1, <1>2, <1>3
<1>7. Len(r \o t) = Len(r) + (Len(s) - Len(q))
  BY <1>2, <1>3
<1> QED
  BY <1>3, <1>4, <1>5, <1>6, <1>7

(* A path is below where its top went, and comes back from there.          *)
LEMMA ToBack ==
  ASSUME NEW q \in Tree, NEW r \in Tree, NEW s \in Tree, AtOrAbove(q, s), To(q, r, s) \in Tree
  PROVE  AtOrAbove(r, To(q, r, s)) /\ To(r, q, To(q, r, s)) = s
<1> DEFINE t == To(q, r, s)
<1>1. /\ q \in Seq(Names) /\ r \in Seq(Names) /\ s \in Seq(Names)
      /\ Len(r) \in Nat /\ Len(s) \in Nat /\ Len(q) \in Nat /\ Len(q) <= Len(s)
      /\ Up(s, Len(q)) = q
  BY UpTyped, AboveUp
<1>2. /\ t \in Seq(Names) /\ Len(t) = Len(r) + (Len(s) - Len(q))
      /\ \A i \in 1..Len(r) : t[i] = r[i]
      /\ \A i \in 1..(Len(s) - Len(q)) : t[Len(r) + i] = s[Len(q) + i]
  BY ToTyped
<1>3. t \in Tree /\ Len(t) \in Nat
  BY UpTyped
<1> HIDE DEF t
<1>4. AtOrAbove(r, t)
  <2>1. Len(r) \in 0..Len(t)
    BY <1>1, <1>2, <1>3
  <2>2. Len(Up(t, Len(r))) = Len(r) /\ Up(t, Len(r)) \in Tree
        /\ \A i \in 1..Len(r) : Up(t, Len(r))[i] = t[i]
    BY <1>3, <2>1, UpTyped
  <2>3. Up(t, Len(r)) \in Seq(Names) /\ \A i \in 1..Len(r) : Up(t, Len(r))[i] = r[i]
    BY <1>2, <2>2, UpTyped
  <2>4. Up(t, Len(r)) = r
    BY <1>1, <2>2, <2>3, SeqEqual
  <2>5. Len(r) <= Len(t)
    BY <1>1, <1>2
  <2> QED
    BY <1>3, <2>4, <2>5, AboveUp
<1> DEFINE u == To(r, q, t)
<1>5. /\ u \in Seq(Names) /\ Len(u) = Len(q) + (Len(t) - Len(r))
      /\ \A i \in 1..Len(q) : u[i] = q[i]
      /\ \A i \in 1..(Len(t) - Len(r)) : u[Len(q) + i] = t[Len(r) + i]
  BY <1>3, <1>4, ToTyped
<1> HIDE DEF u
<1>6. Len(u) = Len(s) /\ Len(t) - Len(r) = Len(s) - Len(q)
  BY <1>1, <1>2, <1>5
<1>7. \A i \in 1..Len(q) : s[i] = q[i]
  <2>1. Len(q) \in 0..Len(s)
    BY <1>1
  <2>2. \A i \in 1..Len(q) : Up(s, Len(q))[i] = s[i]
    BY <2>1, UpTyped
  <2> QED
    BY <2>2, <1>1
<1>8. ASSUME NEW i \in 1..Len(u) PROVE u[i] = s[i]
  <2>1. CASE i <= Len(q)
    <3>1. i \in 1..Len(q)
      BY <2>1, <1>1, <1>6
    <3> QED
      BY <3>1, <1>5, <1>7
  <2>2. CASE ~ (i <= Len(q))
    <3>1. PICK j \in 1..(Len(s) - Len(q)) : i = Len(q) + j
      <4>1. i - Len(q) \in 1..(Len(s) - Len(q)) /\ i = Len(q) + (i - Len(q))
        BY <2>2, <1>1, <1>6
      <4> QED
        BY <4>1
    <3>2. u[Len(q) + j] = t[Len(r) + j] /\ t[Len(r) + j] = s[Len(q) + j]
      BY <1>2, <1>5, <1>6
    <3> QED
      BY <3>1, <3>2
  <2> QED
    BY <2>1, <2>2
<1>9. u = s
  BY <1>1, <1>5, <1>6, <1>8, SeqEqual
<1> QED
  BY <1>4, <1>9 DEF u, t

(* The top goes to its new name.                                           *)
LEMMA ToTop ==
  ASSUME NEW q \in Tree, NEW r \in Tree
  PROVE  To(q, r, q) = r
<1>1. /\ r \in Seq(Names) /\ Len(r) \in Nat /\ Len(q) \in Nat
  BY UpTyped
<1>2. /\ To(q, r, q) \in Seq(Names) /\ Len(To(q, r, q)) = Len(r) + (Len(q) - Len(q))
      /\ \A i \in 1..Len(r) : To(q, r, q)[i] = r[i]
  BY ToTyped DEF AtOrAbove
<1>3. Len(To(q, r, q)) = Len(r)
  BY <1>1, <1>2
<1> QED
  BY <1>1, <1>2, <1>3, SeqEqual

(* A path keeps its parent.                                                *)
LEMMA ToParent ==
  ASSUME NEW q \in Tree, NEW r \in Tree, NEW s \in Nodes, IsStrictPrefix(q, s), To(q, r, s) \in Nodes
  PROVE  Parent(To(q, r, s)) = To(q, r, Parent(s))
<1> DEFINE t == To(q, r, s)
           p == Parent(s)
           u == To(q, r, p)
           o == Parent(t)
<1>1. s \in Tree /\ p \in Tree /\ AtOrAbove(q, s) /\ AtOrAbove(q, p) /\ Len(q) < Len(s)
  BY NodeTyped, AboveParent DEF Tree, AtOrAbove
<1>2. /\ Len(r) \in Nat /\ Len(s) \in Nat /\ Len(q) \in Nat /\ Len(p) = Len(s) - 1
      /\ \A i \in 1..(Len(s) - 1) : p[i] = s[i]
  BY <1>1, UpTyped, NodeTyped
<1>3. /\ Len(t) = Len(r) + (Len(s) - Len(q))
      /\ \A i \in 1..Len(r) : t[i] = r[i]
      /\ \A i \in 1..(Len(s) - Len(q)) : t[Len(r) + i] = s[Len(q) + i]
  BY <1>1, ToTyped
<1>4. /\ u \in Seq(Names) /\ Len(u) = Len(r) + (Len(p) - Len(q))
      /\ \A i \in 1..Len(r) : u[i] = r[i]
      /\ \A i \in 1..(Len(p) - Len(q)) : u[Len(r) + i] = p[Len(q) + i]
  BY <1>1, ToTyped
<1>5. /\ o \in Seq(Names) /\ Len(o) = Len(t) - 1 /\ \A i \in 1..(Len(t) - 1) : o[i] = t[i]
  BY NodeTyped, UpTyped
<1> HIDE DEF t, p, u, o
<1>6. Len(o) = Len(u) /\ Len(u) = Len(t) - 1 /\ Len(u) \in Nat
  BY <1>1, <1>2, <1>3, <1>4, <1>5
<1>7. ASSUME NEW i \in 1..Len(o) PROVE o[i] = u[i]
  <2>1. o[i] = t[i]
    BY <1>5, <1>6
  <2>2. CASE i <= Len(r)
    <3>1. i \in 1..Len(r)
      BY <2>2, <1>2, <1>6
    <3> QED
      BY <2>1, <3>1, <1>3, <1>4
  <2>3. CASE ~ (i <= Len(r))
    <3>1. PICK j \in 1..(Len(p) - Len(q)) : i = Len(r) + j
      <4>1. i - Len(r) \in 1..(Len(p) - Len(q)) /\ i = Len(r) + (i - Len(r))
        BY <2>3, <1>2, <1>4, <1>6
      <4> QED
        BY <4>1
    <3>2. j \in 1..(Len(s) - Len(q)) /\ Len(q) + j \in 1..(Len(s) - 1)
      BY <1>2, <1>1
    <3>3. t[Len(r) + j] = s[Len(q) + j] /\ u[Len(r) + j] = p[Len(q) + j] /\ p[Len(q) + j] = s[Len(q) + j]
      BY <3>2, <1>2, <1>3, <1>4
    <3> QED
      BY <2>1, <3>1, <3>3
  <2> QED
    BY <2>2, <2>3
<1>8. o = u
  BY <1>4, <1>5, <1>6, <1>7, SeqEqual
<1> QED
  BY <1>8 DEF o, u, t, p

(* A tree of dentries takes a new name: all of it is local there.          *)
LEMMA RenameKeeps ==
  ASSUME VInv, NEW q \in Nodes, NEW r \in Nodes, simple_rename(q, r)
  PROVE  VInv'
<1> DEFINE moved == {q} \cup Under(q)
           dest == {To(q, r, s) : s \in moved}
           kept == DOMAIN cache \ (moved \cup {r} \cup Under(r))
           now(x) == Says(cache[x].kind, IF cache[x].from = "pinned" THEN "pinned" ELSE "local")
<1>0. TInv /\ CacheOK /\ OpenOK /\ OpenTyped /\ PinnedIs /\ state \in {"ok", "hung", "wrecked"}
  BY DEF VInv, TInv
<1>1. /\ q # r /\ ~IsStrictPrefix(q, r) /\ ~IsStrictPrefix(r, q)
      /\ Cached(q, Kinds) /\ IsDir(Parent(r))
      /\ simple_empty(r) /\ ~Held(r) /\ dest \subseteq Nodes
      /\ cache' = [s \in kept \cup dest |-> IF s \in kept THEN cache[s] ELSE now(To(r, q, s))]
      /\ handle' = [handle EXCEPT !.path = IF @ \in moved THEN To(q, r, @) ELSE @]
      /\ listing' = [listing EXCEPT !.path = IF @ \in moved THEN To(q, r, @) ELSE @]
      /\ UNCHANGED <<vol, state>>
  BY DEF simple_rename, To
<1>2. q \in Tree /\ r \in Tree /\ q # <<>> /\ r # <<>> /\ <<>> \in Tree /\ <<>> \notin Nodes
      /\ DOMAIN cache \subseteq Nodes /\ DOMAIN cache \subseteq Tree /\ Nodes \subseteq Tree
  BY <1>0, DentryTyped, NodeTyped DEF Tree
<1>3. /\ moved \subseteq DOMAIN cache /\ q \in moved
      /\ \A s \in DOMAIN cache : s \in moved <=> AtOrAbove(q, s)
      /\ \A s \in moved : AtOrAbove(q, s)
      /\ \A s \in DOMAIN cache : AtOrAbove(r, s) <=> s = r \/ s \in Under(r)
  BY <1>1 DEF Under, AtOrAbove, Cached
<1>4. kept \subseteq DOMAIN cache /\ \A s \in DOMAIN cache : s \in kept <=> ~AtOrAbove(q, s) /\ ~AtOrAbove(r, s)
  BY <1>3
<1>5. \A s \in moved : To(q, r, s) \in dest
  OBVIOUS
<1>6. \A x \in dest : \E s \in moved : x = To(q, r, s)
  OBVIOUS
<1> HIDE DEF moved, dest, kept, now
<1>7. ASSUME NEW s \in moved
      PROVE  /\ To(q, r, s) \in Nodes /\ AtOrAbove(r, To(q, r, s)) /\ To(r, q, To(q, r, s)) = s
             /\ To(q, r, s) \notin kept
             /\ To(q, r, s) \in DOMAIN cache' /\ cache'[To(q, r, s)] = now(s)
  <2>1. s \in Tree /\ AtOrAbove(q, s)
    BY <1>2, <1>3
  <2>2. To(q, r, s) \in dest /\ To(q, r, s) \in Nodes /\ To(q, r, s) \in Tree
    BY <1>1, <1>2, <1>5
  <2>3. AtOrAbove(r, To(q, r, s)) /\ To(r, q, To(q, r, s)) = s
    BY <2>1, <2>2, <1>2, ToBack
  <2>4. To(q, r, s) \notin kept
    BY <2>3, <1>4
  <2> QED
    BY <2>2, <2>3, <2>4, <1>1
<1>8. \A x \in kept : x \in DOMAIN cache' /\ cache'[x] = cache[x]
  BY <1>1
<1>9. DOMAIN cache' = kept \cup dest /\ DOMAIN cache' \subseteq Nodes
  BY <1>1, <1>2, <1>4
<1>10. ASSUME NEW s \in moved
       PROVE  /\ now(s) \in Dentries /\ now(s).from # "volume" /\ now(s).kind = cache[s].kind
              /\ now(s).from = "pinned" => now(s).kind \in Kinds
  <2>1. s \in DOMAIN cache /\ cache[s].kind \in Kinds \cup {"none"}
    BY <1>0, <1>3, DentryTyped
  <2>2. cache[s].from = "pinned" => cache[s].kind \in Kinds
    BY <2>1, <1>0 DEF PinnedIs
  <2> QED
    BY <2>1, <2>2 DEF now, Says, Dentries
<1>11. r \in DOMAIN cache' /\ cache'[r].from # "volume"
  <2>1. To(q, r, q) = r
    BY <1>2, ToTop
  <2> QED
    BY <2>1, <1>3, <1>7, <1>10
<1>12. ASSUME NEW x \in Tree, AtOrAbove(r, x) PROVE Local(x)'
  <2>1. LocalIn(cache', x)
    BY <1>11, <1>12 DEF LocalIn
  <2> QED
    BY <2>1, <1>2, <1>9, LocalSteps
<1>13. ASSUME NEW x \in Tree, x \in kept \/ x = <<>> PROVE ~AtOrAbove(q, x) /\ ~AtOrAbove(r, x)
  <2>1. ASSUME NEW o \in Nodes, AtOrAbove(o, <<>>) PROVE FALSE
    <3>1. Len(o) <= Len(<<>>)
      BY <2>1, <1>2, AboveUp
    <3> QED
      BY <3>1, NodeTyped
  <2> QED
    BY <2>1, <1>4, <1>13
<1>14. ASSUME NEW x \in Tree, x \in kept \/ x = <<>>, NEW p \in DOMAIN cache, AtOrAbove(p, x)
       PROVE  p \in kept
  <2>1. p \in Tree /\ ~AtOrAbove(q, x) /\ ~AtOrAbove(r, x)
    BY <1>2, <1>13, <1>14
  <2>2. ~AtOrAbove(q, p) /\ ~AtOrAbove(r, p)
    BY <2>1, <1>2, <1>14, AboveTrans
  <2> QED
    BY <2>2, <1>4
<1>15. ASSUME NEW x \in Tree, x \in kept \/ x = <<>> PROVE Local(x)' <=> Local(x)
  <2>1. LocalIn(cache, x) => LocalIn(cache', x)
    BY <1>8, <1>14, <1>15 DEF LocalIn
  <2>2. ASSUME NEW p \in DOMAIN cache', AtOrAbove(p, x), cache'[p].from # "volume"
        PROVE  p \in DOMAIN cache /\ cache[p].from # "volume"
    <3>1. p \notin dest
      <4>1. ASSUME p \in dest PROVE FALSE
        <5>1. AtOrAbove(r, p) /\ p \in Tree
          BY <4>1, <1>2, <1>6, <1>7
        <5>2. AtOrAbove(r, x)
          BY <5>1, <2>2, <1>2, AboveTrans
        <5> QED
          BY <5>2, <1>13, <1>15
      <4> QED
        BY <4>1
    <3>2. p \in kept
      BY <3>1, <1>9
    <3> QED
      BY <3>2, <2>2, <1>4, <1>8
  <2>3. LocalIn(cache', x) => LocalIn(cache, x)
    BY <2>2 DEF LocalIn
  <2> QED
    BY <2>1, <2>3, <1>2, <1>9, LocalSteps
<1>16. ASSUME NEW p, IsDir(p), p \in kept \/ p = <<>> PROVE IsDir(p)'
  BY <1>8, <1>16 DEF IsDir, Cached
<1>17. CacheOK'
  <2>1. ASSUME NEW x \in kept PROVE cache'[x] \in Dentries /\ IsDir(Parent(x))'
    <3>1. x \in Nodes /\ x \in Tree /\ cache[x] \in Dentries /\ IsDir(Parent(x)) /\ Parent(x) \in Tree
      BY <1>0, <1>2, <1>4, DentryTyped
    <3>2. AtOrAbove(Parent(x), x)
      BY <3>1, AboveParent DEF AtOrAbove
    <3>3. Parent(x) \in kept \/ Parent(x) = <<>>
      <4>1. Parent(x) = <<>> \/ Parent(x) \in DOMAIN cache
        BY <3>1 DEF IsDir, Cached
      <4> QED
        BY <4>1, <3>1, <3>2, <1>14
    <3> QED
      BY <3>1, <3>3, <1>8, <1>16
  <2>2. ASSUME NEW s \in moved
        PROVE  cache'[To(q, r, s)] \in Dentries /\ IsDir(Parent(To(q, r, s)))'
    <3>1. cache'[To(q, r, s)] \in Dentries
      BY <1>7, <1>10
    <3>2. CASE s = q
      <4>1. To(q, r, s) = r
        BY <3>2, <1>2, ToTop
      <4>2. Parent(r) \in Tree /\ ~AtOrAbove(q, Parent(r)) /\ ~AtOrAbove(r, Parent(r))
        <5>1. ~IsStrictPrefix(r, r)
          BY DEF IsStrictPrefix
        <5> QED
          BY <5>1, <1>1, <1>2, AboveParent, NodeTyped
      <4>3. Parent(r) \in kept \/ Parent(r) = <<>>
        BY <4>2, <1>1, <1>4 DEF IsDir, Cached
      <4> QED
        BY <3>1, <4>1, <4>3, <1>1, <1>16
    <3>3. CASE s # q
      <4>1. s \in Nodes /\ s \in DOMAIN cache /\ IsStrictPrefix(q, s)
        BY <3>3, <1>2, <1>3 DEF AtOrAbove
      <4>2. IsDir(Parent(s)) /\ Parent(s) \in Tree /\ AtOrAbove(q, Parent(s))
        BY <4>1, <1>0, <1>2, DentryTyped, AboveParent
      <4>3. Parent(s) # <<>>
        BY <4>2, <1>2, <1>13
      <4>4. Parent(s) \in DOMAIN cache /\ cache[Parent(s)].kind = "dir"
        BY <4>2, <4>3 DEF IsDir, Cached
      <4>5. Parent(s) \in moved
        BY <4>2, <4>4, <1>3
      <4>6. Parent(To(q, r, s)) = To(q, r, Parent(s))
        BY <4>1, <1>2, <1>7, ToParent
      <4>7. To(q, r, Parent(s)) \in DOMAIN cache' /\ cache'[To(q, r, Parent(s))].kind = "dir"
        BY <4>4, <4>5, <1>7, <1>10
      <4> QED
        BY <3>1, <4>6, <4>7 DEF IsDir, Cached
    <3> QED
      BY <3>2, <3>3
  <2>3. \A x \in DOMAIN cache' : cache'[x] \in Dentries /\ IsDir(Parent(x))'
    BY <2>1, <2>2, <1>6, <1>9
  <2> QED
    BY <2>3, <1>9 DEF CacheOK
<1>18. PinnedIs'
  <2>1. \A x \in kept : cache'[x].from = "pinned" => cache'[x].kind \in Kinds
    BY <1>0, <1>4, <1>8 DEF PinnedIs
  <2>2. \A x \in dest : cache'[x].from = "pinned" => cache'[x].kind \in Kinds
    BY <1>6, <1>7, <1>10
  <2> QED
    BY <2>1, <2>2, <1>9 DEF PinnedIs
<1>19. /\ handle \in [path : Tree, pos : Nat]
       /\ listing \in [path : Tree, pos : Nat, got : Seq(Names), had : SUBSET Names, over : BOOLEAN]
  BY <1>0 DEF OpenTyped
<1>21. ASSUME NEW p, NEW K \in SUBSET Kinds, Cached(p, K), p # r
       PROVE  /\ p \in moved => To(q, r, p) \in DOMAIN cache' /\ cache'[To(q, r, p)].kind \in K
              /\ p \notin moved => p \in kept /\ p \in DOMAIN cache' /\ cache'[p].kind \in K
  <2>1. p \in DOMAIN cache /\ cache[p].kind \in K
    BY <1>21 DEF Cached
  <2>2. ASSUME p \in moved PROVE To(q, r, p) \in DOMAIN cache' /\ cache'[To(q, r, p)].kind \in K
    BY <2>1, <2>2, <1>7, <1>10
  <2>3. ASSUME p \notin moved PROVE p \in kept /\ p \in DOMAIN cache' /\ cache'[p].kind \in K
    <3>1. p \notin Under(r)
      <4>1. cache[p].kind # "none"
        BY <2>1 DEF Kinds
      <4> QED
        BY <4>1, <1>1 DEF simple_empty
    <3>2. p \in kept
      BY <2>1, <2>3, <3>1, <1>21 DEF kept
    <3> QED
      BY <2>1, <3>2, <1>8
  <2> QED
    BY <2>2, <2>3
<1>22. handle.path # r /\ listing.path # r
  BY <1>1 DEF Held
<1>23. moved \subseteq Tree /\ \A s \in moved : To(q, r, s) \in Tree /\ AtOrAbove(r, To(q, r, s))
  BY <1>2, <1>3, <1>7
<1>24. handle.path \in moved \/ (handle.path \notin moved /\ handle' = handle
                                    /\ (handle.path \in kept \/ handle.path = <<>>))
  <2>1. handle.path = <<>> \/ Cached(handle.path, {"file"})
    BY <1>0, OpenThere
  <2>2. handle.path \notin moved => handle.path \in kept \/ handle.path = <<>>
    BY <2>1, <1>21, <1>22 DEF Kinds
  <2>3. handle.path \notin moved => handle' = handle
    BY <1>1, <1>19
  <2> QED
    BY <2>2, <2>3
<1>25. listing.path \in moved \/ (listing.path \notin moved /\ listing' = listing
                                    /\ (listing.path \in kept \/ listing.path = <<>>))
  <2>1. listing.path = <<>> \/ Cached(listing.path, {"dir"})
    BY <1>0, OpenThere
  <2>2. listing.path \notin moved => listing.path \in kept \/ listing.path = <<>>
    BY <2>1, <1>21, <1>22 DEF Kinds
  <2>3. listing.path \notin moved => listing' = listing
    BY <1>1, <1>19
  <2> QED
    BY <2>2, <2>3
<1>26. ASSUME handle.path \in moved
       PROVE  /\ handle'.path = To(q, r, handle.path) /\ handle' \in [path : Tree, pos : Nat]
              /\ Local(handle.path)' /\ Cached(handle.path, {"file"})'
  <2>1. PICK t \in Tree : t = To(q, r, handle.path)
    BY <1>23, <1>26
  <2>2. handle' = [handle EXCEPT !.path = t]
    BY <2>1, <1>1, <1>26
  <2>3. handle'.path = t /\ handle' \in [path : Tree, pos : Nat]
    BY <2>2, <1>19
  <2>4. Local(t)'
    BY <2>1, <1>12, <1>23, <1>26
  <2>5. Local(handle.path)'
    BY <2>3, <2>4 DEF Local
  <2>6. Cached(handle.path, {"file"})
    BY <1>0, <1>2, <1>3, <1>26, OpenThere
  <2>7. t \in DOMAIN cache' /\ cache'[t].kind \in {"file"}
    BY <2>1, <2>6, <1>21, <1>22, <1>26 DEF Kinds
  <2>8. Cached(handle.path, {"file"})'
    BY <2>3, <2>7 DEF Cached
  <2> QED
    BY <2>1, <2>3, <2>5, <2>8
<1>27. ASSUME listing.path \in moved
       PROVE  /\ listing' \in [path : Tree, pos : Nat, got : Seq(Names), had : SUBSET Names,
                                over : BOOLEAN]
              /\ Local(listing.path)' /\ IsDir(listing.path)'
  <2>1. PICK t \in Tree : t = To(q, r, listing.path)
    BY <1>23, <1>27
  <2>2. listing' = [listing EXCEPT !.path = t]
    BY <2>1, <1>1, <1>27
  <2>3. listing'.path = t
        /\ listing' \in [path : Tree, pos : Nat, got : Seq(Names), had : SUBSET Names, over : BOOLEAN]
    BY <2>2, <1>19
  <2>4. Local(t)'
    BY <2>1, <1>12, <1>23, <1>27
  <2>5. Local(listing.path)'
    BY <2>3, <2>4 DEF Local
  <2>6. Cached(listing.path, {"dir"})
    BY <1>0, <1>2, <1>3, <1>27, OpenThere
  <2>7. t \in DOMAIN cache' /\ cache'[t].kind \in {"dir"}
    BY <2>1, <2>6, <1>21, <1>22, <1>27 DEF Kinds
  <2>8. IsDir(listing.path)'
    BY <2>3, <2>7 DEF IsDir, Cached
  <2> QED
    BY <2>3, <2>5, <2>8
<1>28. OpenTyped'
  BY <1>19, <1>24, <1>25, <1>26, <1>27 DEF OpenTyped
<1>29. OpenOK'
  <2>1. (handle = NoHandle \/ Cached(handle.path, {"file"}))'
    <3>1. CASE handle.path \notin moved
      <4>1. handle' = handle
        BY <3>1, <1>24
      <4>2. handle = NoHandle \/ Cached(handle.path, {"file"})
        BY <1>0 DEF OpenOK
      <4>3. Cached(handle.path, {"file"}) => handle.path \in DOMAIN cache' /\ cache'[handle.path].kind \in {"file"}
        BY <3>1, <1>21, <1>22 DEF Kinds
      <4> QED
        BY <4>1, <4>2, <4>3 DEF Cached
    <3> QED
      BY <3>1, <1>26
  <2>2. IsDir(listing.path)'
    <3>1. CASE listing.path \notin moved
      <4>1. listing' = listing
        BY <3>1, <1>25
      <4>2. listing.path = <<>> \/ Cached(listing.path, {"dir"})
        BY <1>0 DEF OpenOK, IsDir
      <4>3. Cached(listing.path, {"dir"}) => listing.path \in DOMAIN cache' /\ cache'[listing.path].kind \in {"dir"}
        BY <3>1, <1>21, <1>22 DEF Kinds
      <4> QED
        BY <4>1, <4>2, <4>3 DEF Cached, IsDir
    <3> QED
      BY <3>1, <1>27
  <2> QED
    BY <2>1, <2>2 DEF OpenOK
<1>30. ~Local(handle.path)' => handle' = handle /\ ~Local(handle.path)
  <2>1. ASSUME handle' = handle, handle.path \in kept \/ handle.path = <<>>
        PROVE  Local(handle.path)' <=> Local(handle.path)
    <3>1. PICK p \in Tree : p = handle.path
      BY <1>19
    <3>2. Local(p)' <=> Local(p)
      BY <2>1, <3>1, <1>15
    <3> QED
      BY <2>1, <3>1, <3>2 DEF Local
  <2> QED
    BY <2>1, <1>24, <1>26
<1>31. ~Local(listing.path)' => listing' = listing /\ ~Local(listing.path)
  <2>1. ASSUME listing' = listing, listing.path \in kept \/ listing.path = <<>>
        PROVE  Local(listing.path)' <=> Local(listing.path)
    <3>1. PICK p \in Tree : p = listing.path
      BY <1>19
    <3>2. Local(p)' <=> Local(p)
      BY <2>1, <3>1, <1>15
    <3> QED
      BY <2>1, <3>1, <3>2 DEF Local
  <2> QED
    BY <2>1, <1>25, <1>27
<1>32. ASSUME NEW x \in DOMAIN cache', ~Local(x)'
       PROVE  x \in DOMAIN cache /\ cache'[x] = cache[x] /\ ~Local(x)
  <2>1. x \in Tree
    BY <1>2, <1>9
  <2>2. x \notin dest
    BY <2>1, <1>6, <1>12, <1>23, <1>32
  <2>3. x \in kept
    BY <2>2, <1>9
  <2> QED
    BY <2>1, <2>3, <1>4, <1>8, <1>15, <1>32
<1>33. vol' = vol /\ state' \in {"ok", "hung", "wrecked"}
  BY <1>0, <1>1
<1> QED
  BY <1>17, <1>18, <1>28, <1>29, <1>30, <1>31, <1>32, <1>33, CacheOnly

-----------------------------------------------------------------------------
(* The theorems.                                                           *)

(* An empty volume and an empty cache satisfy the invariant.               *)
LEMMA InitVInv ==
  ASSUME VfsInit
  PROVE  VInv
<1>1. vol = <<>> /\ cache = <<>> /\ handle = NoHandle /\ listing = NoListing /\ state = "ok"
  BY DEF VfsInit
<1>2. DOMAIN cache = {}
  BY <1>1
<1>3. Sound(vol)
  BY <1>1, EmptySeq, BoundsTyped DEF Sound
<1>4. CacheOK /\ PinnedIs /\ CacheAgrees
  BY <1>2 DEF CacheOK, PinnedIs, CacheAgrees
<1>5. OpenOK
  BY <1>1 DEF OpenOK, IsDir, NoListing
<1>6. OpenTyped
  BY <1>1, EmptySeq DEF OpenTyped, NoHandle, NoListing, Tree
<1>7. HandleFits
  BY <1>1 DEF HandleFits
<1>8. ListingFits
  <2> DEFINE names == Listed(vol, listing.path)
  <2>1. Len(names) \in Nat
    BY <1>3, ListedTyped
  <2> HIDE DEF names
  <2>2. 0 \in 0..Len(names) /\ {names[i] : i \in 1..0} = {}
    BY <2>1
  <2>3. Given(names, NoListing)
    BY <2>2 DEF Given, NoListing
  <2> QED
    BY <1>1, <2>3 DEF ListingFits, names
<1> QED
  BY <1>1, <1>3, <1>4, <1>5, <1>6, <1>7, <1>8 DEF VInv, TInv

(* Every step keeps it.                                                    *)
LEMMA NextVInv ==
  ASSUME VInv, [Next]_vars
  PROVE  VInv'
<1>1. ASSUME NEW q \in Nodes, mfs_lookup(q) PROVE VInv'
  BY <1>1, LookupKeeps
<1>2. ASSUME NEW q \in Nodes, mfs_create(q) PROVE VInv'
  BY <1>2, CreateKeeps
<1>3. ASSUME NEW q \in Nodes, mfs_mkdir(q) PROVE VInv'
  BY <1>3, MkdirKeeps
<1>4. ASSUME NEW q \in Nodes, mfs_mknod(q) PROVE VInv'
  BY <1>4, MadeInCacheKeeps DEF mfs_mknod
<1>5. ASSUME NEW q \in Nodes, simple_unlink(q) \/ simple_rmdir(q) PROVE VInv'
  BY <1>5, GoneKeeps
<1>6. ASSUME NEW q \in Nodes, Drop(q) PROVE VInv'
  BY <1>6, DropKeeps
<1>7. ASSUME NEW q \in Nodes, Open(q) PROVE VInv'
  BY <1>7, OpenKeeps
<1>8. ASSUME NEW q \in Nodes, NEW r \in Nodes, simple_link(q, r) PROVE VInv'
  BY <1>8, MadeInCacheKeeps DEF simple_link
<1>9. ASSUME NEW q \in Nodes, NEW r \in Nodes, simple_rename(q, r) PROVE VInv'
  BY <1>9, RenameKeeps
<1>10. ASSUME NEW k \in 1..MaxLen, Write(k) \/ Pwrite(k) \/ mfs_read(k) PROVE VInv'
  <2>1. k \in Nat /\ handle.pos \in Nat /\ MaxSize \in Nat
    BY VfsAssumption, BoundsTyped, OpenThere DEF VInv
  <2>2. handle.pos + k \in Nat /\ handle.pos <= handle.pos + k /\ 0..MaxSize \subseteq Nat
    BY <2>1
  <2>3. CASE Write(k)
    BY <2>1, <2>2, <2>3, WriteKeeps DEF Write
  <2>4. CASE Pwrite(k)
    BY <2>1, <2>2, <2>4, WriteKeeps DEF Pwrite
  <2>5. CASE mfs_read(k)
    BY <2>5, ReadKeeps
  <2> QED
    BY <1>10, <2>3, <2>4, <2>5
<1>11. ASSUME NEW p \in Nodes \cup {<<>>}, OpenDir(p) PROVE VInv'
  BY <1>11, OpenDirKeeps DEF Tree
<1>12. CASE mfs_readdir
  BY <1>12, ReaddirKeeps
<1>13. CASE Close
  BY <1>13, CloseKeeps
<1>14. CASE mfs_put_super
  BY <1>14, PutSuperKeeps
<1>15. CASE UNCHANGED vars
  <2>1. UNCHANGED <<vol, cache, handle, listing, state>>
    BY <1>15 DEF vars
  <2>2. OpenOK' /\ OpenTyped' /\ HandleFits' /\ ListingFits'
    BY <2>1 DEF VInv, TInv, OpenOK, OpenTyped, HandleFits, ListingFits, IsDir, Cached, Local
  <2> QED
    BY <2>1, <2>2, HandKeeps
<1> QED
  BY <1>1, <1>2, <1>3, <1>4, <1>5, <1>6, <1>7, <1>8, <1>9, <1>10, <1>11, <1>12, <1>13, <1>14, <1>15
  DEF Next

(* The invariant holds of every history of calls: what is cached from the  *)
(* volume is what the volume has, an open file is the entry it was opened  *)
(* as, and a listing is the head of what its directory holds (namei.c,     *)
(* file.c and dir.c).                                                      *)
THEOREM VfsAlways == Spec => []VInv
<1>1. VfsInit => VInv
  BY InitVInv
<1>2. VInv /\ [Next]_vars => VInv'
  BY NextVInv
<1> QED
  BY <1>1, <1>2, PTL DEF Spec

(* The types hold, what is open is cached, and so are the directories      *)
(* above what is cached.                                                   *)
THEOREM VfsTypes == Spec => []TypeOK
<1>1. VInv => TypeOK
  BY DEF VInv, TInv, TypeOK, Sound, EntryType, CacheOK, OpenOK
<1> QED
  BY <1>1, VfsAlways, PTL

(* A name that no operation of the cache alone has touched, nor a          *)
(* directory above it, says what a look at the volume would say.           *)
THEOREM CacheAlwaysAgrees == Spec => []CacheAgrees
<1>1. VInv => CacheAgrees
  BY DEF VInv
<1> QED
  BY <1>1, VfsAlways, PTL

(* What was given of a directory is its first names, each once, and all    *)
(* that there were when they fit.                                          *)
LEMMA GivenIsWhole ==
  ASSUME NEW names \in Seq(Names), NEW l, l.pos \in Nat, Given(names, l)
  PROVE  /\ Len(l.got) <= Len(names)
         /\ \A i \in DOMAIN l.got : l.got[i] = names[i]
         /\ l.over /\ Len(names) <= Room => l.had \subseteq Range(l.got)
<1>1. Len(names) \in Nat
  BY LenProperties
<1>2. PICK h \in 0..Len(names) :
        /\ l.had = {names[i] : i \in 1..h}
        /\ l.pos = 0 => l.got = <<>> /\ (l.over => l.had = {})
        /\ l.pos > 0 => \E m \in h..Len(names) : l.got = SubSeq(names, 1, AtMost(m, Room))
  BY DEF Given
<1>3. CASE l.pos = 0
  <2>1. Len(l.got) = 0 /\ DOMAIN l.got = {} /\ (l.over => l.had = {})
    BY <1>2, <1>3
  <2> QED
    BY <2>1, <1>1
<1>4. CASE l.pos > 0
  <2>1. PICK m \in h..Len(names) : l.got = SubSeq(names, 1, AtMost(m, Room))
    BY <1>2, <1>4
  <2>2. PICK a : a = AtMost(m, Room)
    OBVIOUS
  <2>3. a \in 0..Len(names) /\ (Len(names) <= Room => a = m) /\ m \in Nat
    BY <1>1, <2>2, BoundsTyped DEF AtMost
  <2> DEFINE s == SubSeq(names, 1, a)
  <2>4. s \in Seq(Names) /\ Len(s) = a /\ \A i \in 1..a : s[i] = names[i]
    BY <2>3
  <2> HIDE DEF s
  <2>5. DOMAIN s = 1..a
    BY <2>4, LenProperties
  <2>6. ASSUME Len(names) <= Room PROVE {names[i] : i \in 1..h} \subseteq Range(s)
    <3>1. \A i \in 1..h : i \in 1..a
      BY <2>3, <2>6, <1>1
    <3>2. \A i \in 1..h : names[i] = s[i] /\ i \in DOMAIN s
      BY <3>1, <2>4, <2>5
    <3> QED
      BY <3>2 DEF Range
  <2>7. l.got = s
    BY <2>1, <2>2 DEF s
  <2>8. Len(s) <= Len(names)
    BY <1>1, <2>3, <2>4
  <2> QED
    BY <1>2, <2>4, <2>5, <2>6, <2>7, <2>8
<1> QED
  BY <1>3, <1>4

(* One reading of a directory gives no entry twice, and misses none when   *)
(* they fit.                                                               *)
THEOREM ListingsAlwaysWhole == Spec => []ListingIsWhole
<1>1. ASSUME VInv PROVE ListingIsWhole
  <2> SUFFICES ASSUME ~Local(listing.path)
               PROVE  LET names == Listed(vol, listing.path) IN
                      /\ Len(listing.got) <= Len(names)
                      /\ \A i \in DOMAIN listing.got : listing.got[i] = names[i]
                      /\ listing.over /\ Len(names) <= Room => listing.had \subseteq Range(listing.got)
    BY DEF ListingIsWhole
  <2> DEFINE names == Listed(vol, listing.path)
  <2>1. Given(names, listing)
    BY <1>1 DEF VInv, ListingFits
  <2>2. listing.pos \in Nat
    BY <1>1 DEF VInv, TInv, OpenTyped
  <2>3. names \in Seq(Names)
    BY <1>1, ListedTyped DEF VInv, TInv
  <2> HIDE DEF names
  <2>4. /\ Len(listing.got) <= Len(names)
        /\ \A i \in DOMAIN listing.got : listing.got[i] = names[i]
        /\ listing.over /\ Len(names) <= Room => listing.had \subseteq Range(listing.got)
    BY <2>1, <2>2, <2>3, GivenIsWhole
  <2> QED
    BY <2>4 DEF names
<1>2. VInv => ListingIsWhole
  BY <1>1
<1> QED
  BY <1>2, VfsAlways, PTL

-----------------------------------------------------------------------------
(* What a step may do.                                                     *)

(* The three ways in which a step leaves the volume.                       *)
LEMMA VolumeSteps ==
  ASSUME [Next]_vars
  PROVE  \/ vol' = vol
         \/ \E q \in Nodes : \E kind \in Kinds :
              /\ Negative(q) /\ ~Misrouted(q) /\ Len(vol) < MaxEntries
              /\ vol' = Append(vol, Entry(q, kind))
         \/ \E k \in 1..MaxLen : \E i \in DOMAIN vol : WritesOn(i, k) /\ handle # NoHandle
<1>1. ASSUME NEW q \in Nodes, mfs_lookup(q) PROVE vol' = vol
  BY <1>1 DEF mfs_lookup, Fail
<1>2. ASSUME NEW q \in Nodes, mfs_create(q)
      PROVE  vol' = vol \/ (/\ Negative(q) /\ ~Misrouted(q) /\ Len(vol) < MaxEntries
                            /\ vol' = Append(vol, Entry(q, "file")))
  BY <1>2 DEF mfs_create, Fail
<1>3. ASSUME NEW q \in Nodes, mfs_mkdir(q)
      PROVE  vol' = vol \/ (/\ Negative(q) /\ ~Misrouted(q) /\ Len(vol) < MaxEntries
                            /\ vol' = Append(vol, Entry(q, "dir")))
  BY <1>3 DEF mfs_mkdir, Fail
<1>4. ASSUME NEW q \in Nodes, mfs_mknod(q) PROVE vol' = vol
  BY <1>4 DEF mfs_mknod
<1>5. ASSUME NEW q \in Nodes, simple_unlink(q) \/ simple_rmdir(q) PROVE vol' = vol
  BY <1>5 DEF simple_unlink, simple_rmdir, Gone
<1>6. ASSUME NEW q \in Nodes, Drop(q) PROVE vol' = vol
  BY <1>6 DEF Drop
<1>7. ASSUME NEW q \in Nodes, Open(q) PROVE vol' = vol
  BY <1>7 DEF Open
<1>8. ASSUME NEW q \in Nodes, NEW r \in Nodes, simple_link(q, r) PROVE vol' = vol
  BY <1>8 DEF simple_link
<1>9. ASSUME NEW q \in Nodes, NEW r \in Nodes, simple_rename(q, r) PROVE vol' = vol
  BY <1>9 DEF simple_rename
<1>10. ASSUME NEW k \in 1..MaxLen, Write(k) \/ Pwrite(k) \/ mfs_read(k)
       PROVE  vol' = vol \/ \E i \in DOMAIN vol : WritesOn(i, k) /\ handle # NoHandle
  <2>1. ASSUME NEW pos, NEW after, mfs_write(k, pos, after)
        PROVE  vol' = vol \/ \E i \in DOMAIN vol : WritesTo(i, k, pos, after) /\ handle # NoHandle
    BY <2>1, WriteCases DEF Fail
  <2>2. CASE Write(k)
    BY <2>1, <2>2 DEF Write, WritesOn
  <2>3. CASE Pwrite(k)
    BY <2>1, <2>3 DEF Pwrite, WritesOn
  <2>4. CASE mfs_read(k)
    BY <2>4 DEF mfs_read, Fail
  <2> QED
    BY <1>10, <2>2, <2>3, <2>4
<1>11. ASSUME NEW p \in Nodes \cup {<<>>}, OpenDir(p) PROVE vol' = vol
  BY <1>11 DEF OpenDir
<1>12. mfs_readdir \/ Close \/ mfs_put_super \/ UNCHANGED vars => vol' = vol
  BY DEF mfs_readdir, Close, mfs_put_super, Fail, vars
<1>13. "file" \in Kinds /\ "dir" \in Kinds
  BY DEF Kinds
<1> QED
  BY <1>1, <1>2, <1>3, <1>4, <1>5, <1>6, <1>7, <1>8, <1>9, <1>10, <1>11, <1>12, <1>13 DEF Next

(* The ways in which a call fails.                                         *)
LEMMA FailSteps ==
  ASSUME [Next]_vars, state = "ok", state' # "ok"
  PROVE  \/ \E q \in Nodes : IsDir(Parent(q)) /\ Misrouted(q)
         \/ /\ handle # NoHandle
            /\ Misrouted(handle.path) \/ get_dentry(vol, handle.path) = {}
         \/ \E q \in DOMAIN cache : cache[q].from = "pinned"
<1>1. ASSUME NEW q \in Nodes, mfs_lookup(q) \/ mfs_create(q) \/ mfs_mkdir(q)
      PROVE  IsDir(Parent(q)) /\ Misrouted(q)
  BY <1>1 DEF mfs_lookup, mfs_create, mfs_mkdir, Negative
<1>2. ASSUME NEW k \in 1..MaxLen, Write(k) \/ Pwrite(k) \/ mfs_read(k)
      PROVE  /\ handle # NoHandle
             /\ Misrouted(handle.path) \/ get_dentry(vol, handle.path) = {}
  <2>1. ASSUME NEW i, NEW pos, NEW after, WritesTo(i, k, pos, after) PROVE FALSE
    BY <2>1 DEF WritesTo
  <2>2. CASE \E pos, after : mfs_write(k, pos, after)
    BY <2>1, <2>2, WriteCases
  <2>3. CASE mfs_read(k)
    BY <2>3 DEF mfs_read
  <2> QED
    BY <1>2, <2>2, <2>3 DEF Write, Pwrite
<1>3. ASSUME mfs_put_super PROVE \E q \in DOMAIN cache : cache[q].from = "pinned"
  BY <1>3 DEF mfs_put_super
<1>4. ASSUME NEW q \in Nodes,
             mfs_mknod(q) \/ simple_unlink(q) \/ simple_rmdir(q) \/ Drop(q) \/ Open(q)
      PROVE  FALSE
  BY <1>4 DEF mfs_mknod, simple_unlink, simple_rmdir, Gone, Drop, Open
<1>5. ASSUME NEW q \in Nodes, NEW r \in Nodes, simple_link(q, r) \/ simple_rename(q, r) PROVE FALSE
  BY <1>5 DEF simple_link, simple_rename
<1>6. ASSUME NEW p \in Nodes \cup {<<>>}, OpenDir(p) PROVE FALSE
  BY <1>6 DEF OpenDir
<1>7. ASSUME mfs_readdir \/ Close \/ UNCHANGED vars PROVE FALSE
  BY <1>7 DEF mfs_readdir, Close, vars
<1> QED
  BY <1>1, <1>2, <1>3, <1>4, <1>5, <1>6, <1>7 DEF Next

(* A local path has a dentry at it or above it that is not the volume's    *)
(* word, and is there when the path is.                                    *)
LEMMA LocalName ==
  ASSUME VInv, NEW p \in Tree, IsDir(p) \/ Cached(p, {"file"}), Local(p)
  PROVE  \E o \in DOMAIN cache : Cached(o, Kinds) /\ cache[o].from # "volume"
<1>1. CacheOK /\ DOMAIN cache \subseteq Nodes
  BY DentryTyped DEF VInv, TInv
<1>2. PICK o \in DOMAIN cache : AtOrAbove(o, p) /\ cache[o].from # "volume"
  BY <1>1, LocalMeans DEF Local, LocalIn
<1>3. Cached(o, Kinds)
  <2>1. CASE IsDir(p)
    <3>1. Cached(o, {"dir"})
      BY <2>1, <1>1, <1>2, DirsAbove
    <3> QED
      BY <3>1 DEF Cached, Kinds
  <2>2. CASE Cached(p, {"file"})
    <3>1. CASE o = p
      BY <3>1, <2>2 DEF Cached, Kinds
    <3>2. CASE IsStrictPrefix(o, p)
      <4>1. p \in DOMAIN cache
        BY <2>2 DEF Cached
      <4>2. Cached(o, {"dir"})
        BY <4>1, <3>2, <1>1, CachedAbove
      <4> QED
        BY <4>2 DEF Cached, Kinds
    <3> QED
      BY <3>1, <3>2, <1>2 DEF AtOrAbove
  <2> QED
    BY <2>1, <2>2
<1> QED
  BY <1>2, <1>3

(* A directory gets a name twice, and a call hangs or destroys the volume, *)
(* only after the cache and the volume were told different things.         *)
THEOREM HarmComesByCache == Spec => HarmOnlyByCache
<1> DEFINE Twice ==
             Len(vol') > Len(vol) =>
               LET e == Last(vol') IN
               Search(vol, e.dir, e.name, Kinds) # {} =>
                 \E q \in DOMAIN cache : Last(q) = e.name /\ Route(vol, q) = e.dir /\ Local(q)
           Harm ==
             state = "ok" /\ state' # "ok" =>
               \E q \in DOMAIN cache : Cached(q, Kinds) /\ cache[q].from # "volume"
<1>1. ASSUME VInv, [Next]_vars PROVE Twice
  <2> SUFFICES ASSUME Len(vol') > Len(vol), Search(vol, Last(vol').dir, Last(vol').name, Kinds) # {}
               PROVE  \E q \in DOMAIN cache :
                        Last(q) = Last(vol').name /\ Route(vol, q) = Last(vol').dir /\ Local(q)
    OBVIOUS
  <2>1. Sound(vol) /\ vol \in Seq(EntryType) /\ Len(vol) \in Nat /\ CacheAgrees
    BY <1>1, VolumeTyped DEF VInv, TInv, Sound
  <2>2. CASE vol' = vol
    BY <2>1, <2>2
  <2>3. ASSUME NEW q \in Nodes, NEW kind \in Kinds, Negative(q), ~Misrouted(q), Len(vol) < MaxEntries,
               vol' = Append(vol, Entry(q, kind))
        PROVE  \E p \in DOMAIN cache :
                 Last(p) = Last(vol').name /\ Route(vol, p) = Last(vol').dir /\ Local(p)
    <3> DEFINE e == Entry(q, kind)
    <3>1. e \in EntryType /\ e.dir = Route(vol, q) /\ e.name = Last(q)
      BY <1>1, <2>3, NewEntry
    <3>2. vol' = Append(vol, e)
      BY <2>3
    <3> HIDE DEF e
    <3>3. Last(vol') = e
      BY <2>1, <3>1, <3>2 DEF Last
    <3>4. OnVolume(q) # {}
      BY <3>1, <3>3 DEF OnVolume
    <3>5. q \in DOMAIN cache /\ cache[q].kind = "none"
      BY <2>3 DEF Negative, Cached
    <3>6. Local(q)
      BY <2>1, <3>4, <3>5, KindFound DEF CacheAgrees
    <3> QED
      BY <3>1, <3>3, <3>5, <3>6
  <2>4. ASSUME NEW k \in 1..MaxLen, NEW i \in DOMAIN vol, WritesOn(i, k) PROVE FALSE
    <3>1. Len(vol') = Len(vol)
      BY <2>1, <2>4 DEF WritesTo, WritesOn
    <3> QED
      BY <3>1, <2>1
  <2> QED
    BY <1>1, <2>2, <2>3, <2>4, VolumeSteps
<1>2. ASSUME VInv, [Next]_vars PROVE Harm
  <2> SUFFICES ASSUME state = "ok", state' # "ok"
               PROVE  \E o \in DOMAIN cache : Cached(o, Kinds) /\ cache[o].from # "volume"
    OBVIOUS
  <2>1. ASSUME NEW q \in Nodes, IsDir(Parent(q)), Misrouted(q)
        PROVE  \E o \in DOMAIN cache : Cached(o, Kinds) /\ cache[o].from # "volume"
    <3>1. Local(Parent(q)) /\ Parent(q) \in Tree
      BY <1>2, <2>1, RightRoute, NodeTyped DEF Misrouted
    <3> QED
      BY <3>1, <1>2, <2>1, LocalName
  <2>2. ASSUME handle # NoHandle, Misrouted(handle.path) \/ get_dentry(vol, handle.path) = {}
        PROVE  \E o \in DOMAIN cache : Cached(o, Kinds) /\ cache[o].from # "volume"
    <3>1. PICK q \in Nodes : q = handle.path /\ Cached(q, {"file"})
      BY <1>2, <2>2, OpenThere DEF VInv
    <3>2. Misrouted(q) \/ get_dentry(vol, q) = {}
      BY <2>2, <3>1
    <3>3. Local(q)
      <4>1. ASSUME ~Local(q) PROVE FALSE
        <5>1. q \in DOMAIN cache /\ cache[q].kind = "file" /\ CacheOK /\ CacheAgrees
          BY <1>2, <3>1 DEF Cached, VInv, TInv
        <5>2. Parent(q) \in Tree /\ IsDir(Parent(q)) /\ q \in Tree /\ AtOrAbove(Parent(q), q)
          <6>1. Parent(q) \in Tree /\ q \in Tree
            BY NodeTyped DEF Tree
          <6> QED
            BY <6>1, <5>1, DentryTyped, AboveParent DEF AtOrAbove
        <5>3. ~Local(Parent(q))
          BY <4>1, <5>1, <5>2, LocalBelow
        <5>4. ~Misrouted(q)
          BY <1>2, <5>2, <5>3, RightRoute DEF Misrouted
        <5>5. get_dentry(vol, q) # {}
          BY <4>1, <5>1 DEF CacheAgrees, mfs_getattr
        <5> QED
          BY <3>2, <5>4, <5>5
      <4> QED
        BY <4>1
    <3>4. q \in Tree
      BY DEF Tree
    <3> QED
      BY <1>2, <3>1, <3>3, <3>4, LocalName
  <2>3. ASSUME NEW q \in DOMAIN cache, cache[q].from = "pinned"
        PROVE  \E o \in DOMAIN cache : Cached(o, Kinds) /\ cache[o].from # "volume"
    <3>1. cache[q].kind \in Kinds
      BY <1>2, <2>3 DEF VInv, TInv, PinnedIs
    <3>2. Cached(q, Kinds) /\ cache[q].from # "volume"
      BY <3>1, <2>3 DEF Cached
    <3> QED
      BY <3>2
  <2> QED
    BY <1>2, <2>1, <2>2, <2>3, FailSteps
<1>3. VInv /\ [Next]_vars => Twice /\ Harm
  BY <1>1, <1>2
<1>4. VInv /\ [Next]_vars => [Twice /\ Harm]_vars
  BY <1>3
<1> QED
  BY <1>4, VfsAlways, PTL DEF Spec, HarmOnlyByCache

(* What was written goes no further beyond the size that stat reports but  *)
(* by a write through a name that was moved or made in the cache, or at a  *)
(* position of the client's own.                                           *)
THEOREM StatAlwaysCovers == Spec => StatCoversFile
<1> DEFINE Further(i) == Excess(vol'[i]) > Excess(vol[i])
           Covers == \A i \in DOMAIN vol : Further(i) => Local(handle.path) \/ handle' = handle
<1>1. ASSUME VInv, [Next]_vars PROVE Covers
  <2>0. Sound(vol) /\ HandleFits /\ TInv /\ handle \in [path : Tree, pos : Nat]
    BY <1>1 DEF VInv, TInv, OpenTyped
  <2>1. ASSUME NEW i \in DOMAIN vol PROVE Excess(vol[i]) \in Nat
    <3>1. vol[i].size \in Nat /\ vol[i].len \in Nat
      BY <2>0, VolumeTyped
    <3> QED
      BY <3>1 DEF Excess
  <2>2. ASSUME NEW i \in DOMAIN vol, vol'[i] = vol[i] PROVE ~Further(i)
    BY <2>1, <2>2
  <2>3. CASE vol' = vol
    BY <2>2, <2>3
  <2>4. ASSUME NEW q \in Nodes, NEW kind \in Kinds, ~Misrouted(q), Len(vol) < MaxEntries,
               vol' = Append(vol, Entry(q, kind))
        PROVE  Covers
    <3>1. \A i \in DOMAIN vol : vol'[i] = vol[i]
      BY <1>1, <2>4, NewEntry
    <3> QED
      BY <2>2, <3>1
  <2>5. ASSUME NEW k, NEW pos, NEW i \in DOMAIN vol, WritesTo(i, k, pos, handle.pos) PROVE Covers
    BY <2>0, <2>5 DEF WritesTo
  <2>6. ASSUME NEW k \in 1..MaxLen, NEW i \in DOMAIN vol, handle # NoHandle,
               WritesTo(i, k, handle.pos, handle.pos + k)
        PROVE  Covers
    <3> SUFFICES ASSUME NEW j \in DOMAIN vol, Further(j), ~Local(handle.path) PROVE FALSE
      OBVIOUS
    <3> DEFINE e == Written(vol[i], handle.pos, k)
    <3>1. i \in get_dentry(vol, handle.path) /\ vol' = [vol EXCEPT ![i] = e]
      BY <2>6 DEF WritesTo
    <3>2. k \in Nat /\ handle.pos \in Nat /\ vol[i] \in EntryType
      BY <2>0, OpenThere, VolumeTyped, BoundsTyped
    <3>3. e.size = vol[i].size + k /\ e.len = Longer(vol[i].len, handle.pos + k)
      BY <3>2, WrittenEntry
    <3> HIDE DEF e
    <3>4. j = i
      <4>1. j # i => vol'[j] = vol[j]
        BY <3>1
      <4> QED
        BY <2>2, <4>1
    <3>5. PICK a \in get_dentry(vol, handle.path) : handle.pos <= vol[a].size
      BY <2>0, <2>6 DEF HandleFits
    <3>6. a = i
      <4>1. \A b, c \in get_dentry(vol, handle.path) : b = c
        BY <2>0, SearchTyped DEF get_dentry
      <4> QED
        BY <4>1, <3>1, <3>5
    <3>7. vol'[i] = e
      BY <3>1
    <3>8. vol[i].size \in Nat /\ vol[i].len \in Nat /\ Excess(e) > Excess(vol[i])
      BY <2>0, <3>4, <3>7, VolumeTyped
    <3>9. handle.pos <= vol[i].size
      BY <3>5, <3>6
    <3> QED
      BY <3>2, <3>3, <3>8, <3>9 DEF Longer, Excess
  <2> QED
    BY <1>1, <2>3, <2>4, <2>5, <2>6, VolumeSteps DEF WritesOn
<1>2. VInv /\ [Next]_vars => [Covers]_vars
  BY <1>1
<1> QED
  BY <1>2, VfsAlways, PTL DEF Spec, StatCoversFile
=============================================================================
