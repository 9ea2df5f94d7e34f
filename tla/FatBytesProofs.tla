--------------------------- MODULE FatBytesProofs ---------------------------
(***************************************************************************)
(* Proofs about FatBytes, for every size of the FAT, of a sector, of a     *)
(* byte and of a machine word.  The inductive invariant says that the      *)
(* bytes are bytes and that every entry, the padding of the super block    *)
(* included, reads as a cluster or as the end mark.  The lemmas are about  *)
(* positions: those of the entries do not overlap, an entry is read as it  *)
(* was written, and what a four-byte probe meets is the entry and its      *)
(* neighbour, or what lies behind the sector.                              *)
(***************************************************************************)
EXTENDS FatBytes, TLAPS

Byte == 0..(ByteBase - 1)
Bytes == [Positions -> Byte]
Value == Cluster \cup {EndMark}

(* Where the bytes of an entry are.                                        *)
At(i) == IF i = 0 THEN FatStart - 4 ELSE FatStart + 2 * (i - 2)

(* The arithmetic of words puts the entries there.                         *)
LEMMA PositionIs ==
  ASSUME NEW i \in Cluster
  PROVE  /\ Position(i) = At(i) /\ At(i) \in Nat /\ At(i) + 1 < FatEnd
         /\ At(i) >= FatStart - 4 /\ At(i) \in Positions /\ At(i) + 1 \in Positions
<1> USE FatAssumption, FatBytesAssumption
<1>1. CASE i = 0
  <2>1. (i - 2) % Word = Word - 2
    BY <1>1 DEF FatStart
  <2>2. (FatStart + 2 * (Word - 2)) % Word = FatStart - 4
    <3> DEFINE s == FatStart - 4
    <3>1. s \in Nat /\ s < Word /\ FatStart + 2 * (Word - 2) = s + 2 * Word /\ Word \in Nat
      BY DEF FatStart
    <3> HIDE DEF s
    <3>2. (s + 2 * Word) % Word = s
      BY <3>1
    <3> QED
      BY <3>1, <3>2 DEF s
  <2> QED
    BY <1>1, <2>1, <2>2 DEF Position, At, FatStart, FatEnd, Positions
<1>2. CASE i \in Index
  <2>1. i - 2 \in Nat /\ i - 2 < Word /\ i <= MaxIndex /\ i \in Int
    BY <1>2 DEF FatStart, Index
  <2>2. (i - 2) % Word = i - 2
    BY <2>1
  <2>3. FatStart + 2 * (i - 2) \in Nat /\ FatStart + 2 * (i - 2) < Word
    BY <2>1 DEF FatStart
  <2>4. (FatStart + 2 * (i - 2)) % Word = FatStart + 2 * (i - 2)
    BY <2>3
  <2> QED
    BY <1>2, <2>1, <2>2, <2>3, <2>4 DEF Position, At, FatStart, FatEnd, Positions, Index
<1> QED
  BY <1>1, <1>2 DEF Cluster

(* Entries do not overlap.                                                 *)
LEMMA EntriesApart ==
  ASSUME NEW i \in Cluster, NEW j \in Cluster, i # j
  PROVE  /\ At(i) # At(j) /\ At(i) # At(j) + 1 /\ At(i) + 1 # At(j)
         /\ At(i) + 1 # At(j) + 1
BY FatAssumption, FatBytesAssumption DEF At, Cluster, Index, FatStart

(* The two bytes of a value.                                               *)
LEMMA TwoBytes ==
  ASSUME NEW v \in Value
  PROVE  Low(v) \in Byte /\ High(v) \in Byte /\ Low(v) + ByteBase * High(v) = v
<1> USE FatAssumption, FatBytesAssumption
<1>1. v \in Nat /\ v < ByteBase * ByteBase
  BY DEF Value, Cluster, Index
<1> DEFINE l == v % ByteBase
           h == v \div ByteBase
<1>2. l \in Int /\ 0 <= l /\ l < ByteBase
  BY <1>1
<1>3. h \in Nat /\ h < ByteBase
  BY <1>1
<1>4. ByteBase * h + l = v
  BY <1>1
<1>5. Low(v) = l /\ High(v) = h
  BY DEF Low, High
<1> HIDE DEF l, h
<1>6. ByteBase * h \in Int
  BY <1>3
<1> QED
  BY <1>2, <1>3, <1>4, <1>5, <1>6 DEF Byte

(* An entry is read as it was written, and writing it changes no other     *)
(* entry and nothing outside the table.                                    *)
LEMMA ReadWritten ==
  ASSUME NEW b \in Bytes, NEW i \in Cluster, NEW v \in Value
  PROVE  /\ Write(b, i, v) \in Bytes
         /\ \A j \in Cluster : Read(Write(b, i, v), j) = IF j = i THEN v ELSE Read(b, j)
         /\ \A q \in Positions : q < FatStart - 4 \/ q >= FatEnd => Write(b, i, v)[q] = b[q]
<1>1. /\ Position(i) = At(i) /\ At(i) \in Nat /\ At(i) + 1 < FatEnd
      /\ At(i) >= FatStart - 4 /\ At(i) \in Positions /\ At(i) + 1 \in Positions
  BY PositionIs
<1>2. FatEnd \in Int /\ FatStart \in Int /\ Positions \subseteq Int
  BY FatAssumption, FatBytesAssumption DEF FatEnd, FatStart, Positions
<1>3. Low(v) \in Byte /\ High(v) \in Byte /\ Low(v) + ByteBase * High(v) = v
  BY TwoBytes
<1> DEFINE w == [b EXCEPT ![At(i)] = Low(v), ![At(i) + 1] = High(v)]
<1>4. Write(b, i, v) = w
  BY <1>1, <1>2 DEF Write
<1>5. w \in Bytes
  BY <1>1, <1>3 DEF Bytes
<1>6. /\ w[At(i)] = Low(v) /\ w[At(i) + 1] = High(v)
      /\ \A q \in Positions : q # At(i) /\ q # At(i) + 1 => w[q] = b[q]
  BY <1>1 DEF Bytes
<1> HIDE DEF w
<1>7. ASSUME NEW j \in Cluster
      PROVE  Read(w, j) = IF j = i THEN v ELSE Read(b, j)
  <2>1. /\ Position(j) = At(j) /\ At(j) \in Nat /\ At(j) + 1 < FatEnd
        /\ At(j) \in Positions /\ At(j) + 1 \in Positions
    BY PositionIs
  <2>2. /\ Read(w, j) = w[At(j)] + ByteBase * w[At(j) + 1]
        /\ Read(b, j) = b[At(j)] + ByteBase * b[At(j) + 1]
    BY <1>2, <2>1 DEF Read
  <2>3. CASE j = i
    BY <1>3, <1>6, <2>2, <2>3
  <2>4. CASE j # i
    <3>1. w[At(j)] = b[At(j)] /\ w[At(j) + 1] = b[At(j) + 1]
      BY <1>6, <2>1, <2>4, EntriesApart
    <3> QED
      BY <2>2, <2>4, <3>1
  <2> QED
    BY <2>3, <2>4
<1>8. ASSUME NEW q \in Positions, q < FatStart - 4 \/ q >= FatEnd
      PROVE  w[q] = b[q]
  BY <1>1, <1>2, <1>6, <1>8
<1> QED
  BY <1>4, <1>5, <1>7, <1>8

-----------------------------------------------------------------------------
(* The search.                                                             *)

Sector(i) == (i - 2) \div SectorIndices

(* The last index of a sector is the one that the next sector follows.     *)
LEMMA SectorOf ==
  ASSUME NEW i \in Index
  PROVE  /\ Sector(i) \in Sectors
         /\ SectorIndices * Sector(i) + 2 <= i
         /\ i < SectorIndices * (Sector(i) + 1) + 2
         /\ LastInSector(i) <=> i + 1 = SectorIndices * (Sector(i) + 1) + 2
<1> DEFINE S == SectorIndices
           s == Sector(i)
           k == (MaxIndex - 1) \div S
           q == (i - 1) \div S
<1>1. i \in Int /\ i >= 2 /\ i <= MaxIndex /\ MaxIndex \in Nat /\ S \in Nat \ {0}
  BY FatAssumption DEF Index
<1>2. s \in Int /\ S * s <= i - 2 /\ i - 2 < S * (s + 1)
  BY <1>1 DEF Sector
<1>3. k \in Int /\ MaxIndex - 1 = S * k
  BY <1>1, FatAssumption
<1>4. q \in Int /\ S * q <= i - 1 /\ i - 1 < S * (q + 1)
  <2>1. \A m \in Nat : m \div S \in Int /\ S * (m \div S) <= m /\ m < S * (m \div S + 1)
    BY <1>1
  <2>2. i - 1 \in Nat
    BY <1>1
  <2> HIDE DEF S
  <2> QED
    BY <2>1, <2>2
<1>5. LastInSector(i) <=> i - 1 = S * q
  <2>1. \A m \in Nat : m % S = 0 <=> m = S * (m \div S)
    BY <1>1
  <2>2. i - 1 \in Nat
    BY <1>1
  <2> HIDE DEF S
  <2> QED
    BY <2>1, <2>2 DEF LastInSector, S
<1> HIDE DEF s, k, q, S
<1>6. s >= 0
  <2> SUFFICES ASSUME s < 0 PROVE FALSE
    BY <1>2
  <2>1. S * (s + 1) <= 0
    BY <1>1, <1>2
  <2> QED
    BY <1>1, <1>2, <2>1
<1>7. s < k
  <2> SUFFICES ASSUME k <= s PROVE FALSE
    BY <1>2, <1>3
  <2>1. S * k <= S * s
    BY <1>1, <1>2, <1>3
  <2> QED
    BY <1>1, <1>2, <1>3, <2>1
<1>8. ASSUME i - 1 = S * q PROVE i - 1 = S * (s + 1)
  <2>1. CASE q <= s
    <3>1. S * q <= S * s
      BY <1>1, <1>2, <1>4, <2>1
    <3> QED
      BY <1>1, <1>2, <1>4, <1>8, <3>1
  <2>2. CASE q > s
    <3>1. S * (s + 1) <= S * q
      BY <1>1, <1>2, <1>4, <2>2
    <3>2. S * (s + 1) \in Int /\ S * q \in Int
      BY <1>1, <1>2, <1>4
    <3> QED
      BY <1>1, <1>2, <1>4, <1>8, <3>1, <3>2
  <2> QED
    BY <1>2, <1>4, <2>1, <2>2
<1>9. ASSUME i - 1 = S * (s + 1) PROVE i - 1 = S * q
  <2>1. CASE q <= s
    <3>1. S * (q + 1) <= S * (s + 1)
      BY <1>1, <1>2, <1>4, <2>1
    <3> QED
      BY <1>1, <1>2, <1>4, <1>9, <3>1
  <2>2. CASE q > s
    <3>1. S * (s + 1) <= S * q
      BY <1>1, <1>2, <1>4, <2>2
    <3>2. S * (s + 1) \in Int /\ S * q \in Int
      BY <1>1, <1>2, <1>4
    <3> QED
      BY <1>1, <1>2, <1>4, <1>9, <3>1, <3>2
  <2> QED
    BY <1>2, <1>4, <2>1, <2>2
<1>10. Sectors = 0..(k - 1)
  BY DEF Sectors, k, S
<1>11. S * s \in Int /\ S * (s + 1) \in Int
  BY <1>1, <1>2
<1>12. s \in 0..(k - 1)
  BY <1>2, <1>3, <1>6, <1>7
<1>13. LastInSector(i) <=> i + 1 = S * (s + 1) + 2
  BY <1>1, <1>5, <1>8, <1>9, <1>11
<1>14. S * s + 2 <= i /\ i < S * (s + 1) + 2
  BY <1>1, <1>2, <1>11
<1> QED
  BY <1>10, <1>12, <1>13, <1>14 DEF s, S

(* An entry is 0 if its two bytes are.                                     *)
LEMMA ZeroBytes ==
  ASSUME NEW b \in Bytes, NEW i \in Cluster
  PROVE  Read(b, i) = 0 <=> b[At(i)] = 0 /\ b[At(i) + 1] = 0
<1>1. /\ Position(i) = At(i) /\ At(i) \in Positions /\ At(i) + 1 \in Positions
      /\ At(i) + 1 < FatEnd /\ At(i) \in Nat
  BY PositionIs
<1>2. FatEnd \in Int
  BY FatAssumption, FatBytesAssumption DEF FatEnd, FatStart
<1>3. Read(b, i) = b[At(i)] + ByteBase * b[At(i) + 1]
  BY <1>1, <1>2 DEF Read
<1>4. b[At(i)] \in Nat /\ b[At(i) + 1] \in Nat
  BY <1>1, FatBytesAssumption DEF Bytes, Byte
<1>5. ASSUME NEW x \in Nat, NEW y \in Nat
      PROVE  x + ByteBase * y = 0 <=> x = 0 /\ y = 0
  <2>1. CASE y = 0
    BY <2>1, FatBytesAssumption
  <2>2. CASE y > 0
    <3>1. ByteBase * y > 0
      BY <2>2, FatBytesAssumption
    <3> QED
      BY <2>2, <3>1, FatBytesAssumption
  <2> QED
    BY <2>1, <2>2
<1> QED
  BY <1>3, <1>4, <1>5

(* The probe of an entry that has a right neighbour in its sector meets    *)
(* the neighbour; that of the last one meets what lies behind the buffer.  *)
LEMMA ProbeIs ==
  ASSUME NEW b \in Bytes, NEW behind, NEW i \in Index
  PROVE  i \in ProbedBytes(b, behind)
           <=> /\ Read(b, i) = 0
               /\ IF LastInSector(i) THEN behind[Sector(i)] ELSE Read(b, i + 1) = 0
<1> DEFINE p == Position(i)
           next == FatStart + 2 * SectorIndices * (Sector(i) + 1)
           Met(q) == IF q < next THEN b[q] = 0 ELSE behind[Sector(i)]
<1>1. i \in Cluster /\ i \in Int
  BY FatAssumption DEF Cluster, Index
<1>2. i \in ProbedBytes(b, behind) <=> \A q \in p..(p + 3) : Met(q)
  BY DEF ProbedBytes, Sector
<1>3. p = At(i) /\ p = FatStart + 2 * (i - 2) /\ p \in Nat /\ FatStart \in Nat
  BY <1>1, PositionIs, FatAssumption, FatBytesAssumption DEF At, Index, FatStart
<1>4. Read(b, i) = 0 <=> b[p] = 0 /\ b[p + 1] = 0
  BY <1>1, <1>3, ZeroBytes
<1> DEFINE e == SectorIndices * (Sector(i) + 1) + 2
<1>5. e \in Int /\ next = FatStart + 2 * (e - 2)
  <2>1. Sector(i) \in Int /\ SectorIndices \in Int
    BY <1>1, FatAssumption DEF Sector
  <2>2. SectorIndices * (Sector(i) + 1) \in Int
    BY <2>1
  <2>3. 2 * SectorIndices * (Sector(i) + 1) = 2 * (SectorIndices * (Sector(i) + 1))
    BY <2>1
  <2> QED
    BY <2>2, <2>3
<1>6. i < e /\ (LastInSector(i) <=> i + 1 = e)
  BY SectorOf
<1> HIDE DEF e, next
<1>7. p + 1 < next /\ (LastInSector(i) => p + 2 = next) /\ (~ LastInSector(i) => p + 3 < next)
  BY <1>1, <1>3, <1>5, <1>6
<1>8. next \in Int
  BY <1>3, <1>5
<1> HIDE DEF p
<1>9. (\A q \in p..(p + 3) : Met(q)) <=> Met(p) /\ Met(p + 1) /\ Met(p + 2) /\ Met(p + 3)
  <2>1. \A q : q \in p..(p + 3) <=> q = p \/ q = p + 1 \/ q = p + 2 \/ q = p + 3
    BY <1>3
  <2> HIDE DEF Met
  <2> QED
    BY <2>1
<1>10. CASE LastInSector(i)
  <2>1. Met(p) <=> b[p] = 0
    BY <1>3, <1>7, <1>8
  <2>2. Met(p + 1) <=> b[p + 1] = 0
    BY <1>3, <1>7, <1>8
  <2>3. (Met(p + 2) <=> behind[Sector(i)]) /\ (Met(p + 3) <=> behind[Sector(i)])
    BY <1>3, <1>7, <1>8, <1>10
  <2> HIDE DEF Met
  <2> QED
    BY <1>2, <1>4, <1>9, <1>10, <2>1, <2>2, <2>3
<1>11. CASE ~ LastInSector(i)
  <2>1. i + 1 \in Index
    <3>1. i # MaxIndex
      BY <1>11, FatAssumption DEF LastInSector
    <3> QED
      BY <1>1, <3>1, FatAssumption DEF Index
  <2>2. At(i + 1) = p + 2
    BY <1>3, <2>1, FatAssumption, FatBytesAssumption DEF At, FatStart, Index, p
  <2>3. i + 1 \in Cluster
    BY <2>1 DEF Cluster
  <2>4. Read(b, i + 1) = 0 <=> b[p + 2] = 0 /\ b[p + 2 + 1] = 0
    BY <2>2, <2>3, ZeroBytes
  <2>5. p + 2 + 1 = p + 3
    BY <1>3
  <2>6. /\ Met(p) <=> b[p] = 0
        /\ Met(p + 1) <=> b[p + 1] = 0
        /\ Met(p + 2) <=> b[p + 2] = 0
        /\ Met(p + 3) <=> b[p + 3] = 0
    BY <1>3, <1>7, <1>8, <1>11
  <2> HIDE DEF Met
  <2> QED
    BY <1>2, <1>4, <1>9, <1>11, <2>4, <2>5, <2>6
<1> QED
  BY <1>10, <1>11

TableOf(b) == [i \in Cluster |-> Read(b, i)]

(* What the bytes probe as is what the table does, up to the last entries  *)
(* of the sectors, which probe as empty or not with what lies behind.      *)
LEMMA ProbedAre ==
  ASSUME NEW b \in Bytes, NEW behind
  PROVE  \A i : i \in ProbedBytes(b, behind)
                  <=> /\ i \in Probed(TableOf(b))
                      /\ LastInSector(i) => behind[Sector(i)]
<1> SUFFICES ASSUME NEW i
             PROVE  i \in ProbedBytes(b, behind)
                      <=> i \in Probed(TableOf(b)) /\ (LastInSector(i) => behind[Sector(i)])
  OBVIOUS
<1>1. CASE i \notin Index
  BY <1>1 DEF ProbedBytes, Probed
<1>2. CASE i \in Index
  <2>1. TableOf(b)[i] = Read(b, i)
    BY <1>2 DEF TableOf, Cluster
  <2>2. ASSUME ~ LastInSector(i) PROVE TableOf(b)[i + 1] = Read(b, i + 1)
    <3>1. i # MaxIndex
      BY <2>2, FatAssumption DEF LastInSector
    <3>2. i + 1 \in Cluster
      BY <1>2, <3>1, FatAssumption DEF Cluster, Index
    <3> QED
      BY <3>2 DEF TableOf
  <2>3. i \in Probed(TableOf(b))
          <=> TableOf(b)[i] = 0 /\ (LastInSector(i) \/ TableOf(b)[i + 1] = 0)
    BY <1>2 DEF Probed
  <2> QED
    BY <1>2, <2>1, <2>2, <2>3, ProbeIs
<1> QED
  BY <1>1, <1>2

(* The answers of a probe: the least of what it takes for empty, or 0.     *)
Least(S) == IF S = {} THEN {0} ELSE {i \in S : \A j \in S : i <= j}

(* What any of the answers is: the search in the bytes has the answers of  *)
(* the search in the table.                                                *)
LEMMA SearchIs ==
  ASSUME NEW b \in Bytes
  PROVE  FindEmpty(b) = find_empty_fat_index(TableOf(b))
<1> DEFINE P == Probed(TableOf(b))
           L(i) == LastInSector(i)
           Q(behind) == ProbedBytes(b, behind)
           B == [Sectors -> BOOLEAN]
<1>1. \A behind : \A i : i \in Q(behind) <=> i \in P /\ (L(i) => behind[Sector(i)])
  BY ProbedAre
<1>2. P \subseteq Index /\ Index \subseteq Int
  BY FatAssumption DEF Probed, Index
<1>3. \A x : x \in FindEmpty(b) <=> \E behind \in B : x \in Least(Q(behind))
  BY DEF FindEmpty, Least
<1>4. \A x : x \in find_empty_fat_index(TableOf(b))
               <=> \/ x \in P /\ \A j \in P : j < x => L(j)
                   \/ x = 0 /\ \A j \in P : L(j)
  BY DEF find_empty_fat_index
<1>5. ASSUME NEW i \in P, NEW j \in P, L(i), L(j), Sector(i) = Sector(j)
      PROVE  i = j
  <2>1. i \in Index /\ j \in Index
    BY <1>2
  <2>2. i + 1 = SectorIndices * (Sector(i) + 1) + 2
    BY <1>5, <2>1, SectorOf
  <2>3. j + 1 = SectorIndices * (Sector(j) + 1) + 2
    BY <1>5, <2>1, SectorOf
  <2>4. i + 1 = j + 1
    BY <1>5, <2>2, <2>3
  <2> QED
    BY <1>2, <2>1, <2>4
<1>6. \A i \in P : Sector(i) \in Sectors
  BY <1>2, SectorOf
<1> HIDE DEF P, L, Q, B
<1>7. ASSUME NEW x, NEW behind \in B, x \in Least(Q(behind))
      PROVE  \/ x \in P /\ \A j \in P : j < x => L(j)
             \/ x = 0 /\ \A j \in P : L(j)
  <2>1. CASE Q(behind) = {}
    BY <1>1, <1>7, <2>1 DEF Least
  <2>2. CASE Q(behind) # {}
    <3>1. x \in Q(behind) /\ \A j \in Q(behind) : x <= j
      BY <1>7, <2>2 DEF Least
    <3>2. x \in P
      BY <1>1, <3>1
    <3>3. ASSUME NEW j \in P, j < x, ~ L(j) PROVE FALSE
      <4>1. j \in Q(behind)
        BY <1>1, <3>3
      <4> QED
        BY <1>2, <3>1, <3>2, <3>3, <4>1
    <3> QED
      BY <3>2, <3>3
  <2> QED
    BY <2>1, <2>2
<1>8. ASSUME NEW x \in P, \A j \in P : j < x => L(j)
      PROVE  \E behind \in B : x \in Least(Q(behind))
  <2> DEFINE h == [s \in Sectors |-> L(x) /\ s = Sector(x)]
  <2>1. h \in B
    BY DEF B
  <2>2. \A i \in P : h[Sector(i)] <=> L(x) /\ Sector(i) = Sector(x)
    BY <1>6
  <2> HIDE DEF h
  <2>3. x \in Q(h)
    BY <1>1, <2>2
  <2>4. ASSUME NEW j \in Q(h), ~ (x <= j) PROVE FALSE
    <3>1. j \in P /\ j < x
      <4>1. j \in P
        BY <1>1, <2>4
      <4>2. j \in Int /\ x \in Int
        BY <1>2, <4>1
      <4> QED
        BY <2>4, <4>1, <4>2
    <3>2. L(j)
      BY <1>8, <3>1
    <3>3. Sector(j) = Sector(x) /\ L(x)
      BY <1>1, <2>2, <2>4, <3>1, <3>2
    <3>4. j = x
      BY <1>5, <3>1, <3>2, <3>3
    <3> QED
      BY <1>2, <3>1, <3>4
  <2>5. x \in Least(Q(h))
    BY <2>3, <2>4 DEF Least
  <2> QED
    BY <2>1, <2>5
<1>9. ASSUME \A j \in P : L(j)
      PROVE  \E behind \in B : 0 \in Least(Q(behind))
  <2> DEFINE h == [s \in Sectors |-> FALSE]
  <2>1. h \in B
    BY DEF B
  <2>2. \A i \in P : ~ h[Sector(i)]
    BY <1>6
  <2> HIDE DEF h
  <2>3. Q(h) = {}
    BY <1>1, <1>9, <2>2
  <2>4. 0 \in Least(Q(h))
    BY <2>3 DEF Least
  <2> QED
    BY <2>1, <2>4
<1>10. \A x : x \in FindEmpty(b) <=> x \in find_empty_fat_index(TableOf(b))
  BY <1>3, <1>4, <1>7, <1>8, <1>9
<1> QED
  BY <1>10

-----------------------------------------------------------------------------
(* The invariant.                                                          *)

BInv == bytes \in Bytes /\ \A i \in Cluster : Read(bytes, i) \in Value

(* What the formatter leaves reads as the formatted table.                 *)
LEMMA InitReads ==
  ASSUME Init
  PROVE  bytes \in Bytes /\ \A i \in Cluster : Read(bytes, i) = FormattedFat[i]
<1> USE FatAssumption, FatBytesAssumption
<1>1. RootCluster \in Index /\ RootCluster \in Cluster /\ EndMark \in Value
  BY DEF RootCluster, Index, Cluster, Value
<1>2. Position(RootCluster) = FatStart
  BY <1>1, PositionIs DEF At, RootCluster, FatStart
<1>3. Low(EndMark) \in Byte /\ High(EndMark) \in Byte
      /\ Low(EndMark) + ByteBase * High(EndMark) = EndMark
  BY <1>1, TwoBytes
<1>4. 0 \in Byte /\ 1 \in Byte
  BY DEF Byte
<1>5. bytes \in Bytes
  BY <1>3, <1>4 DEF Init, Bytes
<1>6. FatStart \in Nat /\ FatEnd \in Nat /\ FatStart + 2 <= FatEnd
  BY DEF FatStart, FatEnd
<1>7. ASSUME NEW i \in Cluster PROVE Read(bytes, i) = FormattedFat[i]
  <2>1. /\ Position(i) = At(i) /\ At(i) \in Nat /\ At(i) + 1 < FatEnd
        /\ At(i) >= FatStart - 4 /\ At(i) \in Positions /\ At(i) + 1 \in Positions
    BY PositionIs
  <2>2. Read(bytes, i) = bytes[At(i)] + ByteBase * bytes[At(i) + 1]
    BY <1>6, <2>1 DEF Read
  <2>3. CASE i = RootCluster
    <3>1. At(i) = FatStart
      BY <1>2, <2>1, <2>3
    <3>2. bytes[At(i)] = Low(EndMark) /\ bytes[At(i) + 1] = High(EndMark)
      BY <1>2, <1>6, <2>1, <3>1 DEF Init
    <3> QED
      BY <1>1, <1>3, <2>2, <2>3, <3>2 DEF FormattedFat
  <2>4. CASE i # RootCluster
    <3>1. At(i) # FatStart /\ At(i) # FatStart + 1 /\ At(i) + 1 # FatStart
      BY <2>4, <1>6 DEF At, Cluster, Index, RootCluster
    <3>2. bytes[At(i)] = 0 /\ bytes[At(i) + 1] = 0
      BY <1>2, <1>6, <2>1, <3>1 DEF Init
    <3> QED
      BY <2>2, <2>4, <3>2 DEF FormattedFat
  <2> QED
    BY <2>3, <2>4
<1> QED
  BY <1>5, <1>7

(* A new cluster is one of the table, or 0.                                *)
LEMMA FoundIsCluster ==
  ASSUME NEW f, NEW new \in find_empty_fat_index(f)
  PROVE  new \in Cluster
BY DEF find_empty_fat_index, Probed, Cluster

(* The calls on the FAT, on the bytes and on the table.                    *)
LEMMA NextReads ==
  ASSUME BInv, Next
  PROVE  /\ bytes' \in Bytes
         /\ \A i \in Cluster : Read(bytes', i) \in Value
         /\ \/ \E new \in find_empty_fat_index(TableOf(bytes)) :
                 TableOf(bytes') = write_in_fat_index(TableOf(bytes), new, EndMark)
            \/ \E tail \in Cluster, new \in find_empty_fat_index(TableOf(bytes)) :
                 /\ TableOf(bytes)[tail] = EndMark
                 /\ TableOf(bytes') = Extended(TableOf(bytes), tail, new)
         /\ \A p \in Positions : p < FatStart - 4 \/ p >= FatEnd => bytes'[p] = bytes[p]
<1>1. bytes \in Bytes /\ \A i \in Cluster : Read(bytes, i) \in Value
  BY DEF BInv
<1>2. FindEmpty(bytes) = find_empty_fat_index(TableOf(bytes))
  BY <1>1, SearchIs
<1>3. EndMark \in Value
  BY DEF Value
<1>4. CASE Take
  <2>1. PICK new \in FindEmpty(bytes) : bytes' = Write(bytes, new, EndMark)
    BY <1>4 DEF Take
  <2>2. new \in Cluster
    BY <1>2, FoundIsCluster
  <2> DEFINE w == Write(bytes, new, EndMark)
  <2>3. /\ w \in Bytes
        /\ \A j \in Cluster : Read(w, j) = IF j = new THEN EndMark ELSE Read(bytes, j)
        /\ \A q \in Positions : q < FatStart - 4 \/ q >= FatEnd => w[q] = bytes[q]
    BY <1>1, <1>3, <2>2, ReadWritten
  <2> HIDE DEF w
  <2>4. TableOf(w) = write_in_fat_index(TableOf(bytes), new, EndMark)
    BY <2>2, <2>3 DEF TableOf, write_in_fat_index
  <2>5. bytes' = w
    BY <2>1 DEF w
  <2> QED
    BY <1>1, <1>2, <1>3, <2>3, <2>4, <2>5
<1>5. CASE Grow
  <2>1. PICK tail \in Cluster, new \in FindEmpty(bytes) :
           /\ Read(bytes, tail) = EndMark
           /\ bytes' = Write(Write(bytes, tail, new), new, EndMark)
    BY <1>5 DEF Grow
  <2>2. new \in Cluster /\ new \in Value
    BY <1>2, FoundIsCluster DEF Value
  <2> DEFINE v == Write(bytes, tail, new)
             w == Write(v, new, EndMark)
  <2>3. /\ v \in Bytes
        /\ \A j \in Cluster : Read(v, j) = IF j = tail THEN new ELSE Read(bytes, j)
        /\ \A q \in Positions : q < FatStart - 4 \/ q >= FatEnd => v[q] = bytes[q]
    BY <1>1, <2>2, ReadWritten
  <2>4. bytes' = w
    BY <2>1
  <2> HIDE DEF v
  <2>5. /\ w \in Bytes
        /\ \A j \in Cluster : Read(w, j) = IF j = new THEN EndMark ELSE Read(v, j)
        /\ \A q \in Positions : q < FatStart - 4 \/ q >= FatEnd => w[q] = v[q]
    BY <1>3, <2>2, <2>3, ReadWritten
  <2> HIDE DEF w
  <2>6. TableOf(v) = write_in_fat_index(TableOf(bytes), tail, new)
    BY <2>2, <2>3 DEF TableOf, write_in_fat_index
  <2>7. TableOf(w) = write_in_fat_index(TableOf(v), new, EndMark)
    BY <2>2, <2>5 DEF TableOf, write_in_fat_index
  <2>8. TableOf(w) = Extended(TableOf(bytes), tail, new)
    BY <2>6, <2>7 DEF Extended
  <2>9. TableOf(bytes)[tail] = EndMark
    BY <2>1 DEF TableOf
  <2>10. \A i \in Cluster : Read(w, i) \in Value
    BY <1>1, <1>3, <2>2, <2>3, <2>5
  <2>11. \A q \in Positions : q < FatStart - 4 \/ q >= FatEnd => w[q] = bytes[q]
    BY <2>3, <2>5
  <2> QED
    BY <1>2, <2>4, <2>5, <2>8, <2>9, <2>10, <2>11
<1> QED
  BY <1>4, <1>5 DEF Next

(* The invariant holds in every state.                                     *)
LEMMA BInvAlways == Spec => []BInv
<1>1. Init => BInv
  <2> SUFFICES ASSUME Init PROVE BInv
    OBVIOUS
  <2>1. bytes \in Bytes /\ \A i \in Cluster : Read(bytes, i) = FormattedFat[i]
    BY InitReads
  <2>2. \A i \in Cluster : FormattedFat[i] \in Value
    BY DEF FormattedFat, Value, Cluster
  <2> QED
    BY <2>1, <2>2 DEF BInv
<1>2. BInv /\ [Next]_bytes => BInv'
  <2>1. ASSUME BInv, Next PROVE BInv'
    BY <2>1, NextReads DEF BInv
  <2>2. ASSUME BInv, UNCHANGED bytes PROVE BInv'
    BY <2>2 DEF BInv
  <2> QED
    BY <2>1, <2>2
<1> QED
  BY <1>1, <1>2, PTL DEF Spec

(* The search for a free entry, which reads four bytes where an entry has  *)
(* two and reads past its buffer at the end of a sector, answers what the  *)
(* table says it may, and each of these answers can occur.                 *)
THEOREM SearchAgrees == Spec => []FindAgrees
<1>1. BInv => FindAgrees
  <2> SUFFICES ASSUME BInv PROVE FindAgrees
    OBVIOUS
  <2>1. FindEmpty(bytes) = find_empty_fat_index(TableOf(bytes))
    BY SearchIs DEF BInv
  <2> QED
    BY <2>1 DEF FindAgrees, Shown, TableOf
<1> QED
  BY <1>1, BInvAlways, PTL

(* The calls on the FAT stay inside the FAT and the padding before it,     *)
(* index 0 and the wrap of its position included.                          *)
THEOREM FatCallsStayInside == Spec => OutsideIntact
<1>1. BInv /\ [Next]_bytes
        => [\A p \in Positions : p < FatStart - 4 \/ p >= FatEnd => bytes'[p] = bytes[p]]_bytes
  BY NextReads
<1> QED
  BY <1>1, BInvAlways, PTL DEF Spec, OutsideIntact

(* The operators of the instance are those of Fat.                         *)
LEMMA SameTable ==
  ASSUME NEW f, NEW i, NEW v, NEW tail
  PROVE  /\ Calls!FormattedFat = FormattedFat /\ Calls!Cluster = Cluster
         /\ Calls!find_empty_fat_index(f) = find_empty_fat_index(f)
         /\ Calls!write_in_fat_index(f, i, v) = write_in_fat_index(f, i, v)
         /\ Calls!Extended(f, tail, i) = Extended(f, tail, i)
BY DEF Calls!FormattedFat, FormattedFat, Calls!Cluster, Cluster, Calls!Index, Index,
       Calls!RootCluster, RootCluster, Calls!find_empty_fat_index, find_empty_fat_index,
       Calls!Probed, Probed, Calls!LastInSector, LastInSector,
       Calls!write_in_fat_index, write_in_fat_index, Calls!Extended, Extended

(* The table with its three calls, which every other module builds on, is  *)
(* what the bytes on the volume implement: the code's search, its two      *)
(* writes in the order it makes them, and the arithmetic of positions.     *)
THEOREM BytesAreATable == Spec => ImplementsFatCalls
<1>1. Init => Calls!Init
  <2> SUFFICES ASSUME Init PROVE Shown = FormattedFat
    BY SameTable DEF Calls!Init
  <2>1. \A i \in Cluster : Read(bytes, i) = FormattedFat[i]
    BY InitReads
  <2> QED
    BY <2>1 DEF Shown, FormattedFat
<1>2. BInv /\ [Next]_bytes => [Calls!Next]_Shown
  <2>1. ASSUME BInv, Next PROVE Calls!Next
    <3>1. Shown = TableOf(bytes) /\ Shown' = TableOf(bytes')
      BY DEF Shown, TableOf
    <3>2. CASE \E new \in find_empty_fat_index(TableOf(bytes)) :
                 TableOf(bytes') = write_in_fat_index(TableOf(bytes), new, EndMark)
      BY <3>1, <3>2, SameTable DEF Calls!Next, Calls!Take
    <3>3. CASE \E tail \in Cluster, new \in find_empty_fat_index(TableOf(bytes)) :
                 /\ TableOf(bytes)[tail] = EndMark
                 /\ TableOf(bytes') = Extended(TableOf(bytes), tail, new)
      BY <3>1, <3>3, SameTable DEF Calls!Next, Calls!Grow
    <3> QED
      BY <2>1, <3>2, <3>3, NextReads
  <2>2. ASSUME UNCHANGED bytes PROVE UNCHANGED Shown
    BY <2>2 DEF Shown
  <2> QED
    BY <2>1, <2>2
<1>3. Spec => Calls!Spec
  BY <1>1, <1>2, BInvAlways, PTL DEF Spec, Calls!Spec
<1> QED
  BY <1>3 DEF ImplementsFatCalls

=============================================================================
