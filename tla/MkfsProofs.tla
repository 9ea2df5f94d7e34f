----------------------------- MODULE MkfsProofs -----------------------------
(***************************************************************************)
(* Theorems about a run of the formatters, for every width of a word,      *)
(* every set of sizes that may be written on the command line, and every   *)
(* device.                                                                 *)
(*                                                                         *)
(* The invariant says what holds between any two steps of main: what has   *)
(* been opened, which sizes were asked for, what is blank, and what the    *)
(* super block and the mark of the root follow from. That an accepted size *)
(* is the one that was meant is arithmetic: parse_size adds the bits of    *)
(* the number and of its suffix, and a product of numbers of n and k bits  *)
(* has at most n + k.                                                      *)
(***************************************************************************)
EXTENDS Mkfs, FiniteSetTheorems, TLAPS

-----------------------------------------------------------------------------
(* Induction on numbers, with sets of numbers in place of predicates.      *)

(* A set of numbers that is not empty has a least element.                 *)
LEMMA LeastNumber ==
  ASSUME NEW T \in SUBSET Nat, T # {}
  PROVE  \E m \in T : \A k \in T : m <= k
<1> DEFINE R == OpToRel(<, Nat)
<1>1. \A x, y \in Nat : x < y => <<x, y>> \in R
  BY DEF OpToRel
<1>2. PICK x \in T : \A y \in T : ~(<<y, x>> \in R)
  BY NatLessThanWellFounded, WFMin, Zenon
<1> HIDE DEF R
<1>3. ASSUME NEW k \in T, ~ (x <= k) PROVE FALSE
  <2>1. k < x
    BY <1>3
  <2> QED
    BY <1>1, <1>2, <2>1
<1> QED
  BY <1>3

(* Induction: a set that holds 0, and the successor of each number in it,  *)
(* holds every number.                                                     *)
LEMMA Induction ==
  ASSUME NEW T, 0 \in T, \A n \in Nat : n \in T => n + 1 \in T
  PROVE  \A n \in Nat : n \in T
<1> SUFFICES ASSUME NEW n \in Nat, n \notin T PROVE FALSE
  OBVIOUS
<1>1. PICK m \in Nat \ T : \A k \in Nat \ T : m <= k
  BY LeastNumber
<1>2. m # 0 /\ m - 1 \in Nat /\ m - 1 \in T
  BY <1>1
<1> QED
  BY <1>1, <1>2

-----------------------------------------------------------------------------
(* Powers of 2.                                                            *)

(* There is a function that satisfies the equation that defines Two.       *)
LEMMA TwoDef == Two = [k \in Nat |-> IF k = 0 THEN 1 ELSE 2 * Two[k - 1]]
<1> DEFINE Good(n, g) == g = [k \in 0..n |-> IF k = 0 THEN 1 ELSE 2 * g[k - 1]]
           S == {n \in Nat : \E g : Good(n, g)}
           Up(n) == CHOOSE g : Good(n, g)
           f == [n \in Nat |-> Up(n)[n]]
<1>1. 0 \in S
  <2> DEFINE g == [k \in 0..0 |-> 1]
  <2>1. Good(0, g)
    OBVIOUS
  <2> QED
    BY <2>1
<1>2. ASSUME NEW n \in Nat, n \in S PROVE n + 1 \in S
  <2>1. PICK g : Good(n, g)
    BY <1>2
  <2> DEFINE e == [k \in 0..(n + 1) |-> IF k <= n THEN g[k] ELSE 2 * g[n]]
  <2>2. ASSUME NEW k \in 0..(n + 1)
        PROVE  e[k] = IF k = 0 THEN 1 ELSE 2 * e[k - 1]
    <3>1. CASE k = 0
      BY <3>1, <2>1
    <3>2. CASE k # 0 /\ k <= n
      <4>1. k \in 0..n /\ k - 1 \in 0..(n + 1) /\ k - 1 <= n
        BY <3>2
      <4>2. g[k] = 2 * g[k - 1]
        BY <2>1, <3>2, <4>1
      <4> QED
        BY <3>2, <4>1, <4>2
    <3>3. CASE k = n + 1
      <4>1. k - 1 \in 0..(n + 1) /\ k - 1 = n /\ k # 0 /\ ~ (k <= n)
        BY <3>3
      <4> QED
        BY <4>1
    <3> QED
      BY <3>1, <3>2, <3>3
  <2>3. Good(n + 1, e)
    BY <2>2
  <2> HIDE DEF Good, e
  <2> QED
    BY <2>3
<1>3. ASSUME NEW n \in Nat PROVE Good(n, Up(n))
  <2> HIDE DEF Good
  <2>1. n \in S
    BY <1>1, <1>2, Induction
  <2> QED
    BY <2>1
<1>4. ASSUME NEW n \in Nat PROVE /\ DOMAIN Up(n) = 0..n /\ Up(n)[0] = 1
                                 /\ \A k \in 1..n : Up(n)[k] = 2 * Up(n)[k - 1]
  <2> HIDE DEF Up
  <2>1. PICK u : u = Up(n)
    OBVIOUS
  <2>2. u = [k \in 0..n |-> IF k = 0 THEN 1 ELSE 2 * u[k - 1]]
    BY <1>3, <2>1
  <2>3. DOMAIN u = 0..n /\ u[0] = 1 /\ \A k \in 1..n : u[k] = 2 * u[k - 1]
    BY <2>2
  <2> QED
    BY <2>1, <2>3
<1> HIDE DEF Good, Up
<1>5. ASSUME NEW n \in Nat PROVE Up(n + 1)[n] = Up(n)[n]
  <2> DEFINE T == {k \in Nat : k <= n => Up(n + 1)[k] = Up(n)[k]}
  <2>1. 0 \in T
    BY <1>4
  <2>2. ASSUME NEW k \in Nat, k \in T PROVE k + 1 \in T
    <3> SUFFICES ASSUME k + 1 <= n PROVE Up(n + 1)[k + 1] = Up(n)[k + 1]
      OBVIOUS
    <3>1. k <= n /\ k + 1 \in 1..n /\ k + 1 \in 1..(n + 1) /\ (k + 1) - 1 = k /\ n + 1 \in Nat
      OBVIOUS
    <3>2. Up(n + 1)[k] = Up(n)[k]
      BY <2>2, <3>1
    <3>3. Up(n + 1)[k + 1] = 2 * Up(n + 1)[k] /\ Up(n)[k + 1] = 2 * Up(n)[k]
      BY <1>4, <3>1
    <3> QED
      BY <3>2, <3>3
  <2> HIDE DEF T
  <2>3. n \in T
    BY <2>1, <2>2, Induction
  <2> QED
    BY <2>3 DEF T
<1>6. ASSUME NEW n \in Nat PROVE f[n] = IF n = 0 THEN 1 ELSE 2 * f[n - 1]
  <2>1. CASE n = 0
    BY <1>4, <2>1
  <2>2. CASE n # 0
    <3> DEFINE m == n - 1
    <3>1. m \in Nat /\ n = m + 1 /\ n \in 1..n
      BY <2>2
    <3>2. Up(n)[n] = 2 * Up(n)[m]
      BY <1>4, <3>1
    <3> HIDE DEF m
    <3>3. Up(n)[m] = Up(m)[m]
      BY <1>5, <3>1
    <3> QED
      BY <2>2, <3>1, <3>2, <3>3 DEF m
  <2> QED
    BY <2>1, <2>2
<1>7. f = [n \in Nat |-> IF n = 0 THEN 1 ELSE 2 * f[n - 1]]
  BY <1>6
<1> HIDE DEF f
<1>8. \E g : g = [k \in Nat |-> IF k = 0 THEN 1 ELSE 2 * g[k - 1]]
  BY <1>7
<1> QED
  BY <1>8 DEF Two

(* One step of the powers of 2.                                            *)
LEMMA TwoStep ==
  /\ Two[0] = 1
  /\ \A k \in Nat : Two[k + 1] = 2 * Two[k] /\ Two[k] \in Nat \ {0}
<1>1. Two[0] = 1
  BY TwoDef
<1>2. ASSUME NEW k \in Nat PROVE Two[k + 1] = 2 * Two[k]
  <2>1. k + 1 \in Nat /\ k + 1 # 0 /\ (k + 1) - 1 = k
    OBVIOUS
  <2> QED
    BY <2>1, TwoDef
<1> DEFINE T == {k \in Nat : Two[k] \in Nat \ {0}}
<1>3. 0 \in T
  BY <1>1
<1>4. ASSUME NEW k \in Nat, k \in T PROVE k + 1 \in T
  BY <1>2, <1>4
<1> HIDE DEF T
<1>5. \A k \in Nat : k \in T
  BY <1>3, <1>4, Induction
<1> QED
  BY <1>1, <1>2, <1>5 DEF T

(* The power of a sum.                                                     *)
LEMMA TwoSum == \A a, b \in Nat : Two[a + b] = Two[a] * Two[b]
<1> SUFFICES ASSUME NEW a \in Nat PROVE \A b \in Nat : Two[a + b] = Two[a] * Two[b]
  OBVIOUS
<1> DEFINE T == {b \in Nat : Two[a + b] = Two[a] * Two[b]}
<1>1. 0 \in T
  BY TwoStep
<1>2. ASSUME NEW b \in Nat, b \in T PROVE b + 1 \in T
  <2>1. a + (b + 1) = (a + b) + 1 /\ a + b \in Nat
    OBVIOUS
  <2>2. Two[a + (b + 1)] = 2 * Two[a + b] /\ Two[b + 1] = 2 * Two[b]
    BY <2>1, TwoStep
  <2>3. Two[a + b] = Two[a] * Two[b]
    BY <1>2
  <2> DEFINE x == Two[a]
             y == Two[b]
             z == Two[a + b]
  <2>4. x \in Nat /\ y \in Nat /\ z = x * y
    BY <2>3, TwoStep
  <2> HIDE DEF x, y, z
  <2>5. 2 * z = x * (2 * y)
    BY <2>4
  <2> QED
    BY <2>2, <2>5 DEF x, y, z
<1> HIDE DEF T
<1>3. \A b \in Nat : b \in T
  BY <1>1, <1>2, Induction
<1> QED
  BY <1>3 DEF T

(* A larger exponent does not give less.                                   *)
LEMMA TwoGrows == \A a, b \in Nat : a <= b => Two[a] <= Two[b]
<1> SUFFICES ASSUME NEW a \in Nat, NEW b \in Nat, a <= b PROVE Two[a] <= Two[b]
  OBVIOUS
<1> DEFINE d == b - a
<1>1. d \in Nat /\ b = a + d
  OBVIOUS
<1> HIDE DEF d
<1>2. Two[b] = Two[a] * Two[d] /\ Two[a] \in Nat \ {0} /\ Two[d] \in Nat \ {0}
  BY <1>1, TwoSum, TwoStep
<1> DEFINE x == Two[a]
           y == Two[d]
<1> HIDE DEF x, y
<1>3. x \in Nat /\ y \in Nat /\ y >= 1 => x * y >= x
  OBVIOUS
<1> QED
  BY <1>2, <1>3 DEF x, y

(* fls64 is the number of bits of a number that fits.                      *)
LEMMA Bits ==
  ASSUME NEW x \in Nat, x # 0, x < Two[W]
  PROVE  /\ fls64(x) \in 1..W /\ Two[fls64(x) - 1] <= x /\ x < Two[fls64(x)]
<1> DEFINE S == {i \in Nat : x < Two[i]}
<1>1. W \in S
  BY MkfsAssumption
<1>2. PICK i \in S : \A j \in S : i <= j
  BY <1>1, LeastNumber
<1>3. i # 0
  BY <1>2, TwoStep
<1>4. i \in 1..W /\ i - 1 \in Nat /\ i - 1 \notin S
  BY <1>1, <1>2, <1>3, MkfsAssumption
<1>5. Two[i - 1] <= x /\ x < Two[i]
  BY <1>2, <1>4, TwoStep
<1> QED
  BY <1>4, <1>5 DEF fls64

-----------------------------------------------------------------------------
(* The state between the steps.                                            *)

TypesOK ==
  /\ opts \in [auto : BOOLEAN, name : BOOLEAN, was : Lengths \cup {NoFile},
               s : {{}} \cup {{t} : t \in SizeTexts}, c : {{}} \cup {{t} : t \in CSizeTexts}]
  /\ size \in Nat /\ csize \in Nat /\ pos \in Nat /\ file \in Nat \cup {NoFile}

(* Until the volume is opened nothing has been written, ...                *)
Unopened ==
  pc \in {"options", "loopback", "device"} =>
    /\ file = opts.was /\ before = Larger(opts.was, 0) /\ pos = 0
    /\ zeros = [from |-> 0, to |-> 0] /\ sb = NoSb

(* ... the sizes are what was asked for, ...                               *)
Asked ==
  /\ pc = "loopback" => opts.auto /\ Meant(opts.s, size)
  /\ pc = "device" => ~opts.auto
  /\ pc \in {"loopback", "device"} => Meant(opts.c, csize)

(* ... a volume that is opened is new or as it was, ...                    *)
Opened ==
  pc = "clusters" =>
    /\ opts.auto => /\ opts.was = NoFile /\ before = 0 /\ pos = 0
                    /\ Meant(opts.s, size)
    /\ ~opts.auto => file = opts.was /\ before = opts.was /\ zeros.to = 0 /\ sb = NoSb
    /\ Meant(opts.c, csize)

(* ... a new one is then blank, ...                                        *)
Cleared ==
  pc \in {"super", "fat", "done"} /\ opts.auto =>
    opts.was = NoFile /\ before = 0 /\ zeros.from = 0 /\ size - zeros.to < csize

(* ... and what is written last follows from the size.                     *)
Laid ==
  /\ pc \in {"fat", "done"} => sb = initialize_sb(size)
  /\ pc = "done" => sb.width # 0 /\ mark = IndexPosition(2)

Failed ==
  pc = "exit" =>
    \/ opts.was = NoFile
    \/ file = opts.was /\ before = opts.was /\ zeros.to = 0 /\ sb = NoSb
    \/ Clusters(size) >= 65536

IInv == TypesOK /\ Unopened /\ Asked /\ Opened /\ Cleared /\ Laid /\ Failed

-----------------------------------------------------------------------------
(* A size that parse_size accepts fits in a word, and is not negated.      *)
LEMMA AcceptedIsMeant ==
  ASSUME NEW t \in Texts, NEW v \in parse_size(t)
  PROVE  v \in Nat /\ Meant({t}, v)
<1>1. /\ ~Refused(t) /\ v = (strtoull(t) * Two[Shift(t)]) % Two[W]
  BY DEF parse_size
<1> DEFINE d == t.digits
           k == Shift(t)
           x == strtoull(t)
<1>2. d \in Nat /\ d < Two[W] /\ t.neg \in BOOLEAN /\ W \in Nat /\ Two[W] \in Nat \ {0}
  <2>1. t.digits \in Nat \cup {NoDigits} /\ t.neg \in BOOLEAN
    BY DEF Texts
  <2>2. W \in Nat /\ Two[W] \in Nat \ {0}
    BY MkfsAssumption, TwoStep
  <2> QED
    BY <1>1, <2>1, <2>2 DEF Refused, Overflows
<1>3. k \in Nat
  <2>1. t.suffix \in {NoSuffix, Unknown} \cup {10 * j : j \in 0..6} /\ t.suffix # Unknown
    BY <1>1 DEF Texts, Refused
  <2> QED
    BY <2>1 DEF Shift
<1>4. x = IF t.neg THEN (Two[W] - d) % Two[W] ELSE d
  BY <1>1 DEF strtoull, Refused
<1>5. x \in Nat
  BY <1>2, <1>4
<1>6. v \in Nat
  <2> HIDE DEF x, k
  <2>1. x * Two[k] \in Nat
    BY <1>3, <1>5, TwoStep
  <2> QED
    BY <1>1, <1>2, <2>1 DEF x, k
<1>7. ASSUME ~t.neg PROVE v = d * Two[k]
  <2>1. x = d
    BY <1>4, <1>7
  <2>2. d * Two[k] < Two[W] /\ d * Two[k] \in Nat
    <3>1. CASE d = 0
      BY <1>2, <1>3, <3>1, TwoStep
    <3>2. CASE d # 0
      <4> DEFINE n == fls64(d)
      <4>1. n \in 1..W /\ d < Two[n]
        BY <1>2, <3>2, Bits
      <4>2. n + (k + 1) - 1 <= W
        <5>1. ~(n + (k + 1) - 1 > W)
          BY <1>1, <2>1 DEF Refused
        <5> HIDE DEF n, k
        <5> QED
          BY <1>2, <1>3, <4>1, <5>1
      <4>3. n \in Nat /\ n + k \in Nat /\ n + k <= W
        <5> HIDE DEF n, k
        <5> QED
          BY <1>2, <1>3, <4>1, <4>2
      <4>4. Two[n] * Two[k] = Two[n + k] /\ Two[n + k] <= Two[W]
        BY <1>2, <1>3, <4>3, TwoSum, TwoGrows
      <4> DEFINE a == Two[n]
                 b == Two[k]
      <4>5. a \in Nat /\ b \in Nat \ {0} /\ d < a
        BY <1>3, <4>1, <4>3, TwoStep
      <4> HIDE DEF a, b, n, k, d
      <4>6. d * b < a * b /\ d * b \in Nat
        BY <1>2, <4>5
      <4> QED
        BY <1>2, <4>3, <4>4, <4>5, <4>6, TwoStep DEF a, b
    <3> QED
      BY <3>1, <3>2
  <2>3. (d * Two[k]) % Two[W] = d * Two[k]
    <3> DEFINE y == d * Two[k]
               w == Two[W]
    <3>1. y \in Nat /\ w \in Nat \ {0} /\ y < w
      BY <1>2, <2>2
    <3> HIDE DEF y, w
    <3>2. y % w = y
      BY <3>1
    <3> QED
      BY <3>2 DEF y, w
  <2> QED
    BY <1>1, <2>1, <2>3
<1> QED
  BY <1>6, <1>7 DEF Meant

(* An option that was given and not refused has the value that was meant.  *)
LEMMA GivenIsMeant ==
  ASSUME NEW S \in SUBSET Texts, NEW given \in {{}} \cup {{t} : t \in S}, NEW v \in SizeOf(given)
  PROVE  v \in Nat /\ Meant(given, v)
<1>1. CASE given = {}
  BY <1>1 DEF SizeOf, Meant
<1>2. CASE given # {}
  <2>1. PICK t \in S : given = {t}
    BY <1>2
  <2>2. v \in parse_size(t)
    BY <1>2, <2>1 DEF SizeOf
  <2> QED
    BY <2>1, <2>2, AcceptedIsMeant
<1> QED
  BY <1>1, <1>2

-----------------------------------------------------------------------------
(* The invariant.                                                          *)
LEMMA InitIInv == MkfsInit => IInv
<1> SUFFICES ASSUME MkfsInit PROVE IInv
  OBVIOUS
<1>1. TypesOK
  BY MkfsAssumption DEF MkfsInit, TypesOK, NoFile
<1> QED
  BY <1>1 DEF MkfsInit, IInv, Unopened, Asked, Opened, Cleared, Laid, Failed

(* Whole clusters: less than one of them is left.                          *)
LEMMA WholeClusters ==
  ASSUME NEW s \in Nat, NEW c \in Nat \ {0}
  PROVE  (s \div c) * c \in Nat /\ s - (s \div c) * c < c
<1> DEFINE q == s \div c
           r == s % c
<1>1. q \in Nat /\ r \in 0..(c - 1) /\ s = c * q + r
  OBVIOUS
<1> HIDE DEF q, r
<1>2. q * c \in Nat /\ q * c = c * q
  BY <1>1
<1> DEFINE z == q * c
<1>3. z \in Nat /\ s = z + r
  BY <1>1, <1>2
<1> HIDE DEF z
<1>4. s - z < c
  BY <1>1, <1>3
<1> QED
  BY <1>3, <1>4 DEF z, q

(* Every step of main keeps the invariant, the refused ones included.      *)
LEMMA NextIInv == IInv /\ [Next]_vars => IInv'
<1> SUFFICES ASSUME IInv, [Next]_vars PROVE IInv'
  OBVIOUS
<1> USE DEF IInv, Exit, Goto
<1>0. /\ opts.auto \in BOOLEAN /\ opts.name \in BOOLEAN /\ opts.was \in Nat \cup {NoFile}
      /\ opts.s \in {{}} \cup {{t} : t \in SizeTexts} /\ opts.c \in {{}} \cup {{t} : t \in CSizeTexts}
      /\ size \in Nat /\ csize \in Nat /\ pos \in Nat /\ file \in Nat \cup {NoFile}
      /\ SizeTexts \in SUBSET Texts /\ CSizeTexts \in SUBSET Texts
  BY MkfsAssumption DEF TypesOK
<1>1. CASE Options
  <2>1. CASE Exit
    <3>1. opts' = opts /\ pc' = "exit" /\ UNCHANGED <<size, csize, file, pos, before, zeros, sb, mark>>
      BY <1>1, <2>1 DEF Options
    <3>2. opts.was # NoFile => before = opts.was /\ file = opts.was /\ zeros.to = 0 /\ sb = NoSb
      BY <1>0, <1>1 DEF Options, Unopened, Larger, NoFile
    <3> QED
      BY <3>1, <3>2 DEF TypesOK, Unopened, Asked, Opened, Cleared, Laid, Failed
  <2>2. CASE ~Exit
    <3>1. PICK v \in SizeOf(opts.s), c \in SizeOf(opts.c) :
            /\ size' = v /\ csize' = c
            /\ pc' = IF opts.auto THEN "loopback" ELSE "device"
            /\ UNCHANGED <<opts, file, pos, before, zeros, sb, mark>>
      BY <1>1, <2>2 DEF Options
    <3>2. v \in Nat /\ Meant(opts.s, v) /\ c \in Nat /\ Meant(opts.c, c)
      BY <1>0, GivenIsMeant
    <3> QED
      BY <1>0, <1>1, <3>1, <3>2
         DEF Options, TypesOK, Unopened, Asked, Opened, Cleared, Laid, Failed, Meant
  <2> QED
    BY <2>1, <2>2
<1>2. CASE create_loopback
  <2>1. opts.was # NoFile => before = opts.was /\ file = opts.was /\ zeros.to = 0 /\ sb = NoSb
    BY <1>0, <1>2 DEF create_loopback, Unopened, Larger, NoFile
  <2> QED
    BY <1>0, <1>2, <2>1
       DEF create_loopback, TypesOK, Unopened, Asked, Opened, Cleared, Laid, Failed, Meant
<1>3. CASE open_device
  <2>1. opts.was # NoFile => before = opts.was /\ file = opts.was /\ zeros.to = 0 /\ sb = NoSb
    BY <1>0, <1>3 DEF open_device, Unopened, Larger, NoFile
  <2> QED
    BY <1>0, <1>3, <2>1
       DEF open_device, TypesOK, Unopened, Asked, Opened, Cleared, Laid, Failed, Meant
<1>4. CASE make_data_cluster
  <2>1. CASE csize = 0
    BY <1>0, <1>4, <2>1
       DEF make_data_cluster, TypesOK, Unopened, Asked, Opened, Cleared, Laid, Failed
  <2>2. CASE csize # 0
    <3> DEFINE whole == (size \div csize) * csize
               to == pos + whole
    <3>1. whole \in Nat /\ size - whole < csize
      BY <1>0, <2>2, WholeClusters
    <3>2. /\ zeros' = [from |-> pos, to |-> to] /\ file' = Larger(file, to) /\ pos' = to
          /\ pc = "clusters" /\ pc' = "super"
          /\ UNCHANGED <<opts, size, csize, before, sb, mark>>
      BY <1>4, <2>2 DEF make_data_cluster
    <3> HIDE DEF whole
    <3>3. zeros'.from = pos /\ zeros'.to = to /\ to \in Nat /\ file' \in Nat
      BY <1>0, <3>1, <3>2 DEF Larger, NoFile
    <3>4. opts.auto => size - to < csize
      <4>1. opts.auto => pos = 0
        BY <3>2 DEF Opened
      <4> QED
        BY <1>0, <3>1, <4>1
    <3> HIDE DEF to
    <3> QED
      BY <3>2, <3>3, <3>4 DEF TypesOK, Unopened, Asked, Opened, Cleared, Laid, Failed
  <2> QED
    BY <2>1, <2>2
<1>5. CASE create_volume
  <2>1. file' \in Nat /\ pos' \in Nat
    BY <1>0, <1>5 DEF create_volume, Larger, Sector, NoFile
  <2> QED
    BY <1>5, <2>1 DEF create_volume, TypesOK, Unopened, Asked, Opened, Cleared, Laid, Failed
<1>6. CASE make_fat
  <2>1. pc = "fat" /\ sb = initialize_sb(size) /\ opts' = opts
    BY <1>6 DEF make_fat, Laid
  <2>2. sb.width = mfs_fat_index_size(Clusters(size)) /\ sb.fat = 1
    BY <2>1 DEF initialize_sb, SectorsOfSuperBlk, Sector
  <2>3. CASE sb.width = 0
    <3>1. Clusters(size) >= 65536
      <4>1. Clusters(size) \in Nat
        BY <1>0 DEF Clusters, Sector
      <4> QED
        BY <2>2, <2>3, <4>1 DEF mfs_fat_index_size
    <3> QED
      BY <1>6, <2>1, <2>3, <3>1
         DEF make_fat, TypesOK, Unopened, Asked, Opened, Cleared, Laid, Failed, Clusters
  <2>4. CASE sb.width # 0
    <3>1. sb.width \in Nat
      BY <2>2 DEF mfs_fat_index_size
    <3>2. IndexPosition(2) \in Nat
      BY <2>2, <3>1 DEF IndexPosition, Sector
    <3>3. /\ mark' = IndexPosition(2) /\ file' = Larger(file, mark' + 4) /\ pos' = mark' + 4
          /\ pc' = "done" /\ UNCHANGED <<size, csize, before, zeros, sb>>
      BY <1>6, <2>4 DEF make_fat
    <3>4. file' \in Nat /\ pos' \in Nat
      BY <1>0, <3>2, <3>3 DEF Larger, NoFile
    <3>5. mark' = IndexPosition(2)'
      BY <3>3 DEF IndexPosition
    <3> QED
      BY <2>1, <2>4, <3>3, <3>4, <3>5
         DEF TypesOK, Unopened, Asked, Opened, Cleared, Laid, Failed
  <2> QED
    BY <2>3, <2>4
<1>7. CASE UNCHANGED vars
  BY <1>7 DEF vars, TypesOK, Unopened, Asked, Opened, Cleared, Laid, Failed, IndexPosition
<1> QED
  BY <1>1, <1>2, <1>3, <1>4, <1>5, <1>6, <1>7 DEF Next

(* The invariant holds in every state.                                     *)
LEMMA IInvAlways == Spec => []IInv
BY InitIInv, NextIInv, PTL DEF Spec

-----------------------------------------------------------------------------
(* What follows from it.                                                   *)

(* A size that the formatters accept is the one that was written on the    *)
(* command line, in words of any width: parse_size refuses what would      *)
(* overflow, and no less (util.c).                                         *)
THEOREM AcceptedSizesAreMeant == Spec => []SizesAreMeant
<1>1. IInv => SizesAreMeant
  BY DEF IInv, Opened, SizesAreMeant
<1> QED
  BY <1>1, IInvAlways, PTL

(* The super block of a volume of n clusters.                              *)
SuperBlockOf(n) ==
  [fat |-> SectorsOfSuperBlk, sectors |-> SectorsOfFat(n), copies |-> 2,
   data |-> SectorsOfSuperBlk + 2 * SectorsOfFat(n), width |-> mfs_fat_index_size(n)]

(* What LayoutHolds says of a volume of n clusters, with the mark of the   *)
(* root at position at.                                                    *)
Sound(n, b, at) ==
  LET indices == (b.sectors * b.copies * Sector) \div b.width IN
  /\ indices + 1 < get_bad_cluster(b.width) /\ indices + 1 < get_end_cluster(b.width)
  /\ b.fat + b.sectors * b.copies <= b.data
  /\ indices >= n - b.data /\ at + 4 <= b.data * Sector <=> n >= 256 /\ n < 32768

(* The numbers behind it, for q sectors of a FAT of n clusters.            *)
Enough(n, q) == 512 * q >= n - (1 + 2 * q) /\ q >= 1

(* A FAT of less than 256 clusters has no sector.                          *)
LEMMA SmallFat ==
  ASSUME NEW n \in Nat, n < 256
  PROVE  mfs_fat_index_size(n) = 1 /\ SectorsOfFat(n) = 0
<1>1. mfs_fat_index_size(n) = 1
  BY DEF mfs_fat_index_size
<1>2. n % 65536 = n /\ n \div 512 = 0 /\ 2^16 = 65536
  OBVIOUS
<1>3. n * 1 = n
  OBVIOUS
<1> QED
  BY <1>1, <1>2, <1>3 DEF SectorsOfFat, Sector

(* A larger one has at most 127, which are enough up to 32767 clusters;    *)
(* from 32768 on, as many are missing as 2^16 bytes take.                  *)
LEMMA LargeFat ==
  ASSUME NEW n \in Nat, n >= 256, n < 65536
  PROVE  /\ mfs_fat_index_size(n) = 2
         /\ \E q \in Nat : q = SectorsOfFat(n) /\ q <= 127 /\ (Enough(n, q) <=> n < 32768)
<1>1. n \in Nat /\ n >= 256 /\ n < 65536
  OBVIOUS
<1>2. mfs_fat_index_size(n) = 2
  BY <1>1 DEF mfs_fat_index_size
<1>3. PICK m \in Nat : /\ m < 65536
                       /\ n < 32768 => m = 2 * n
                       /\ n >= 32768 => m = 2 * n - 65536
                       /\ (n * 2) % 65536 = m
  <2>1. CASE n < 32768
    <3>1. n * 2 \in Nat /\ n * 2 < 65536 /\ n * 2 = 2 * n
      BY <2>1, <1>1
    <3>2. (n * 2) % 65536 = n * 2
      BY <3>1
    <3> QED
      BY <2>1, <3>1, <3>2
  <2>2. CASE n >= 32768
    <3>1. PICK k \in Nat : k = 2 * n - 65536
      BY <2>2, <1>1
    <3>2. k < 65536 /\ n * 2 = k + 65536
      BY <2>2, <1>1, <3>1
    <3>3. (k + 65536) % 65536 = k
      BY <3>1, <3>2
    <3> QED
      BY <2>2, <3>1, <3>2, <3>3
  <2> QED
    BY <2>1, <2>2
<1>4. PICK q \in Nat : q = m \div 512
  BY <1>3
<1>5. 512 * q <= m /\ m < 512 * (q + 1)
  BY <1>3, <1>4
<1>6. q <= 127
  BY <1>3, <1>5
<1>7. n < 32768 => Enough(n, q)
  BY <1>1, <1>3, <1>5 DEF Enough
<1>8. n >= 32768 => ~Enough(n, q)
  BY <1>1, <1>3, <1>5, <1>6 DEF Enough
<1>9. q = SectorsOfFat(n)
  <2>1. 2^16 = 65536
    OBVIOUS
  <2>2. SectorsOfFat(n) = ((n * 2) % 65536) \div 512
    BY <1>2, <2>1 DEF SectorsOfFat, Sector
  <2> QED
    BY <1>3, <1>4, <2>2
<1> QED
  BY <1>1, <1>2, <1>6, <1>7, <1>8, <1>9

(* The layout of every volume for which there is a width.                  *)
LEMMA LayoutIsSound ==
  ASSUME NEW n \in Nat, n < 65536
  PROVE  Sound(n, SuperBlockOf(n), 512)
<1>1. PICK b : b = SuperBlockOf(n)
  OBVIOUS
<1>2. PICK s, w : s = SectorsOfFat(n) /\ w = mfs_fat_index_size(n)
  OBVIOUS
<1>3. SectorsOfSuperBlk = 1
  BY DEF SectorsOfSuperBlk, Sector
<1>4. b.fat = 1 /\ b.sectors = s /\ b.copies = 2 /\ b.data = 1 + 2 * s /\ b.width = w
  BY <1>1, <1>2, <1>3 DEF SuperBlockOf
<1>5. CASE n < 256
  <2>1. s = 0 /\ w = 1
    BY <1>2, <1>5, SmallFat
  <2>2. (0 * 2 * 512) \div 1 = 0 /\ 256^1 = 256
    OBVIOUS
  <2>3. /\ 0 + 1 < 256 - 2 /\ 0 + 1 < 256 - 1 /\ 1 + 0 * 2 <= 1 + 2 * 0
        /\ ~(512 + 4 <= (1 + 2 * 0) * 512)
    OBVIOUS
  <2>4. Sound(n, b, 512)
    BY <1>4, <1>5, <2>1, <2>2, <2>3 DEF Sound, Sector, get_bad_cluster, get_end_cluster
  <2> QED
    BY <1>1, <2>4
<1>6. CASE n >= 256
  <2>1. w = 2 /\ s \in Nat /\ s <= 127 /\ (Enough(n, s) <=> n < 32768)
    BY <1>2, <1>6, LargeFat
  <2>2. (s * 2 * 512) \div 2 = 512 * s
    BY <2>1
  <2>3. 256^2 - 2 = 65534 /\ 256^2 - 1 = 65535
    OBVIOUS
  <2>4. /\ 512 * s + 1 < 65534 /\ 512 * s + 1 < 65535 /\ 1 + s * 2 <= 1 + 2 * s
        /\ 512 + 4 <= (1 + 2 * s) * 512 <=> s >= 1
    BY <2>1
  <2>5. 512 * s >= n - (1 + 2 * s) /\ 512 + 4 <= (1 + 2 * s) * 512 <=> n >= 256 /\ n < 32768
    BY <1>6, <2>1, <2>4 DEF Enough
  <2>6. Sound(n, b, 512)
    BY <1>4, <2>1, <2>2, <2>3, <2>4, <2>5 DEF Sound, Sector, get_bad_cluster, get_end_cluster
  <2> QED
    BY <1>1, <2>6
<1> QED
  BY <1>5, <1>6

(* Of every volume, whatever its size in bytes, the indices of the FAT are *)
(* not marks, and the FAT lies before the data; it holds an index for all  *)
(* data and the mark of the root just from 256 to 32767 clusters.          *)
THEOREM LayoutsHold == Spec => []LayoutHolds
<1>1. ASSUME IInv, pc = "done" PROVE Sound(Clusters(size), sb, mark)
  <2>1. sb = initialize_sb(size) /\ mark = IndexPosition(2) /\ sb.width # 0
    BY <1>1 DEF IInv, Laid
  <2>2. sb = SuperBlockOf(Clusters(size))
    BY <2>1 DEF initialize_sb, SuperBlockOf
  <2>3. size \in Nat
    BY <1>1 DEF IInv, TypesOK
  <2>4. Clusters(size) \in Nat
    BY <2>3 DEF Clusters, Sector
  <2>5. sb.width = mfs_fat_index_size(Clusters(size)) /\ sb.fat = 1
    BY <2>2 DEF SuperBlockOf, SectorsOfSuperBlk, Sector
  <2>6. Clusters(size) < 65536 /\ sb.width \in Nat
    BY <2>1, <2>4, <2>5 DEF mfs_fat_index_size
  <2>7. Sound(Clusters(size), sb, 512)
    BY <2>2, <2>4, <2>6, LayoutIsSound
  <2>8. mark = 512
    BY <2>1, <2>5, <2>6 DEF IndexPosition, Sector
  <2> QED
    BY <2>7, <2>8
<1>2. IInv => LayoutHolds
  BY <1>1 DEF LayoutHolds, Indices, Sound
<1> QED
  BY <1>2, IInvAlways, PTL

(* The volume that --auto makes is blank up to its last whole cluster, and *)
(* a run that fails leaves what was there alone, for all command lines.    *)
THEOREM OnlyBlanksAreWritten == Spec => []WritesWhatItShould
<1>1. IInv => WritesWhatItShould
  BY DEF IInv, Cleared, Failed, WritesWhatItShould
<1> QED
  BY <1>1, IInvAlways, PTL
=============================================================================
