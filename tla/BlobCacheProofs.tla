-------------------------- MODULE BlobCacheProofs --------------------------
(***************************************************************************)
(* Proofs about BlobCache, for any requests, paths, commits, bodies and    *)
(* cap: the list has one entry per key, is charged what the byte count     *)
(* says and no more than the cap, and the cache cannot be noticed.         *)
(***************************************************************************)
EXTENDS BlobCache, TLAPS, WellFoundedInduction

\* A list that may be in the cache: one entry per key, each with the bytes
\* its key names.
Sound(list) ==
  /\ list \in Seq(Entry)
  /\ \A i, j \in 1..Len(list) : list[i].key = list[j].key => i = j
  /\ \A i \in 1..Len(list) : list[i].blob = Content(list[i].key[1], list[i].key[2])

-----------------------------------------------------------------------------
(* What a list is charged.                                                 *)

\* Of a set of naturals, one is the least.
LEMMA LeastOf ==
  ASSUME NEW T \in SUBSET Nat, T # {}
  PROVE  \E x \in T : \A y \in T : x <= y
<1> DEFINE R == {ss \in Nat \X Nat : ss[1] < ss[2]}
<1>1. IsWellFoundedOn(R, Nat)
  BY NatLessThanWellFounded, Zenon DEF OpToRel
<1>2. \A x, y \in Nat : y < x => <<y, x>> \in R
  OBVIOUS
<1> HIDE DEF R
<1>3. \E x \in T : \A y \in T : ~(<<y, x>> \in R)
  BY <1>1, WFMin
<1>4. \A x, y \in Nat : y < x \/ x <= y
  OBVIOUS
<1> QED
  BY <1>2, <1>3, <1>4, Zenon

\* Induction up to m, over a set of naturals.
LEMMA InductiveTo ==
  ASSUME NEW m \in Nat, NEW T, 0 \in T, \A n \in 0..(m - 1) : n \in T => n + 1 \in T
  PROVE  0..m \subseteq T
<1> SUFFICES ASSUME (0..m) \ T # {} PROVE FALSE
  OBVIOUS
<1>1. PICK x \in (0..m) \ T : \A y \in (0..m) \ T : x <= y
  <2>1. (0..m) \ T \in SUBSET Nat
    OBVIOUS
  <2> QED
    BY <2>1, LeastOf
<1>2. x # 0
  BY <1>1
<1>3. x - 1 \in 0..(m - 1) /\ x - 1 \in 0..m /\ x - 1 + 1 = x /\ ~(x <= x - 1)
  BY <1>1, <1>2
<1>4. x - 1 \in T
  BY <1>1, <1>3
<1> QED
  BY <1>1, <1>3, <1>4

\* h sums up the first n entries' sizes.
Sums(list, n, h) ==
  /\ h \in [0..n -> Nat] /\ h[0] = 0
  /\ \A k \in 1..n : h[k] = h[k - 1] + list[k].size

LEMMA SizeType ==
  ASSUME NEW list \in Seq(Entry), NEW k \in 1..Len(list)
  PROVE  list[k].size \in Nat
<1>1. list[k] \in Entry
  OBVIOUS
<1> QED
  BY <1>1 DEF Entry

\* Charges is such a sum over the whole list.
LEMMA ChargesSum ==
  ASSUME NEW list \in Seq(Entry)
  PROVE  Sums(list, Len(list), Charges(list))
<1> DEFINE m == Len(list)
           T == {n \in Nat : \E h : Sums(list, n, h)}
           Loop(f) == [n \in 0..m |-> IF n = 0 THEN 0 ELSE f[n - 1] + list[n].size]
           c == CHOOSE f : f = Loop(f)
<1>1. m \in Nat
  OBVIOUS
<1>2. 0 \in T
  <2> DEFINE z == [k \in 0..0 |-> 0]
  <2>1. z \in [0..0 -> Nat] /\ z[0] = 0 /\ 1..0 = {}
    OBVIOUS
  <2> HIDE DEF z
  <2>2. Sums(list, 0, z)
    BY <2>1 DEF Sums
  <2> QED
    BY <2>2
<1>3. ASSUME NEW n \in 0..(m - 1), n \in T PROVE n + 1 \in T
  <2>1. PICK h : Sums(list, n, h)
    BY <1>3
  <2>2. h \in [0..n -> Nat] /\ h[0] = 0 /\ \A k \in 1..n : h[k] = h[k - 1] + list[k].size
    BY <2>1 DEF Sums
  <2>3. n \in Nat /\ n + 1 \in 1..Len(list)
    BY <1>1
  <2>4. list[n + 1].size \in Nat
    BY <2>3, SizeType
  <2> DEFINE a == list[n + 1].size
             j == [k \in 0..(n + 1) |-> IF k = n + 1 THEN h[n] + a ELSE h[k]]
  <2>5. a \in Nat /\ a = list[n + 1].size
    BY <2>4
  <2> HIDE DEF a
  <2>6. \A k \in 0..(n + 1) : k = n + 1 \/ (k # n + 1 /\ k \in 0..n)
    BY <2>3
  <2>7. h[n] \in Nat /\ h[n] + a \in Nat
    BY <2>2, <2>3, <2>5
  <2>8. j \in [0..(n + 1) -> Nat] /\ j[0] = 0
    BY <2>2, <2>3, <2>6, <2>7
  <2>9. j[n + 1] = h[n] + a /\ \A k \in 0..n : j[k] = h[k]
    BY <2>3
  <2> HIDE DEF j
  <2>10. ASSUME NEW k \in 1..(n + 1) PROVE j[k] = j[k - 1] + list[k].size
    <3>1. CASE k = n + 1
      <4>1. k - 1 = n /\ n \in 0..n
        BY <2>3, <3>1
      <4> QED
        BY <2>5, <2>9, <3>1, <4>1
    <3>2. CASE k # n + 1
      <4>1. k \in 1..n /\ k \in 0..n /\ k - 1 \in 0..n
        BY <2>3, <3>2
      <4> QED
        BY <2>2, <2>9, <4>1
    <3> QED
      BY <3>1, <3>2
  <2>11. Sums(list, n + 1, j)
    BY <2>8, <2>10 DEF Sums
  <2> QED
    BY <2>3, <2>11
<1>4. m \in T
  <2> HIDE DEF T, m
  <2>1. 0..m \subseteq T
    BY <1>1, <1>2, <1>3, InductiveTo
  <2>2. m \in 0..m
    BY <1>1
  <2> QED
    BY <2>1, <2>2
<1>5. PICK h : Sums(list, m, h)
  BY <1>4
<1> HIDE DEF T
<1>6. Charges(list) = c
  BY DEF Charges
<1> HIDE DEF c
<1>7. h = Loop(h)
  <2>1. h \in [0..m -> Nat] /\ h[0] = 0 /\ \A k \in 1..m : h[k] = h[k - 1] + list[k].size
    BY <1>5 DEF Sums
  <2>2. \A k \in 0..m : k = 0 \/ (k # 0 /\ k \in 1..m)
    BY <1>1
  <2>3. ASSUME NEW k \in 0..m PROVE h[k] = IF k = 0 THEN 0 ELSE h[k - 1] + list[k].size
    BY <2>1, <2>2
  <2>4. h = [k \in 0..m |-> h[k]]
    BY <2>1
  <2> QED
    BY <2>3, <2>4
<1> HIDE DEF Loop
<1>8. c = Loop(c)
  BY <1>7, Zenon DEF c
<1>9. DOMAIN c = 0..m /\ \A k \in 0..m : c[k] = IF k = 0 THEN 0 ELSE c[k - 1] + list[k].size
  BY <1>8 DEF Loop
<1>10. c = [k \in 0..m |-> c[k]]
  BY <1>8 DEF Loop
<1> DEFINE N == {k \in 0..m : c[k] \in Nat}
<1>11. 0..m \subseteq N
  <2>1. 0 \in N
    BY <1>1, <1>9
  <2>2. ASSUME NEW k \in 0..(m - 1), k \in N PROVE k + 1 \in N
    <3>1. k + 1 \in 0..m /\ k + 1 # 0 /\ k + 1 - 1 = k /\ k + 1 \in 1..Len(list)
      BY <1>1
    <3>2. list[k + 1].size \in Nat
      BY <3>1, SizeType
    <3>3. c[k + 1] = c[k] + list[k + 1].size
      BY <1>9, <3>1
    <3>4. c[k] \in Nat
      BY <2>2
    <3>5. c[k + 1] \in Nat
      BY <3>2, <3>3, <3>4
    <3> QED
      BY <3>1, <3>5
  <2> HIDE DEF N, m
  <2> QED
    BY <1>1, <2>1, <2>2, InductiveTo
<1>12. c \in [0..m -> Nat]
  BY <1>10, <1>11
<1>13. c[0] = 0 /\ \A k \in 1..m : c[k] = c[k - 1] + list[k].size
  <2>1. 0 \in 0..m /\ \A k \in 1..m : k \in 0..m /\ k # 0
    BY <1>1
  <2> QED
    BY <1>9, <2>1
<1> QED
  BY <1>6, <1>12, <1>13 DEF Sums

\* Lists that begin alike are charged alike that far.
LEMMA SameSums ==
  ASSUME NEW list, NEW other, NEW p \in Nat, NEW q \in Nat, NEW m \in Nat, m <= p, m <= q,
         NEW f, NEW g, Sums(list, p, f), Sums(other, q, g),
         \A k \in 1..m : list[k].size = other[k].size
  PROVE  f[m] = g[m]
<1> DEFINE T == {k \in 0..m : f[k] = g[k]}
<1>1. /\ f[0] = 0 /\ g[0] = 0 /\ \A k \in 1..p : f[k] = f[k - 1] + list[k].size
      /\ \A k \in 1..q : g[k] = g[k - 1] + other[k].size
  BY DEF Sums
<1>2. 0 \in T
  BY <1>1
<1>3. ASSUME NEW k \in 0..(m - 1), k \in T PROVE k + 1 \in T
  <2>1. k + 1 \in 0..m /\ k + 1 \in 1..m /\ k + 1 \in 1..p /\ k + 1 \in 1..q /\ k + 1 - 1 = k
    OBVIOUS
  <2>2. f[k + 1] = f[k] + list[k + 1].size /\ g[k + 1] = g[k] + other[k + 1].size
    BY <1>1, <2>1
  <2>3. f[k] = g[k] /\ list[k + 1].size = other[k + 1].size
    BY <1>3, <2>1
  <2> QED
    BY <2>1, <2>2, <2>3
<1>4. m \in 0..m
  OBVIOUS
<1> HIDE DEF T
<1>5. 0..m \subseteq T
  BY <1>2, <1>3, InductiveTo
<1> QED
  BY <1>4, <1>5 DEF T

\* The list other is list with an entry of size a put before it.
Fronted(list, other, m, a) ==
  /\ a \in Nat /\ other[1].size = a
  /\ \A k \in 1..m : list[k].size \in Nat /\ other[k + 1].size = list[k].size

\* The list other is list without its p-th entry.
Lessened(list, other, m, p) ==
  /\ \A k \in 1..(m + 1) : list[k].size \in Nat
  /\ \A k \in 1..m : other[k] = IF k < p THEN list[k] ELSE list[k + 1]

\* One entry more at the front adds its size.
LEMMA FrontSums ==
  ASSUME NEW list, NEW other, NEW m \in Nat, NEW a, Fronted(list, other, m, a),
         NEW f, NEW g, Sums(list, m, f), Sums(other, m + 1, g)
  PROVE  g[m + 1] = a + f[m]
<1>0. /\ a \in Nat /\ other[1].size = a
      /\ \A k \in 1..m : list[k].size \in Nat /\ other[k + 1].size = list[k].size
  BY DEF Fronted
<1> USE <1>0
<1> DEFINE T == {k \in 0..m : g[k + 1] = a + f[k]}
<1>1. /\ f \in [0..m -> Nat] /\ f[0] = 0 /\ g[0] = 0
      /\ \A k \in 1..m : f[k] = f[k - 1] + list[k].size
      /\ \A k \in 1..(m + 1) : g[k] = g[k - 1] + other[k].size
  BY DEF Sums
<1>2. 0 \in T
  <2>1. 1 \in 1..(m + 1) /\ 1 - 1 = 0 /\ 0 + 1 = 1 /\ 0 \in 0..m
    OBVIOUS
  <2>2. g[1] = g[0] + a
    BY <1>1, <2>1
  <2> QED
    BY <1>1, <2>1, <2>2
<1>3. ASSUME NEW k \in 0..(m - 1), k \in T PROVE k + 1 \in T
  <2> DEFINE j == k + 1
             i == j + 1
  <2>1. /\ j \in 0..m /\ k \in 0..m /\ j \in 1..m /\ j - 1 = k /\ i \in 1..(m + 1)
        /\ i - 1 = j /\ i = j + 1 /\ j = k + 1
    OBVIOUS
  <2> HIDE DEF j, i
  <2>2. f[j] = f[k] + list[j].size
    BY <1>1, <2>1
  <2>3. g[i] = g[j] + other[i].size
    BY <1>1, <2>1
  <2>4. g[j] = a + f[k] /\ other[i].size = list[j].size /\ list[j].size \in Nat
    BY <1>3, <2>1
  <2>5. f[k] \in Nat
    BY <1>1, <2>1
  <2>6. g[i] = a + f[j]
    BY <2>2, <2>3, <2>4, <2>5
  <2>7. j \in T
    BY <2>1, <2>6
  <2> QED
    BY <2>7 DEF j
<1>4. m \in 0..m
  OBVIOUS
<1> HIDE DEF T
<1>5. 0..m \subseteq T
  BY <1>2, <1>3, InductiveTo
<1> QED
  BY <1>4, <1>5 DEF T

\* An entry less takes its size off.
LEMMA LessSums ==
  ASSUME NEW list, NEW other, NEW m \in Nat, NEW p \in 1..(m + 1), Lessened(list, other, m, p),
         NEW f, NEW g, Sums(list, m + 1, f), Sums(other, m, g)
  PROVE  g[m] + list[p].size = f[m + 1]
<1>0. /\ \A k \in 1..(m + 1) : list[k].size \in Nat
      /\ \A k \in 1..m : other[k] = IF k < p THEN list[k] ELSE list[k + 1]
  BY DEF Lessened
<1> USE <1>0
<1> DEFINE b == list[p].size
           T == {k \in 0..m : IF k < p THEN g[k] = f[k] ELSE g[k] + b = f[k + 1]}
<1>1. /\ f \in [0..(m + 1) -> Nat] /\ f[0] = 0 /\ g[0] = 0 /\ g \in [0..m -> Nat]
      /\ \A k \in 1..(m + 1) : f[k] = f[k - 1] + list[k].size
      /\ \A k \in 1..m : g[k] = g[k - 1] + other[k].size
  BY DEF Sums
<1>2. b \in Nat /\ b = list[p].size
  OBVIOUS
<1>3. 0 \in T
  BY <1>1
<1> HIDE DEF b
<1>4. ASSUME NEW k \in 0..(m - 1), k \in T PROVE k + 1 \in T
  <2> DEFINE j == k + 1
             i == j + 1
  <2>1. /\ j \in 0..m /\ k \in 0..m /\ j \in 1..m /\ j - 1 = k /\ i \in 1..(m + 1)
        /\ i - 1 = j /\ i = j + 1 /\ j = k + 1 /\ j \in 1..(m + 1) /\ k \in 0..(m + 1) /\ j \in 0..(m + 1)
    OBVIOUS
  <2> HIDE DEF j, i
  <2>2. g[j] = g[k] + other[j].size /\ g[k] \in Nat
    BY <1>1, <2>1
  <2>3. f[j] = f[k] + list[j].size /\ f[k] \in Nat /\ f[j] \in Nat
    BY <1>1, <2>1
  <2>4. f[i] = f[j] + list[i].size /\ list[i].size \in Nat /\ list[j].size \in Nat
    BY <1>1, <2>1
  <2>5. CASE j < p
    <3>1. k < p /\ g[k] = f[k] /\ other[j] = list[j]
      BY <1>4, <2>1, <2>5
    <3>2. g[j] = f[j]
      BY <2>2, <2>3, <3>1
    <3>3. j \in T
      BY <2>1, <2>5, <3>2
    <3> QED
      BY <3>3 DEF j
  <2>6. CASE j = p
    <3>1. k < p /\ g[k] = f[k] /\ other[j] = list[i] /\ list[j].size = b
      BY <1>2, <1>4, <2>1, <2>6
    <3>2. g[j] + b = f[i]
      BY <1>2, <2>2, <2>3, <2>4, <3>1
    <3>3. j \in T
      BY <2>1, <2>6, <3>2
    <3> QED
      BY <3>3 DEF j
  <2>7. CASE j > p
    <3>1. ~(k < p) /\ ~(j < p) /\ g[k] + b = f[j] /\ other[j] = list[i]
      BY <1>4, <2>1, <2>7
    <3>2. g[j] + b = f[i]
      BY <1>2, <2>2, <2>4, <3>1
    <3>3. j \in T
      BY <2>1, <3>1, <3>2
    <3> QED
      BY <3>3 DEF j
  <2> QED
    BY <2>1, <2>5, <2>6, <2>7
<1>5. m \in T
  <2>1. m \in 0..m
    OBVIOUS
  <2> HIDE DEF T
  <2>2. 0..m \subseteq T
    BY <1>3, <1>4, InductiveTo
  <2> QED
    BY <2>1, <2>2
<1>6. CASE m < p
  <2>1. g[m] = f[m] /\ p = m + 1 /\ m + 1 \in 1..(m + 1) /\ m + 1 - 1 = m
    BY <1>5, <1>6
  <2>2. f[m + 1] = f[m] + list[m + 1].size
    BY <1>1, <2>1
  <2> QED
    BY <1>2, <2>1, <2>2
<1> QED
  BY <1>2, <1>5, <1>6

\* evict removes at most what there is, and all of it or enough.
LEMMA DroppedRange ==
  ASSUME NEW list, Len(list) \in Nat, NEW n
  PROVE  /\ Dropped(list, n) \in 0..Len(list)
         /\ \/ Dropped(list, n) = Len(list)
            \/ n - Behind(list, Len(list) - Dropped(list, n)) <= Limit
<1> DEFINE Fits == {d \in 0..Len(list) : n - Behind(list, Len(list) - d) <= Limit}
           T == {Len(list)} \cup Fits
<1>1. T \in SUBSET Nat /\ T # {} /\ T \subseteq 0..Len(list)
  OBVIOUS
<1>2. Dropped(list, n) = Min(T)
  BY DEF Dropped
<1> HIDE DEF T
<1>3. \E x \in T : \A y \in T : x =< y
  BY <1>1, LeastOf
<1>4. Min(T) \in T
  BY <1>3 DEF Min
<1> QED
  BY <1>1, <1>2, <1>4 DEF T

\* What a list is charged as a whole.
Charge(list) == Charges(list)[Len(list)]

LEMMA ChargeType ==
  ASSUME NEW list \in Seq(Entry)
  PROVE  /\ Charge(list) \in Nat /\ Behind(list, 0) = Charge(list)
         /\ \A n \in 0..Len(list) : Charges(list)[n] \in Nat /\ Behind(list, n) = Charge(list) - Charges(list)[n]
<1>1. Sums(list, Len(list), Charges(list)) /\ Len(list) \in Nat
  BY ChargesSum
<1>2. Charges(list) \in [0..Len(list) -> Nat] /\ Charges(list)[0] = 0
  BY <1>1 DEF Sums
<1>3. Len(list) \in 0..Len(list) /\ 0 \in 0..Len(list)
  BY <1>1
<1> QED
  BY <1>2, <1>3 DEF Charge, Behind

\* PushFront adds the entry's size to the charge.
LEMMA PushCharge ==
  ASSUME NEW list \in Seq(Entry), NEW e \in Entry
  PROVE  PushFront(e, list) \in Seq(Entry) /\ Charge(PushFront(e, list)) = e.size + Charge(list)
<1> DEFINE p == PushFront(e, list)
           m == Len(list)
           f == Charges(list)
           g == Charges(p)
<1>1. m \in Nat /\ \A j \in 1..m : list[j] \in Entry
  OBVIOUS
<1>2. \A j \in 1..(m + 1) : j = 1 \/ j - 1 \in 1..m
  BY <1>1
<1>3. p \in Seq(Entry) /\ Len(p) = m + 1
  BY <1>1, <1>2 DEF PushFront
<1>4. \A j \in 1..(m + 1) : p[j] = IF j = 1 THEN e ELSE list[j - 1]
  BY DEF PushFront
<1> HIDE DEF p
<1>5. p[1] = e /\ \A k \in 1..m : p[k + 1] = list[k]
  <2>1. 1 \in 1..(m + 1) /\ \A k \in 1..m : k + 1 \in 1..(m + 1) /\ k + 1 # 1 /\ k + 1 - 1 = k
    BY <1>1
  <2> QED
    BY <1>4, <2>1
<1>6. Sums(list, m, f) /\ Sums(p, m + 1, g)
  BY <1>3, ChargesSum
<1>7. e.size \in Nat /\ \A k \in 1..m : list[k].size \in Nat
  BY SizeType DEF Entry
<1> DEFINE a == e.size
<1>8. Fronted(list, p, m, a)
  BY <1>5, <1>7 DEF Fronted
<1> HIDE DEF f, g, m, a
<1>9. g[m + 1] = a + f[m]
  BY <1>1, <1>6, <1>8, FrontSums
<1> QED
  BY <1>3, <1>9 DEF Charge, f, g, m, p, a

\* Without a key's entry a list is charged that much less.
LEMMA OthersCharge ==
  ASSUME NEW list \in Seq(Entry), NEW k
  PROVE  /\ Others(list, k) \in Seq(Entry)
         /\ Has(list, k) => Held(list, k) \in Entry
         /\ Charge(Others(list, k)) + (IF Has(list, k) THEN Held(list, k).size ELSE 0) = Charge(list)
<1>1. CASE ~Has(list, k)
  BY <1>1, ChargeType DEF Others
<1>2. CASE Has(list, k)
  <2> DEFINE i == Position(list, k)
             w == Without(list, i)
             m == Len(list) - 1
             f == Charges(list)
             g == Charges(w)
  <2>1. i \in 1..Len(list)
    BY <1>2 DEF Has, Position
  <2>2. Held(list, k) = list[i] /\ Others(list, k) = w
    BY <1>2 DEF Held, Others
  <2> HIDE DEF i
  <2>3. m \in Nat /\ Len(list) = m + 1 /\ \A j \in 1..Len(list) : list[j] \in Entry
    BY <2>1
  <2>4. \A j \in 1..m : j \in 1..Len(list) /\ j + 1 \in 1..Len(list)
    BY <2>3
  <2>5. w \in Seq(Entry) /\ Len(w) = m /\ \A j \in 1..m : w[j] = IF j < i THEN list[j] ELSE list[j + 1]
    BY <2>1, <2>3, <2>4 DEF Without
  <2> HIDE DEF w, m
  <2>6. Sums(list, m + 1, f) /\ Sums(w, m, g)
    BY <2>3, <2>5, ChargesSum
  <2>7. \A j \in 1..(m + 1) : list[j].size \in Nat
    BY <2>3, SizeType
  <2>8. i \in 1..(m + 1)
    BY <2>1, <2>3
  <2> HIDE DEF f, g
  <2>9. g[m] + list[i].size = f[m + 1]
    <3>1. Lessened(list, w, m, i)
      BY <2>5, <2>7 DEF Lessened
    <3>2. m \in Nat
      BY <2>3
    <3> QED
      BY <2>6, <2>8, <3>1, <3>2, LessSums
  <2>10. list[i] \in Entry
    BY <2>1, <2>3
  <2> QED
    BY <1>2, <2>2, <2>3, <2>5, <2>9, <2>10 DEF Charge, f, g
<1> QED
  BY <1>1, <1>2

\* evict leaves a list that is charged what bytes says, within the cap.
LEMMA EvictCharge ==
  ASSUME NEW list \in Seq(Entry), NEW n, n = Charge(list), Evict(list, n)
  PROVE  lru' \in Seq(Entry) /\ bytes' = Charge(lru)' /\ bytes' <= Limit
<1> DEFINE d == Dropped(list, n)
           kept == Len(list) - d
           s == [j \in 1..kept |-> list[j]]
           f == Charges(list)
<1>1. Len(list) \in Nat /\ Limit \in Nat /\ \A j \in 1..Len(list) : list[j] \in Entry
  BY CacheAssumption
<1>2. d \in 0..Len(list) /\ (d = Len(list) \/ n - Behind(list, Len(list) - d) <= Limit)
  BY <1>1, DroppedRange
<1>3. kept \in 0..Len(list) /\ kept \in Nat /\ kept <= Len(list) /\ (d = Len(list) => kept = 0)
  BY <1>1, <1>2
<1>4. lru' = s /\ bytes' = n - Behind(list, kept)
  BY DEF Evict
<1>5. kept = 0 \/ n - Behind(list, kept) <= Limit
  BY <1>2, <1>3
<1> HIDE DEF d, kept
<1>6. s \in Seq(Entry) /\ Len(s) = kept /\ \A j \in 1..kept : s[j] = list[j]
  <2>1. \A j \in 1..kept : j \in 1..Len(list)
    BY <1>1, <1>3
  <2> QED
    BY <1>1, <1>3, <2>1
<1> HIDE DEF s
<1>7. n \in Nat /\ f[kept] \in Nat /\ Behind(list, kept) = n - f[kept]
  BY <1>3, ChargeType
<1>8. bytes' = f[kept]
  BY <1>4, <1>7
<1>9. Charge(s) = f[kept]
  <2> DEFINE g == Charges(s)
  <2>1. Sums(list, Len(list), f) /\ Sums(s, kept, g)
    BY <1>6, ChargesSum
  <2>2. \A j \in 1..kept : list[j].size = s[j].size
    BY <1>6
  <2> HIDE DEF g, f
  <2>3. f[kept] = g[kept]
    BY <1>1, <1>3, <2>1, <2>2, SameSums
  <2> QED
    BY <1>6, <2>3 DEF Charge, g
<1>10. f[kept] <= Limit
  <2>1. CASE kept = 0
    <3>1. f[0] = 0
      BY ChargesSum DEF Sums
    <3> QED
      BY <1>1, <2>1, <3>1
  <2>2. CASE n - Behind(list, kept) <= Limit
    BY <1>7, <2>2
  <2> QED
    BY <1>5, <2>1, <2>2
<1>11. Charge(lru)' = Charge(s)
  BY <1>4 DEF Charge, Charges
<1> QED
  BY <1>4, <1>6, <1>8, <1>9, <1>10, <1>11

-----------------------------------------------------------------------------
(* The list operations.                                                    *)

\* A prefix of a sound list is sound.
LEMMA PrefixSound ==
  ASSUME NEW list, Sound(list), NEW n \in 0..Len(list)
  PROVE  Sound([j \in 1..n |-> list[j]])
<1> DEFINE p == [j \in 1..n |-> list[j]]
<1>1. Len(list) \in Nat /\ \A j \in 1..Len(list) : list[j] \in Entry
  BY DEF Sound
<1>2. \A j \in 1..n : j \in 1..Len(list)
  BY <1>1
<1>3. p \in Seq(Entry) /\ Len(p) = n
  BY <1>1, <1>2
<1> QED
  BY <1>2, <1>3 DEF Sound

\* Without a key's entry a sound list is sound and no longer has the key.
LEMMA OthersSound ==
  ASSUME NEW list, Sound(list), NEW k
  PROVE  Sound(Others(list, k)) /\ ~Has(Others(list, k), k)
<1>1. CASE ~Has(list, k)
  BY <1>1 DEF Others
<1>2. CASE Has(list, k)
  <2> DEFINE i == Position(list, k)
             w == Without(list, i)
  <2>1. i \in 1..Len(list) /\ list[i].key = k
    BY <1>2 DEF Has, Position
  <2> HIDE DEF i
  <2>2. Len(list) \in Nat /\ \A j \in 1..Len(list) : list[j] \in Entry
    BY DEF Sound
  <2>3. \A j \in 1..(Len(list) - 1) : j \in 1..Len(list) /\ j + 1 \in 1..Len(list)
    BY <2>2
  <2>4. w \in Seq(Entry) /\ Len(w) = Len(list) - 1
    BY <2>1, <2>2, <2>3 DEF Without
  <2>5. \A j \in 1..Len(w) : w[j] = list[IF j < i THEN j ELSE j + 1]
    BY <2>4 DEF Without
  <2>6. \A j \in 1..Len(w) : /\ (IF j < i THEN j ELSE j + 1) \in 1..Len(list)
                             /\ (IF j < i THEN j ELSE j + 1) # i
    BY <2>1, <2>2, <2>4
  <2> HIDE DEF w
  <2>7. Sound(w)
    <3>1. ASSUME NEW a \in 1..Len(w), NEW b \in 1..Len(w), w[a].key = w[b].key PROVE a = b
      <4> DEFINE a2 == IF a < i THEN a ELSE a + 1
                 b2 == IF b < i THEN b ELSE b + 1
      <4>1. a2 \in 1..Len(list) /\ b2 \in 1..Len(list) /\ list[a2].key = list[b2].key
        BY <2>5, <2>6, <3>1
      <4>2. a2 = b2
        BY <4>1 DEF Sound
      <4> QED
        BY <4>2, <2>1, <2>2, <2>4
    <3>2. \A j \in 1..Len(w) : w[j].blob = Content(w[j].key[1], w[j].key[2])
      BY <2>5, <2>6 DEF Sound
    <3> QED
      BY <2>4, <3>1, <3>2 DEF Sound
  <2>8. ~Has(w, k)
    BY <2>1, <2>5, <2>6 DEF Sound, Has
  <2> QED
    BY <1>2, <2>7, <2>8 DEF Others, i, w
<1> QED
  BY <1>1, <1>2

\* A new entry with the bytes of its key may go to the front.
LEMMA PushSound ==
  ASSUME NEW list, Sound(list), NEW e \in Entry, ~Has(list, e.key),
         e.blob = Content(e.key[1], e.key[2])
  PROVE  Sound(PushFront(e, list))
<1> DEFINE p == PushFront(e, list)
<1>1. Len(list) \in Nat /\ \A j \in 1..Len(list) : list[j] \in Entry
  BY DEF Sound
<1>2. \A j \in 1..(Len(list) + 1) : j = 1 \/ j - 1 \in 1..Len(list)
  BY <1>1
<1>3. p \in Seq(Entry) /\ Len(p) = Len(list) + 1
  BY <1>1, <1>2 DEF PushFront
<1>4. \A j \in 1..Len(p) : p[j] = IF j = 1 THEN e ELSE list[j - 1]
  BY <1>3 DEF PushFront
<1> HIDE DEF p
<1>5. ASSUME NEW a \in 1..Len(p), NEW b \in 1..Len(p), p[a].key = p[b].key PROVE a = b
  <2>1. CASE a = 1 /\ b = 1
    BY <2>1
  <2>2. CASE a = 1 /\ b # 1
    BY <1>2, <1>3, <1>4, <1>5, <2>2 DEF Has
  <2>3. CASE a # 1 /\ b = 1
    BY <1>2, <1>3, <1>4, <1>5, <2>3 DEF Has
  <2>4. CASE a # 1 /\ b # 1
    <3>1. a - 1 \in 1..Len(list) /\ b - 1 \in 1..Len(list) /\ list[a - 1].key = list[b - 1].key
      BY <1>2, <1>3, <1>4, <1>5, <2>4
    <3>2. a - 1 = b - 1
      BY <3>1 DEF Sound
    <3> QED
      BY <3>2, <1>3, <1>1
  <2> QED
    BY <2>1, <2>2, <2>3, <2>4
<1>6. \A j \in 1..Len(p) : p[j].blob = Content(p[j].key[1], p[j].key[2])
  <2>1. SUFFICES ASSUME NEW j \in 1..Len(p)
                 PROVE  p[j].blob = Content(p[j].key[1], p[j].key[2])
    OBVIOUS
  <2>2. CASE j = 1
    BY <1>4, <2>2
  <2>3. CASE j # 1
    BY <1>2, <1>3, <1>4, <2>3 DEF Sound
  <2> QED
    BY <2>2, <2>3
<1> QED
  BY <1>3, <1>5, <1>6 DEF Sound, p

LEMMA EvictSound ==
  ASSUME NEW list, Sound(list), NEW n, Evict(list, n)
  PROVE  Sound(lru')
<1>1. Len(list) \in Nat
  BY DEF Sound
<1>2. Dropped(list, n) \in 0..Len(list)
  BY <1>1, DroppedRange
<1>3. Len(list) - Dropped(list, n) \in 0..Len(list)
  BY <1>1, <1>2
<1> QED
  BY <1>3, PrefixSound DEF Evict

-----------------------------------------------------------------------------
(* The inductive invariant.                                                *)

Types ==
  /\ pr \in Refs
  /\ asked \in [Request -> Ask \cup {None}]
  /\ refs \in [Request -> [base : Sha, head : Sha] \cup {None}]
  /\ result \in [Request -> [base : Blob, head : Blob] \cup {Failed, None}]
  /\ side \in [Request -> [Side -> [at : At, blob : Blob \cup {None}]]]

\* A request reads once its commits are known, and they once it is asked.
InOrder ==
  \A r \in Request :
    /\ asked[r] = None => refs[r] = None /\ result[r] = None
    /\ refs[r] = None => \A s \in Side : side[r][s].at = "none"

\* What a goroutine has read is what its key names.
OwnBlobs ==
  \A r \in Request, s \in Side :
    side[r][s].at \in {"put", "done"} =>
      side[r][s].blob = Content(BlobKey(r, s)[1], BlobKey(r, s)[2])

CacheInv == Types /\ InOrder /\ OwnBlobs /\ Sound(lru)

LEMMA ContentType ==
  ASSUME NEW sha \in Sha, NEW path \in Path
  PROVE  Content(sha, path) \in Blob
BY CacheAssumption DEF Content, Blob, Key

LEMMA KeyType ==
  ASSUME Types, NEW r \in Request, NEW s \in Side, asked[r] # None, refs[r] # None
  PROVE  BlobKey(r, s)[1] \in Sha /\ BlobKey(r, s)[2] \in Path /\ BlobKey(r, s) \in Key
         /\ BlobKey(r, s) = <<BlobKey(r, s)[1], BlobKey(r, s)[2]>>
<1>1. asked[r] \in AskType /\ refs[r] \in [base : Sha, head : Sha]
  BY CacheAssumption DEF Types
<1> QED
  BY <1>1 DEF AskType, BlobKey, Key

LEMMA InitInv == Init => CacheInv
<1> SUFFICES ASSUME Init PROVE CacheInv
  OBVIOUS
<1>1. <<>> \in Seq(Entry) /\ Len(<<>>) = 0
  OBVIOUS
<1>2. Sound(lru)
  BY <1>1 DEF Init, Sound
<1>3. Types
  BY DEF Init, Types, Idle, At
<1> QED
  BY <1>2, <1>3 DEF Init, CacheInv, InOrder, OwnBlobs, Idle

-----------------------------------------------------------------------------
(* Every step keeps it.                                                    *)

LEMMA ListStays == Sound(lru) /\ UNCHANGED lru => Sound(lru')
BY DEF Sound, Content

LEMMA RequestsStay ==
  ASSUME CacheInv, UNCHANGED <<asked, refs, result, side>>
  PROVE  (pr' \in Refs => Types') /\ InOrder' /\ OwnBlobs'
<1>1. OwnBlobs'
  BY DEF CacheInv, OwnBlobs, BlobKey, Content
<1> QED
  BY <1>1 DEF CacheInv, Types, InOrder

\* One goroutine moves and the rest of the requests stay.
LEMMA MoveKeeps ==
  ASSUME CacheInv, NEW r \in Request, NEW s \in Side, NEW at2 \in At, NEW blob \in Blob \cup {None},
         To(r, s, at2, blob), side[r][s].at # "none",
         at2 \in {"put", "done"} => blob = Content(BlobKey(r, s)[1], BlobKey(r, s)[2]),
         UNCHANGED <<pr, asked, refs, result>>
  PROVE  Types' /\ InOrder' /\ OwnBlobs'
<1>1. \A q \in Request, t \in Side :
        side'[q][t] = IF q = r /\ t = s THEN [at |-> at2, blob |-> blob] ELSE side[q][t]
  BY DEF CacheInv, Types, To
<1>2. Types'
  <2>1. [at |-> at2, blob |-> blob] \in [at : At, blob : Blob \cup {None}]
    OBVIOUS
  <2>2. side' \in [Request -> [Side -> [at : At, blob : Blob \cup {None}]]]
    BY <2>1 DEF CacheInv, Types, To
  <2> QED
    BY <2>2 DEF CacheInv, Types
<1>3. refs[r] # None
  BY DEF CacheInv, InOrder
<1>4. InOrder'
  BY <1>1, <1>3 DEF CacheInv, InOrder
<1>5. \A q \in Request, t \in Side : BlobKey(q, t)' = BlobKey(q, t)
  BY DEF BlobKey
<1>6. OwnBlobs'
  <2> SUFFICES ASSUME NEW q \in Request, NEW t \in Side, side'[q][t].at \in {"put", "done"}
               PROVE  side'[q][t].blob = Content(BlobKey(q, t)[1], BlobKey(q, t)[2])
    BY <1>5 DEF OwnBlobs, Content
  <2>1. CASE q = r /\ t = s
    BY <1>1, <2>1
  <2>2. CASE ~(q = r /\ t = s)
    BY <1>1, <2>2 DEF CacheInv, OwnBlobs
  <2> QED
    BY <2>1, <2>2
<1> QED
  BY <1>2, <1>4, <1>6

\* A request gets its commits and starts both reads.
LEMMA StartKeeps ==
  ASSUME CacheInv, NEW r \in Request, NEW a \in Ask, NEW c \in [base : Sha, head : Sha],
         asked' = [asked EXCEPT ![r] = a], refs' = [refs EXCEPT ![r] = c],
         side' = [side EXCEPT ![r] = Reads], refs[r] = None, UNCHANGED <<pr, result>>
  PROVE  Types' /\ InOrder' /\ OwnBlobs'
<1>1. Reads \in [Side -> [at : At, blob : Blob \cup {None}]]
  BY DEF Reads, At
<1>2. Types'
  BY <1>1 DEF CacheInv, Types
<1>3. a # None /\ c # None
  BY CacheAssumption
<1>4. InOrder'
  BY <1>3 DEF CacheInv, Types, InOrder
<1>5. OwnBlobs'
  <2> SUFFICES ASSUME NEW q \in Request, NEW t \in Side, side'[q][t].at \in {"put", "done"}
               PROVE  side'[q][t].blob = Content(BlobKey(q, t)'[1], BlobKey(q, t)'[2])
    BY DEF OwnBlobs, Content
  <2>1. q # r
    BY DEF CacheInv, Types, Reads
  <2>2. side'[q] = side[q] /\ asked'[q] = asked[q] /\ refs'[q] = refs[q]
    BY <2>1 DEF CacheInv, Types
  <2> QED
    BY <2>2 DEF CacheInv, OwnBlobs, BlobKey
<1> QED
  BY <1>2, <1>4, <1>5

\* putBlob of a key's own bytes leaves a sound list.
LEMMA PutKeeps ==
  ASSUME CacheInv, NEW r \in Request, NEW s \in Side, Keep(r, s)
  PROVE  Sound(lru') /\ refs[r] # None
<1> DEFINE k == BlobKey(r, s)
           b == side[r][s].blob
           e == [key |-> k, blob |-> b, size |-> BlobSize(b)]
<1>1. asked[r] # None /\ refs[r] # None
  BY DEF Keep, CacheInv, InOrder
<1>2. k \in Key /\ k[1] \in Sha /\ k[2] \in Path
  BY <1>1, KeyType DEF CacheInv
<1>3. b = Content(k[1], k[2])
  BY DEF Keep, CacheInv, OwnBlobs
<1>4. b \in Blob
  BY <1>2, <1>3, ContentType
<1>5. BlobSize(b) \in Nat
  BY <1>4, CacheAssumption DEF BlobSize, Blob
<1> HIDE DEF k, b
<1>6. e \in Entry
  BY <1>2, <1>4, <1>5 DEF Entry
<1>7. Sound(Others(lru, k)) /\ ~Has(Others(lru, k), k)
  BY OthersSound DEF CacheInv
<1>8. Sound(PushFront(e, Others(lru, k)))
  BY <1>3, <1>6, <1>7, PushSound
<1>9. \E n : Evict(PushFront(e, Others(lru, k)), n)
  BY DEF Keep, PutBlob, k, b
<1> QED
  BY <1>1, <1>8, <1>9, EvictSound

LEMMA StepInv == CacheInv /\ [Next]_vars => CacheInv'
<1> SUFFICES ASSUME CacheInv, [Next]_vars PROVE CacheInv'
  OBVIOUS
<1>1. CASE UNCHANGED vars
  BY <1>1, ListStays, RequestsStay DEF vars, cache, CacheInv, Types
<1>2. CASE ClearAll
  <2>1. <<>> \in Seq(Entry) /\ Len(<<>>) = 0
    OBVIOUS
  <2>2. Sound(lru')
    BY <1>2, <2>1 DEF ClearAll, Sound
  <2> QED
    BY <1>2, <2>2, RequestsStay DEF ClearAll, CacheInv, Types
<1>3. CASE Push
  BY <1>3, ListStays, RequestsStay DEF Push, cache, CacheInv
<1>4. ASSUME NEW r \in Request, GetFileVersions(r) PROVE CacheInv'
  <2>1. PICK a \in Ask :
          /\ asked' = [asked EXCEPT ![r] = a]
          /\ IF a.base = None \/ a.head = None
             THEN UNCHANGED <<refs, side>>
             ELSE /\ refs' = [refs EXCEPT ![r] = [base |-> a.base, head |-> a.head]]
                  /\ side' = [side EXCEPT ![r] = Reads]
    BY <1>4 DEF GetFileVersions
  <2>2. asked[r] = None /\ refs[r] = None /\ UNCHANGED <<pr, result, lru>>
    BY <1>4 DEF GetFileVersions, cache, CacheInv, InOrder
  <2>3. Sound(lru')
    BY <2>2, ListStays DEF CacheInv
  <2>4. CASE a.base = None \/ a.head = None
    <3>1. Types' /\ InOrder'
      BY <2>1, <2>2, <2>4 DEF CacheInv, Types, InOrder
    <3>2. \A q \in Request, t \in Side : side'[q][t].at \in {"put", "done"} => q # r
      BY <2>1, <2>2, <2>4 DEF CacheInv, InOrder
    <3>3. \A q \in Request : q # r => asked'[q] = asked[q] /\ refs'[q] = refs[q] /\ side'[q] = side[q]
      BY <2>1, <2>4 DEF CacheInv, Types
    <3>4. OwnBlobs'
      BY <3>2, <3>3 DEF CacheInv, OwnBlobs, BlobKey, Content
    <3> QED
      BY <2>3, <3>1, <3>4 DEF CacheInv
  <2>5. CASE ~(a.base = None \/ a.head = None)
    <3>1. [base |-> a.base, head |-> a.head] \in [base : Sha, head : Sha]
      BY <2>5, CacheAssumption DEF AskType
    <3>2. Types' /\ InOrder' /\ OwnBlobs'
      BY <2>1, <2>2, <2>5, <3>1, StartKeeps
    <3> QED
      BY <2>3, <3>2 DEF CacheInv
  <2> QED
    BY <2>4, <2>5
<1>5. ASSUME NEW r \in Request, PrRefs(r) PROVE CacheInv'
  <2>1. asked[r] \in Ask /\ refs[r] = None /\ pr \in [base : Sha, head : Sha]
    BY <1>5, CacheAssumption DEF PrRefs, Waiting, CacheInv, Types
  <2>2. asked' = [asked EXCEPT ![r] = asked[r]]
    BY <1>5 DEF PrRefs, CacheInv, Types
  <2>3. refs' = [refs EXCEPT ![r] = pr] /\ side' = [side EXCEPT ![r] = Reads]
        /\ UNCHANGED <<pr, result, lru>>
    BY <1>5 DEF PrRefs, cache
  <2>4. Types' /\ InOrder' /\ OwnBlobs'
    BY <2>1, <2>2, <2>3, StartKeeps
  <2> QED
    BY <2>3, <2>4, ListStays DEF CacheInv
<1>6. ASSUME NEW r \in Request, PrRefsFail(r) \/ Join(r) PROVE CacheInv'
  <2>1. asked[r] # None
    <3>1. CASE PrRefsFail(r)
      BY <3>1 DEF PrRefsFail, Waiting
    <3>2. CASE Join(r)
      BY <3>2 DEF Join, CacheInv, InOrder, Side
    <3> QED
      BY <1>6, <3>1, <3>2
  <2>2. UNCHANGED <<pr, asked, refs, side, lru>>
    BY <1>6 DEF PrRefsFail, Join, cache
  <2>3. PICK x \in [base : Blob, head : Blob] \cup {Failed, None} : result' = [result EXCEPT ![r] = x]
    <3>1. CASE PrRefsFail(r)
      BY <3>1 DEF PrRefsFail
    <3>2. CASE Join(r) /\ \E s \in Side : side[r][s].at = "failed"
      BY <3>2 DEF Join
    <3>3. CASE Join(r) /\ ~\E s \in Side : side[r][s].at = "failed"
      <4>1. refs[r] # None /\ \A s \in Side : side[r][s].at = "done"
        BY <3>3 DEF Join, CacheInv, InOrder, Side
      <4>2. ASSUME NEW s \in Side PROVE side[r][s].blob \in Blob
        <5>1. BlobKey(r, s)[1] \in Sha /\ BlobKey(r, s)[2] \in Path
          BY <2>1, <4>1, KeyType DEF CacheInv
        <5> QED
          BY <4>1, <5>1, ContentType DEF CacheInv, OwnBlobs
      <4>3. [base |-> side[r]["base"].blob, head |-> side[r]["head"].blob] \in [base : Blob, head : Blob]
        BY <4>2 DEF Side
      <4> QED
        BY <3>3, <4>3 DEF Join
    <3> QED
      BY <1>6, <3>1, <3>2, <3>3
  <2>4. InOrder'
    BY <2>1, <2>2, <2>3 DEF CacheInv, Types, InOrder
  <2>5. Types'
    BY <2>2, <2>3 DEF CacheInv, Types
  <2>6. OwnBlobs'
    BY <2>2 DEF CacheInv, OwnBlobs, BlobKey, Content
  <2> QED
    BY <2>2, <2>4, <2>5, <2>6, ListStays DEF CacheInv
<1>7. ASSUME NEW r \in Request, NEW s \in Side, RawBlob(r, s) PROVE CacheInv'
  <2>1. asked[r] # None /\ refs[r] # None /\ side[r][s].at # "none" /\ UNCHANGED <<pr, asked, refs, result>>
    BY <1>7 DEF RawBlob, CacheInv, InOrder
  <2>2. CASE tokenErr \/ ~Has(lru, BlobKey(r, s))
    <3>1. UNCHANGED lru /\ \E at2 \in {"failed", "send"} : To(r, s, at2, None)
      BY <1>7, <2>2 DEF RawBlob
    <3>2. Types' /\ InOrder' /\ OwnBlobs'
      BY <2>1, <3>1, MoveKeeps DEF At
    <3> QED
      BY <3>1, <3>2, ListStays DEF CacheInv
  <2>3. CASE ~tokenErr /\ Has(lru, BlobKey(r, s))
    <3> DEFINE k == BlobKey(r, s)
               h == Held(lru, k)
    <3>1. To(r, s, "done", h.blob) /\ lru' = PushFront(h, Others(lru, k))
      BY <1>7, <2>3 DEF RawBlob, MoveToFront
    <3>2. h \in Entry /\ h.key = k /\ h.blob = Content(k[1], k[2])
      <4>1. Position(lru, k) \in 1..Len(lru) /\ lru[Position(lru, k)].key = k
        BY <2>3 DEF Has, Position
      <4> QED
        BY <4>1 DEF Held, CacheInv, Sound
    <3>3. h.blob \in Blob
      BY <3>2 DEF Entry
    <3>4. Types' /\ InOrder' /\ OwnBlobs'
      BY <2>1, <3>1, <3>2, <3>3, MoveKeeps DEF At
    <3>5. Sound(Others(lru, k)) /\ ~Has(Others(lru, k), k)
      BY OthersSound DEF CacheInv
    <3> HIDE DEF h, k
    <3>6. Sound(lru')
      BY <3>1, <3>2, <3>5, PushSound
    <3> QED
      BY <3>4, <3>6 DEF CacheInv
  <2> QED
    BY <2>2, <2>3
<1>8. ASSUME NEW r \in Request, NEW s \in Side, Send(r, s) PROVE CacheInv'
  <2>1. asked[r] # None /\ refs[r] # None /\ side[r][s].at # "none"
        /\ UNCHANGED <<pr, asked, refs, result, lru>>
    BY <1>8 DEF Send, CacheInv, InOrder, cache
  <2>2. Content(BlobKey(r, s)[1], BlobKey(r, s)[2]) \in Blob
    BY <2>1, KeyType, ContentType DEF CacheInv
  <2>3. Types' /\ InOrder' /\ OwnBlobs'
    <3>1. CASE To(r, s, "put", Content(BlobKey(r, s)[1], BlobKey(r, s)[2]))
      BY <2>1, <2>2, <3>1, MoveKeeps DEF At
    <3>2. CASE To(r, s, "failed", None)
      BY <2>1, <3>2, MoveKeeps DEF At
    <3> QED
      BY <1>8, <3>1, <3>2 DEF Send
  <2> QED
    BY <2>1, <2>3, ListStays DEF CacheInv
<1>9. ASSUME NEW r \in Request, NEW s \in Side, Keep(r, s) PROVE CacheInv'
  <2>1. Sound(lru') /\ refs[r] # None
    BY <1>9, PutKeeps
  <2>2. side[r][s].at = "put" /\ To(r, s, "done", side[r][s].blob) /\ UNCHANGED <<pr, asked, refs, result>>
    BY <1>9 DEF Keep
  <2>3. side[r][s].blob = Content(BlobKey(r, s)[1], BlobKey(r, s)[2])
    BY <2>2 DEF CacheInv, OwnBlobs
  <2>4. side[r][s].blob \in Blob \cup {None}
    BY DEF CacheInv, Types
  <2>5. Types' /\ InOrder' /\ OwnBlobs'
    BY <2>2, <2>3, <2>4, MoveKeeps DEF At
  <2> QED
    BY <2>1, <2>5 DEF CacheInv
<1> QED
  BY <1>1, <1>2, <1>3, <1>4, <1>5, <1>6, <1>7, <1>8, <1>9 DEF Next, Step

-----------------------------------------------------------------------------
(* What follows.                                                           *)

\* The cache's list and map agree: two goroutines that fetch one key at once
\* leave one entry (putBlob).
THEOREM EntriesUnique == Spec => []OneEntryPerKey
<1>1. CacheInv => OneEntryPerKey
  <2>1. ASSUME CacheInv PROVE DOMAIN lru = 1..Len(lru)
    BY <2>1 DEF CacheInv, Sound
  <2> QED
    BY <2>1 DEF CacheInv, Sound, OneEntryPerKey
<1> QED
  BY <1>1, InitInv, StepInv, PTL DEF Spec

-----------------------------------------------------------------------------
(* The byte count.                                                         *)

Counted == bytes = Charge(lru) /\ bytes <= Limit /\ tokenErr \in BOOLEAN

LEMMA InitCounted == Init => Counted
<1> SUFFICES ASSUME Init PROVE Counted
  OBVIOUS
<1>1. <<>> \in Seq(Entry) /\ Len(<<>>) = 0
  OBVIOUS
<1>2. Charges(<<>>)[0] = 0
  BY <1>1, ChargesSum DEF Sums
<1> QED
  BY <1>1, <1>2, CacheAssumption DEF Init, Counted, Charge

\* putBlob: the replaced entry's size is taken off and the new one's put on.
LEMMA PutCounted ==
  ASSUME CacheInv, Counted, NEW r \in Request, NEW s \in Side, Keep(r, s)
  PROVE  bytes' = Charge(lru)' /\ bytes' <= Limit
<1> DEFINE k == BlobKey(r, s)
           b == side[r][s].blob
           e == [key |-> k, blob |-> b, size |-> BlobSize(b)]
           old == IF Has(lru, k) THEN Held(lru, k).size ELSE 0
           list == PushFront(e, Others(lru, k))
           n == bytes + e.size - old
<1>1. asked[r] # None /\ refs[r] # None
  BY DEF Keep, CacheInv, InOrder
<1>2. k \in Key /\ b \in Blob
  <2>1. k \in Key /\ k[1] \in Sha /\ k[2] \in Path /\ b = Content(k[1], k[2])
    BY <1>1, KeyType DEF Keep, CacheInv, OwnBlobs
  <2> QED
    BY <2>1, ContentType
<1>3. BlobSize(b) \in Nat
  BY <1>2, CacheAssumption DEF BlobSize, Blob
<1>4. Evict(list, n)
  BY DEF Keep, PutBlob
<1> HIDE DEF k, b
<1>5. e \in Entry /\ e.size \in Nat
  BY <1>2, <1>3 DEF Entry
<1> HIDE DEF e
<1>6. lru \in Seq(Entry)
  BY DEF CacheInv, Sound
<1>7. /\ Others(lru, k) \in Seq(Entry) /\ (Has(lru, k) => Held(lru, k) \in Entry)
      /\ Charge(Others(lru, k)) + old = Charge(lru)
  BY <1>6, OthersCharge
<1>8. old \in Nat
  BY <1>7 DEF Entry
<1>9. Charge(Others(lru, k)) \in Nat /\ Charge(lru) \in Nat
  BY <1>6, <1>7, ChargeType
<1>10. list \in Seq(Entry) /\ Charge(list) = e.size + Charge(Others(lru, k))
  BY <1>5, <1>7, PushCharge
<1> HIDE DEF old, list
<1>11. n = Charge(list)
  BY <1>5, <1>7, <1>8, <1>9, <1>10 DEF Counted
<1> HIDE DEF n
<1> QED
  BY <1>4, <1>10, <1>11, EvictCharge

\* MoveToFront charges nothing.
LEMMA MoveCounted ==
  ASSUME CacheInv, NEW k, Has(lru, k)
  PROVE  Charge(MoveToFront(lru, k)) = Charge(lru)
<1> DEFINE h == Held(lru, k)
           o == Others(lru, k)
<1>1. lru \in Seq(Entry)
  BY DEF CacheInv, Sound
<1>2. o \in Seq(Entry) /\ h \in Entry /\ Charge(o) + h.size = Charge(lru)
  BY <1>1, OthersCharge
<1> HIDE DEF o, h
<1>3. Charge(o) \in Nat /\ h.size \in Nat
  BY <1>2, ChargeType DEF Entry
<1>4. Charge(PushFront(h, o)) = h.size + Charge(o)
  BY <1>2, PushCharge
<1> QED
  BY <1>2, <1>3, <1>4 DEF MoveToFront, h, o

LEMMA StepCounted == CacheInv /\ Counted /\ [Next]_vars => Counted'
<1> SUFFICES ASSUME CacheInv, Counted, [Next]_vars PROVE Counted'
  OBVIOUS
<1>1. CASE UNCHANGED <<lru, bytes, tokenErr>>
  BY <1>1 DEF Counted, Charge, Charges
<1>2. CASE ClearAll
  <2>1. <<>> \in Seq(Entry) /\ Len(<<>>) = 0
    OBVIOUS
  <2>2. Charges(<<>>)[0] = 0
    BY <2>1, ChargesSum DEF Sums
  <2>3. lru' = <<>> /\ bytes' = 0 /\ tokenErr' = tokenErr
    BY <1>2 DEF ClearAll
  <2>4. Charge(lru)' = Charge(<<>>)
    BY <2>3 DEF Charge, Charges
  <2> QED
    BY <2>1, <2>2, <2>3, <2>4, CacheAssumption DEF Counted, Charge
<1>3. ASSUME NEW r \in Request, NEW s \in Side, RawBlob(r, s) PROVE Counted'
  <2>1. CASE lru' = lru
    BY <1>1, <1>3, <2>1 DEF RawBlob
  <2>2. CASE lru' # lru
    <3>1. /\ Has(lru, BlobKey(r, s)) /\ lru' = MoveToFront(lru, BlobKey(r, s))
          /\ UNCHANGED <<bytes, tokenErr>>
      BY <1>3, <2>2 DEF RawBlob
    <3>2. Charge(MoveToFront(lru, BlobKey(r, s))) = Charge(lru)
      BY <3>1, MoveCounted
    <3>3. Charge(lru)' = Charge(MoveToFront(lru, BlobKey(r, s)))
      BY <3>1 DEF Charge, Charges
    <3> QED
      BY <3>1, <3>2, <3>3 DEF Counted
  <2> QED
    BY <2>1, <2>2
<1>4. ASSUME NEW r \in Request, NEW s \in Side, Keep(r, s) PROVE Counted'
  <2>1. tokenErr' = tokenErr
    BY <1>4 DEF Keep
  <2>2. bytes' = Charge(lru)' /\ bytes' <= Limit
    BY <1>4, PutCounted
  <2> QED
    BY <2>1, <2>2 DEF Counted
<1>5. ASSUME NEW r \in Request, GetFileVersions(r) \/ PrRefs(r) \/ PrRefsFail(r) \/ Join(r) PROVE Counted'
  <2>1. UNCHANGED <<lru, bytes, tokenErr>>
    BY <1>5 DEF GetFileVersions, PrRefs, PrRefsFail, Join, cache
  <2> QED
    BY <1>1, <2>1
<1>6. ASSUME NEW r \in Request, NEW s \in Side, Send(r, s) PROVE Counted'
  <2>1. UNCHANGED <<lru, bytes, tokenErr>>
    BY <1>6 DEF Send, cache
  <2> QED
    BY <1>1, <2>1
<1>7. CASE Push
  <2>1. UNCHANGED <<lru, bytes, tokenErr>>
    BY <1>7 DEF Push, cache
  <2> QED
    BY <1>1, <2>1
<1>8. CASE UNCHANGED vars
  BY <1>1, <1>8 DEF vars, cache
<1> QED
  BY <1>2, <1>3, <1>4, <1>5, <1>6, <1>7, <1>8 DEF Next, Step

\* The byte count is the sum of what the list holds and never over the cap, whatever
\* putBlob replaces, evict drops and clearAll empties while fills are in flight.
THEOREM CountExact == Spec => []Charged
<1>1. CacheInv /\ Counted => Charged
  <2> SUFFICES ASSUME CacheInv, Counted PROVE Charged
    OBVIOUS
  <2>1. lru \in Seq(Entry)
    BY DEF CacheInv, Sound
  <2>2. Charge(lru) \in Nat /\ Behind(lru, 0) = Charge(lru)
    BY <2>1, ChargeType
  <2>3. TypeOK
    BY <2>1, <2>2 DEF CacheInv, Types, Counted, TypeOK
  <2> QED
    BY <2>2, <2>3 DEF Counted, Charged
<1> QED
  BY <1>1, InitInv, StepInv, InitCounted, StepCounted, PTL DEF Spec

-----------------------------------------------------------------------------
\* One step of the cache is one of FileReads, or none.
LEMMA StepPromise == CacheInv /\ [Next]_vars => [Promise!Next]_(Promise!vars)
<1> SUFFICES ASSUME CacheInv, [Next]_vars
             PROVE  Promise!Next \/ UNCHANGED <<pr, asked, refs, result>>
  BY DEF Promise!vars
<1>1. CASE UNCHANGED vars \/ ClearAll
  BY <1>1 DEF vars, ClearAll
<1>2. CASE Push
  BY <1>2 DEF Push, Promise!Next, Promise!Push
<1>3. ASSUME NEW r \in Request, GetFileVersions(r) PROVE Promise!Next
  <2>1. Promise!Make(r)
    BY <1>3 DEF GetFileVersions, Promise!Make
  <2> QED
    BY <2>1 DEF Promise!Next
<1>4. ASSUME NEW r \in Request, PrRefs(r) PROVE Promise!Next
  <2>1. Promise!Resolve(r)
    BY <1>4 DEF PrRefs, Waiting, Promise!Resolve
  <2> QED
    BY <2>1 DEF Promise!Next
<1>5. ASSUME NEW r \in Request, PrRefsFail(r) PROVE Promise!Next
  <2>1. Promise!Serve(r)
    BY <1>5 DEF PrRefsFail, Waiting, Promise!Serve
  <2> QED
    BY <2>1 DEF Promise!Next
<1>6. ASSUME NEW r \in Request, Join(r) PROVE Promise!Next
  <2>1. asked[r] # None /\ refs[r] # None /\ result[r] = None /\ UNCHANGED <<pr, asked, refs>>
    BY <1>6 DEF Join, CacheInv, InOrder, Side
  <2>2. CASE \E s \in Side : side[r][s].at = "failed"
    <3>1. Promise!Serve(r)
      BY <1>6, <2>1, <2>2 DEF Join, Promise!Serve
    <3> QED
      BY <3>1 DEF Promise!Next
  <2>3. CASE ~\E s \in Side : side[r][s].at = "failed"
    <3>1. \A s \in Side : side[r][s].blob = Content(BlobKey(r, s)[1], BlobKey(r, s)[2])
      BY <1>6, <2>3 DEF Join, CacheInv, OwnBlobs
    <3>2. [base |-> side[r]["base"].blob, head |-> side[r]["head"].blob] = Promise!Answer(r)
      BY <3>1 DEF BlobKey, Side, Promise!Answer
    <3>3. Promise!Serve(r)
      BY <1>6, <2>1, <2>3, <3>2 DEF Join, Promise!Serve
    <3> QED
      BY <3>3 DEF Promise!Next
  <2> QED
    BY <2>2, <2>3
<1>7. ASSUME NEW r \in Request, NEW s \in Side, RawBlob(r, s) \/ Send(r, s) \/ Keep(r, s)
      PROVE  UNCHANGED <<pr, asked, refs, result>>
  BY <1>7 DEF RawBlob, Send, Keep
<1> QED
  BY <1>1, <1>2, <1>3, <1>4, <1>5, <1>6, <1>7 DEF Next, Step

\* The cache cannot be noticed: get_file_versions with it answers as it
\* would if every blob were read from GitHub.
THEOREM CacheImplementsReads == Spec => ReadsThrough
<1>1. Init => Promise!Init
  BY DEF Init, Promise!Init
<1> QED
  BY <1>1, InitInv, StepInv, StepPromise, PTL DEF Spec, ReadsThrough, Promise!Spec
=============================================================================
