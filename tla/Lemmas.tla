------------------------------- MODULE Lemmas --------------------------------
(***************************************************************************)
(* What the proofs of this project use and the libraries do not state: the *)
(* least number of a set, induction over a set of numbers, remainders, and *)
(* a sequence without some of its elements; and what the operations of a   *)
(* pool keep and do.                                                       *)
(***************************************************************************)
EXTENDS Pool, Integers, Sequences, FiniteSetsExt, SequenceTheorems,
        WellFoundedInduction, TLAPS

\* A set of naturals that is not empty has a least element.
LEMMA LeastNatural ==
  ASSUME NEW S, S \subseteq Nat, S # {}
  PROVE  \E x \in S : \A y \in S : x <= y
<1>1. \A x \in Nat, y \in Nat : y < x => <<y, x>> \in OpToRel(<, Nat)
  BY DEF OpToRel
<1>2. \E R : /\ IsWellFoundedOn(R, Nat)
             /\ \A x \in Nat, y \in Nat : y < x => <<y, x>> \in R
  BY <1>1, NatLessThanWellFounded, Zenon
<1>3. PICK R : /\ IsWellFoundedOn(R, Nat)
               /\ \A x \in Nat, y \in Nat : y < x => <<y, x>> \in R
  BY <1>2
<1>4. \E x \in S : \A y \in S : ~(<<y, x>> \in R)
  BY <1>3, WFMin
<1>5. PICK x \in S : \A y \in S : ~(<<y, x>> \in R)
  BY <1>4
<1>6. \A y \in S : ~(y < x)
  BY <1>3, <1>5, Zenon
<1>7. \A y \in S : x <= y
  BY <1>6
<1> QED BY <1>7

\* Min, as the models choose it, is that element.
LEMMA MinIsLeast ==
  ASSUME NEW S, S \subseteq Nat, S # {}
  PROVE  Min(S) \in S /\ \A y \in S : Min(S) <= y
BY LeastNatural DEF Min

\* Induction: a set that holds 0 and the successor of each of its elements up to
\* a bound holds every number up to it.
LEMMA InductionUpTo ==
  ASSUME NEW N \in Nat, NEW S, 0 \in S,
         \A n \in Nat : n < N /\ n \in S => n + 1 \in S
  PROVE  0 .. N \subseteq S
<1> SUFFICES ASSUME 0 .. N \ S # {} PROVE FALSE
  OBVIOUS
<1> DEFINE T == 0 .. N \ S
<1>0. T \subseteq Nat
  OBVIOUS
<1>1. PICK x \in T : \A y \in T : x <= y
  BY <1>0, LeastNatural
<1>2. x # 0
  BY <1>1
<1>3. x - 1 \in S
  BY <1>1, <1>2
<1> QED BY <1>1, <1>2, <1>3

\* Division with remainder.
LEMMA DivMod ==
  ASSUME NEW a \in Int, NEW r \in Nat \ {0}
  PROVE  /\ a \div r \in Int /\ a % r \in 0 .. r - 1
         /\ a = r * (a \div r) + (a % r)
OBVIOUS

\* Of the multiples of r only 0 lies between -r and r.
LEMMA SmallMultiple ==
  ASSUME NEW k \in Int, NEW r \in Nat \ {0}, r * k < r, r * k > -r
  PROVE  k = 0
<1>1. k >= 1 => r * k >= r
  OBVIOUS
<1>2. k <= -1 => r * k <= -r
  OBVIOUS
<1> QED BY <1>1, <1>2

\* So there is one remainder.
LEMMA ModUnique ==
  ASSUME NEW k \in Int, NEW r \in Nat \ {0}, NEW m \in 0 .. r - 1
  PROVE  (r * k + m) % r = m
<1> DEFINE a == r * k + m
<1>1. a \in Int
  OBVIOUS
<1>2. a \div r \in Int /\ a % r \in 0 .. r - 1 /\ a = r * (a \div r) + (a % r)
  BY <1>1, DivMod
<1> DEFINE d == k - (a \div r)
<1>3. r * d = (a % r) - m
  BY <1>2
<1>4. d = 0
  <2>1. d \in Int /\ r * d < r /\ r * d > -r
    BY <1>2, <1>3
  <2> HIDE DEF d
  <2> QED BY <2>1, SmallMultiple
<1> QED BY <1>3, <1>4, <1>2

\* The sequence without its element at place i, as RemoveAt of the community
\* modules defines it.
CutAt(q, i) == SubSeq(q, 1, i - 1) \o SubSeq(q, i + 1, Len(q))

\* It is one shorter, and what followed has moved up.
LEMMA CutAtProperties ==
  ASSUME NEW S, NEW q \in Seq(S), NEW i \in 1 .. Len(q)
  PROVE  /\ CutAt(q, i) \in Seq(S)
         /\ Len(CutAt(q, i)) = Len(q) - 1
         /\ \A j \in 1 .. Len(q) - 1 :
              CutAt(q, i)[j] = IF j < i THEN q[j] ELSE q[j + 1]
<1> DEFINE a == SubSeq(q, 1, i - 1)
           b == SubSeq(q, i + 1, Len(q))
<1>1. /\ Len(q) \in Nat
      /\ \A j \in 1 .. Len(q) : q[j] \in S
  BY LenProperties, ElementOfSeq
<1>2. a \in Seq(S) /\ Len(a) = i - 1 /\ \A j \in 1 .. i - 1 : a[j] = q[j]
  <2>1. /\ a \in Seq(S)
        /\ Len(a) = IF 1 <= i - 1 THEN (i - 1) - 1 + 1 ELSE 0
        /\ \A j \in 1 .. (i - 1) - 1 + 1 : a[j] = q[1 + j - 1]
    BY <1>1, SubSeqProperties
  <2> QED BY <2>1, <1>1
<1>3. b \in Seq(S) /\ Len(b) = Len(q) - i /\ \A j \in 1 .. Len(q) - i : b[j] = q[i + j]
  <2>1. /\ b \in Seq(S)
        /\ Len(b) = IF i + 1 <= Len(q) THEN Len(q) - (i + 1) + 1 ELSE 0
        /\ \A j \in 1 .. Len(q) - (i + 1) + 1 : b[j] = q[(i + 1) + j - 1]
    BY <1>1, SubSeqProperties
  <2> QED BY <2>1, <1>1
<1> HIDE DEF a, b
<1>4. /\ a \o b \in Seq(S)
      /\ Len(a \o b) = Len(a) + Len(b)
      /\ \A j \in 1 .. Len(a) + Len(b) :
           (a \o b)[j] = IF j <= Len(a) THEN a[j] ELSE b[j - Len(a)]
  BY <1>2, <1>3, ConcatProperties
<1>5. CutAt(q, i) = a \o b
  BY DEF CutAt, a, b
<1>6. ASSUME NEW j \in 1 .. Len(q) - 1
      PROVE  (a \o b)[j] = IF j < i THEN q[j] ELSE q[j + 1]
  <2>1. CASE j < i
    BY <2>1, <1>1, <1>2, <1>3, <1>4
  <2>2. CASE ~(j < i)
    <3>1. (a \o b)[j] = b[j - (i - 1)]
      BY <2>2, <1>1, <1>2, <1>3, <1>4
    <3>2. j - (i - 1) \in 1 .. Len(q) - i
      BY <2>2, <1>1
    <3>3. b[j - (i - 1)] = q[i + (j - (i - 1))]
      BY <3>2, <1>3
    <3> QED BY <3>1, <3>3, <2>2, <1>1
  <2> QED BY <2>1, <2>2, <1>1
<1> QED BY <1>1, <1>2, <1>3, <1>4, <1>5, <1>6

\* The front of a sequence, and what is left without it.
LEMMA SplitProperties ==
  ASSUME NEW S, NEW q \in Seq(S), NEW n \in 0 .. Len(q)
  PROVE  /\ SubSeq(q, 1, n) \in Seq(S)
         /\ Len(SubSeq(q, 1, n)) = n
         /\ \A j \in 1 .. n : SubSeq(q, 1, n)[j] = q[j]
         /\ SubSeq(q, n + 1, Len(q)) \in Seq(S)
         /\ Len(SubSeq(q, n + 1, Len(q))) = Len(q) - n
         /\ \A j \in 1 .. Len(q) - n : SubSeq(q, n + 1, Len(q))[j] = q[n + j]
<1>1. /\ Len(q) \in Nat
      /\ \A j \in 1 .. Len(q) : q[j] \in S
  BY LenProperties, ElementOfSeq
<1>2. /\ SubSeq(q, 1, n) \in Seq(S)
      /\ Len(SubSeq(q, 1, n)) = IF 1 <= n THEN n - 1 + 1 ELSE 0
      /\ \A j \in 1 .. n - 1 + 1 : SubSeq(q, 1, n)[j] = q[1 + j - 1]
  BY <1>1, SubSeqProperties
<1>3. /\ SubSeq(q, n + 1, Len(q)) \in Seq(S)
      /\ Len(SubSeq(q, n + 1, Len(q))) =
           IF n + 1 <= Len(q) THEN Len(q) - (n + 1) + 1 ELSE 0
      /\ \A j \in 1 .. Len(q) - (n + 1) + 1 :
           SubSeq(q, n + 1, Len(q))[j] = q[(n + 1) + j - 1]
  BY <1>1, SubSeqProperties
<1> QED BY <1>1, <1>2, <1>3

-----------------------------------------------------------------------------
(***************************************************************************)
(* Pools of any data V and any number n of entities.  The two index maps   *)
(* need each other: a removal finds the cells it relinks through both.  So *)
(* types and their agreement are one invariant, PoolInv.                   *)
(***************************************************************************)

PoolInv(V, n, pool) == PoolType(V, n, pool) /\ Linked(n, pool)

PoolOf(s, a, d, b, k, m) ==
  [sparse |-> s, sparseAlloc |-> a, dense |-> d,
   denseToSparse |-> b, denseCount |-> k, denseCapacity |-> m]

\* The pool invariant, field by field.
Parts(V, n, s, a, d, b, k, m) ==
  /\ k \in Nat /\ m \in Nat /\ a \in Nat
  /\ s \in [0 .. n - 1 -> Int]
  /\ d \in [0 .. k - 1 -> V]
  /\ b \in [0 .. k - 1 -> 0 .. n - 1]
  /\ \A e \in 0 .. n - 1 : s[e] # -1 => s[e] \in 0 .. k - 1 /\ b[s[e]] = e
  /\ \A i \in 0 .. k - 1 : s[b[i]] = i

\* The fields and the record say the same.
LEMMA PoolFromParts ==
  ASSUME NEW V, NEW n, NEW s, NEW a, NEW d, NEW b, NEW k, NEW m, Parts(V, n, s, a, d, b, k, m)
  PROVE  PoolInv(V, n, PoolOf(s, a, d, b, k, m))
BY DEF PoolInv, PoolType, Linked, HasComponent, INVALID_INDEX, PoolOf, Parts

\* And back.
LEMMA PartsFromPool ==
  ASSUME NEW V, NEW n, NEW pool, PoolInv(V, n, pool)
  PROVE  /\ Parts(V, n, pool.sparse, pool.sparseAlloc, pool.dense,
                  pool.denseToSparse, pool.denseCount, pool.denseCapacity)
         /\ pool = PoolOf(pool.sparse, pool.sparseAlloc, pool.dense,
                          pool.denseToSparse, pool.denseCount, pool.denseCapacity)
BY DEF PoolInv, PoolType, Linked, HasComponent, INVALID_INDEX, PoolOf, Parts

\* A pool as register_component leaves it, before any entity exists.
LEMMA EmptyPoolInv ==
  ASSUME NEW V
  PROVE  PoolInv(V, 0, EmptyPool)
<1>1. Parts(V, 0, [e \in {} |-> -1], 0, [i \in {} |-> i], [i \in {} |-> i], 0, 0)
  BY DEF Parts
<1>2. EmptyPool = PoolOf([e \in {} |-> -1], 0, [i \in {} |-> i], [i \in {} |-> i], 0, 0)
  BY DEF EmptyPool, PoolOf, INVALID_INDEX
<1> QED BY <1>1, <1>2, PoolFromParts


-----------------------------------------------------------------------------
\* add_entity: the new entity has no element in the pool.
LEMMA ExtendParts ==
  ASSUME NEW V, NEW n \in Nat, NEW s, NEW a, NEW d, NEW b, NEW k, NEW m,
         Parts(V, n, s, a, d, b, k, m), NEW a2 \in Nat
  PROVE  Parts(V, n + 1, Push(s, n, -1), a2, d, b, k, m)
<1> DEFINE s2 == Push(s, n, -1)
<1>1. s2 \in [0 .. n -> Int]
  BY DEF Parts, Push
<1>2. s2[n] = -1
  BY DEF Push
<1>3. \A e \in 0 .. n - 1 : s2[e] = s[e]
  BY DEF Push
<1> HIDE DEF s2
<1>4. \A e \in 0 .. n : s2[e] # -1 => s2[e] \in 0 .. k - 1 /\ b[s2[e]] = e
  <2> TAKE e \in 0 .. n
  <2>1. CASE e = n
    BY <2>1, <1>2
  <2>2. CASE e # n
    <3>1. e \in 0 .. n - 1
      BY <2>2
    <3> QED BY <3>1, <1>3 DEF Parts
  <2> QED BY <2>1, <2>2
<1>5. \A i \in 0 .. k - 1 : s2[b[i]] = i
  BY <1>3 DEF Parts
<1>6. n + 1 - 1 = n
  OBVIOUS
<1>7. b \in [0 .. k - 1 -> 0 .. n]
  BY DEF Parts
<1>8. k \in Nat /\ m \in Nat /\ d \in [0 .. k - 1 -> V]
  BY DEF Parts
<1>9. Parts(V, n + 1, s2, a2, d, b, k, m)
  BY <1>1, <1>4, <1>5, <1>6, <1>7, <1>8 DEF Parts
<1> QED BY <1>9 DEF s2

\* add_component_to_pool, of an entity the pool does not have.
LEMMA AddParts ==
  ASSUME NEW V, NEW n \in Nat, NEW s, NEW a, NEW d, NEW b, NEW k, NEW m,
         Parts(V, n, s, a, d, b, k, m),
         NEW e \in 0 .. n - 1, s[e] = -1, NEW v \in V, NEW m2 \in Nat
  PROVE  Parts(V, n, [s EXCEPT ![e] = k], a, Push(d, k, v), Push(b, k, e), k + 1, m2)
<1> DEFINE s2 == [s EXCEPT ![e] = k]
           d2 == Push(d, k, v)
           b2 == Push(b, k, e)
<1>1. k \in Nat /\ a \in Nat /\ k + 1 - 1 = k /\ 0 .. k = (0 .. k - 1) \cup {k}
  BY DEF Parts
<1>2. d2 \in [0 .. k -> V]
  BY <1>1 DEF Push, Parts
<1>3. /\ b2 \in [0 .. k -> 0 .. n - 1] /\ b2[k] = e
      /\ \A i \in 0 .. k - 1 : b2[i] = b[i]
  BY <1>1 DEF Push, Parts
<1>4. /\ s2 \in [0 .. n - 1 -> Int] /\ s2[e] = k
      /\ \A x \in 0 .. n - 1 : x # e => s2[x] = s[x]
  BY <1>1 DEF Parts
<1> HIDE DEF s2, d2, b2
<1>5. \A x \in 0 .. n - 1 : s2[x] # -1 => s2[x] \in 0 .. k /\ b2[s2[x]] = x
  <2> TAKE x \in 0 .. n - 1
  <2>1. CASE x = e
    BY <2>1, <1>1, <1>3, <1>4
  <2>2. CASE x # e
    BY <2>2, <1>1, <1>3, <1>4 DEF Parts
  <2> QED BY <2>1, <2>2
<1>6. \A i \in 0 .. k : s2[b2[i]] = i
  <2> TAKE i \in 0 .. k
  <2>1. CASE i = k
    BY <2>1, <1>3, <1>4
  <2>2. CASE i # k
    <3>1. i \in 0 .. k - 1
      BY <2>2, <1>1
    <3>2. b[i] \in 0 .. n - 1 /\ s[b[i]] = i /\ b[i] # e
      BY <3>1, <1>1 DEF Parts
    <3> QED BY <3>1, <3>2, <1>3, <1>4
  <2> QED BY <2>1, <2>2
<1>7. Parts(V, n, s2, a, d2, b2, k + 1, m2)
  BY <1>1, <1>2, <1>3, <1>4, <1>5, <1>6 DEF Parts
<1> QED BY <1>7 DEF s2, d2, b2

\* A write through the pointer of an element.
LEMMA WriteParts ==
  ASSUME NEW V, NEW n \in Nat, NEW s, NEW a, NEW d, NEW b, NEW k, NEW m,
         Parts(V, n, s, a, d, b, k, m), NEW i \in 0 .. k - 1, NEW v \in V
  PROVE  Parts(V, n, s, a, [d EXCEPT ![i] = v], b, k, m)
<1>1. [d EXCEPT ![i] = v] \in [0 .. k - 1 -> V]
  BY DEF Parts
<1> QED BY <1>1 DEF Parts

\* remove_component_from_pool: r is the hole, l the last place, w the entity
\* moved from l to r, which is e itself when r = l.
LEMMA RemoveParts ==
  ASSUME NEW V, NEW n \in Nat, NEW s, NEW a, NEW d, NEW b, NEW k, NEW m,
         Parts(V, n, s, a, d, b, k, m), NEW e \in 0 .. n - 1, s[e] # -1
  PROVE  Parts(V, n, [s EXCEPT ![b[k - 1]] = s[e], ![e] = -1], a,
               Shrink([d EXCEPT ![s[e]] = d[k - 1]], k - 1),
               Shrink([b EXCEPT ![s[e]] = b[k - 1]], k - 1), k - 1, m)
<1> DEFINE r == s[e]
           l == k - 1
           w == b[l]
           s2 == [s EXCEPT ![w] = r, ![e] = -1]
           d2 == Shrink([d EXCEPT ![r] = d[l]], l)
           b2 == Shrink([b EXCEPT ![r] = w], l)
<1>1. /\ k \in Nat /\ r \in 0 .. k - 1 /\ b[r] = e
      /\ l \in Nat /\ l \in 0 .. k - 1 /\ k = l + 1
      /\ w \in 0 .. n - 1 /\ s[w] = l
      /\ a \in Nat /\ m \in Nat
  BY DEF Parts
<1>2. d2 \in [0 .. l - 1 -> V]
  BY <1>1 DEF Shrink, Parts
<1>3. /\ b2 \in [0 .. l - 1 -> 0 .. n - 1]
      /\ \A i \in 0 .. l - 1 : b2[i] = IF i = r THEN w ELSE b[i]
  BY <1>1 DEF Shrink, Parts
<1>4. /\ s2 \in [0 .. n - 1 -> Int] /\ s2[e] = -1
      /\ \A x \in 0 .. n - 1 : x # e => s2[x] = IF x = w THEN r ELSE s[x]
  BY <1>1 DEF Parts
<1>5. \A x \in 0 .. n - 1 : s[x] # -1 => s[x] \in 0 .. k - 1 /\ b[s[x]] = x
  BY DEF Parts
<1>6. \A i \in 0 .. k - 1 : b[i] \in 0 .. n - 1 /\ s[b[i]] = i
  BY DEF Parts
<1> HIDE DEF s2, d2, b2, r, l, w
<1>8. \A x \in 0 .. n - 1 : s2[x] # -1 => s2[x] \in 0 .. l - 1 /\ b2[s2[x]] = x
  <2> SUFFICES ASSUME NEW x \in 0 .. n - 1, s2[x] # -1
               PROVE  s2[x] \in 0 .. l - 1 /\ b2[s2[x]] = x
    OBVIOUS
  <2>1. x # e
    BY <1>4
  <2>2. CASE x = w
    <3>1. s2[x] = r
      BY <2>1, <2>2, <1>4
    <3>2. r # l
      BY <2>1, <2>2, <1>1, <1>5 DEF r, w
    <3>3. r \in 0 .. l - 1
      BY <3>2, <1>1
    <3> QED BY <3>1, <3>3, <2>2, <1>3
  <2>3. CASE x # w
    <3>1. s2[x] = s[x] /\ s[x] # -1
      BY <2>1, <2>3, <1>4
    <3>2. s[x] \in 0 .. k - 1 /\ b[s[x]] = x
      BY <3>1, <1>5
    <3>3. s[x] # l
      BY <3>2, <2>3 DEF w
    <3>4. s[x] # r
      BY <3>2, <2>1, <1>1
    <3>5. s[x] \in 0 .. l - 1
      BY <3>2, <3>3, <1>1
    <3> QED BY <3>1, <3>2, <3>4, <3>5, <1>3
  <2> QED BY <2>2, <2>3
<1>9. \A i \in 0 .. l - 1 : s2[b2[i]] = i
  <2> TAKE i \in 0 .. l - 1
  <2>0. i \in 0 .. k - 1 /\ i # l
    BY <1>1
  <2>1. CASE i = r
    <3>1. w # e
      BY <2>0, <2>1, <1>1 DEF r, w
    <3> QED BY <3>1, <2>1, <1>1, <1>3, <1>4
  <2>2. CASE i # r
    <3>1. b2[i] = b[i] /\ b[i] \in 0 .. n - 1 /\ s[b[i]] = i
      BY <2>0, <2>2, <1>3, <1>6
    <3>2. b[i] # e /\ b[i] # w
      BY <3>1, <2>0, <2>2, <1>1 DEF r
    <3> QED BY <3>1, <3>2, <1>4
  <2> QED BY <2>1, <2>2
<1>10. Parts(V, n, s2, a, d2, b2, l, m)
  BY <1>1, <1>2, <1>3, <1>4, <1>8, <1>9 DEF Parts
<1> QED BY <1>10 DEF s2, d2, b2, r, l, w

-----------------------------------------------------------------------------
\* The same for pools: add_entity keeps one consistent.
LEMMA ExtendPreserves ==
  ASSUME NEW V, NEW n \in Nat, NEW pool, PoolInv(V, n, pool), NEW a2 \in Nat
  PROVE  PoolInv(V, n + 1, ExtendPool(pool, n, a2))
<1> DEFINE s2 == Push(pool.sparse, n, -1)
<1>1. Parts(V, n, pool.sparse, pool.sparseAlloc, pool.dense,
            pool.denseToSparse, pool.denseCount, pool.denseCapacity)
  BY PartsFromPool
<1>2. Parts(V, n + 1, s2, a2, pool.dense, pool.denseToSparse,
            pool.denseCount, pool.denseCapacity)
  BY <1>1, ExtendParts
<1>3. ExtendPool(pool, n, a2) = PoolOf(s2, a2, pool.dense, pool.denseToSparse,
                                       pool.denseCount, pool.denseCapacity)
  BY DEF ExtendPool, PoolOf, INVALID_INDEX
<1> QED BY <1>2, <1>3, PoolFromParts

\* add_component_to_pool keeps a pool consistent when the entity is new to it.
LEMMA AddPreserves ==
  ASSUME NEW V, NEW n \in Nat, NEW pool, PoolInv(V, n, pool),
         NEW e \in 0 .. n - 1, ~HasComponent(pool, e), NEW v \in V
  PROVE  PoolInv(V, n, AddToPool(pool, e, v))
<1> DEFINE k == pool.denseCount
           m2 == IF k = pool.denseCapacity THEN Grown(pool.denseCapacity)
                 ELSE pool.denseCapacity
<1>1. Parts(V, n, pool.sparse, pool.sparseAlloc, pool.dense,
            pool.denseToSparse, k, pool.denseCapacity)
  BY PartsFromPool
<1>2. m2 \in Nat /\ pool.sparse[e] = -1
  BY <1>1 DEF Parts, Grown, HasComponent, INVALID_INDEX
<1> HIDE DEF m2
<1>3. Parts(V, n, [pool.sparse EXCEPT ![e] = k], pool.sparseAlloc, Push(pool.dense, k, v),
            Push(pool.denseToSparse, k, e), k + 1, m2)
  BY <1>1, <1>2, AddParts
<1>4. PoolInv(V, n, PoolOf([pool.sparse EXCEPT ![e] = k], pool.sparseAlloc,
            Push(pool.dense, k, v), Push(pool.denseToSparse, k, e), k + 1, m2))
  BY <1>3, PoolFromParts
<1> QED BY <1>4 DEF AddToPool, PoolOf, m2

\* So does a write through the pointer of an element.
LEMMA WritePreserves ==
  ASSUME NEW V, NEW n \in Nat, NEW pool, PoolInv(V, n, pool),
         NEW e \in 0 .. n - 1, HasComponent(pool, e), NEW v \in V
  PROVE  PoolInv(V, n, WriteInPool(pool, e, v))
<1> DEFINE d2 == [pool.dense EXCEPT ![pool.sparse[e]] = v]
<1>1. /\ Parts(V, n, pool.sparse, pool.sparseAlloc, pool.dense,
               pool.denseToSparse, pool.denseCount, pool.denseCapacity)
      /\ pool = PoolOf(pool.sparse, pool.sparseAlloc, pool.dense,
                       pool.denseToSparse, pool.denseCount, pool.denseCapacity)
  BY PartsFromPool
<1>2. pool.sparse[e] \in 0 .. pool.denseCount - 1
  BY <1>1 DEF Parts, HasComponent, INVALID_INDEX
<1>3. Parts(V, n, pool.sparse, pool.sparseAlloc, d2, pool.denseToSparse,
            pool.denseCount, pool.denseCapacity)
  BY <1>1, <1>2, WriteParts
<1>4. WriteInPool(pool, e, v) = PoolOf(pool.sparse, pool.sparseAlloc, d2,
          pool.denseToSparse, pool.denseCount, pool.denseCapacity)
  BY <1>1 DEF WriteInPool, PoolOf
<1> QED BY <1>3, <1>4, PoolFromParts

\* So does remove_component_from_pool, for any entity.
LEMMA RemovePreserves ==
  ASSUME NEW V, NEW n \in Nat, NEW pool, PoolInv(V, n, pool), NEW e \in 0 .. n - 1
  PROVE  PoolInv(V, n, RemoveFromPool(pool, e))
<1>1. CASE ~HasComponent(pool, e)
  BY <1>1 DEF RemoveFromPool
<1>2. CASE HasComponent(pool, e)
  <2> DEFINE r == pool.sparse[e]
             l == pool.denseCount - 1
             w == pool.denseToSparse[l]
             s2 == [pool.sparse EXCEPT ![w] = r, ![e] = -1]
             d2 == Shrink([pool.dense EXCEPT ![r] = pool.dense[l]], l)
             b2 == Shrink([pool.denseToSparse EXCEPT ![r] = w], l)
  <2>1. Parts(V, n, pool.sparse, pool.sparseAlloc, pool.dense,
              pool.denseToSparse, pool.denseCount, pool.denseCapacity)
    BY PartsFromPool
  <2>2. pool.sparse[e] # -1
    BY <1>2 DEF HasComponent, INVALID_INDEX
  <2>3. Parts(V, n, s2, pool.sparseAlloc, d2, b2, l, pool.denseCapacity)
    BY <2>1, <2>2, RemoveParts
  <2>4. PoolInv(V, n, PoolOf(s2, pool.sparseAlloc, d2, b2, l, pool.denseCapacity))
    BY <2>3, PoolFromParts
  <2> QED BY <1>2, <2>4 DEF RemoveFromPool, Relinked, Filled, PoolOf, INVALID_INDEX
<1> QED BY <1>1, <1>2

-----------------------------------------------------------------------------
(***************************************************************************)
(* What the operations do to the data of each entity.                      *)
(***************************************************************************)

\* q has for entity x what p has.
Untouched(x, p, q) ==
  /\ HasComponent(q, x) <=> HasComponent(p, x)
  /\ HasComponent(p, x) => GetComponent(q, x) = GetComponent(p, x)

\* A new entity has no data in any pool, and the others keep theirs.
LEMMA ExtendData ==
  ASSUME NEW n \in Nat, NEW pool, NEW a2
  PROVE  /\ ~HasComponent(ExtendPool(pool, n, a2), n)
         /\ \A x \in 0 .. n - 1 : Untouched(x, pool, ExtendPool(pool, n, a2))
<1> DEFINE p2 == ExtendPool(pool, n, a2)
           s2 == Push(pool.sparse, n, INVALID_INDEX)
<1>0. p2.dense = pool.dense /\ p2.sparse = s2
  BY DEF ExtendPool
<1>1. /\ p2.dense = pool.dense
      /\ p2.sparse[n] = INVALID_INDEX
      /\ \A x \in 0 .. n - 1 : p2.sparse[x] = pool.sparse[x]
  <2> HIDE DEF p2
  <2>1. s2[n] = INVALID_INDEX
    BY DEF Push
  <2>2. \A x \in 0 .. n - 1 : s2[x] = pool.sparse[x]
    BY DEF Push
  <2> QED BY <1>0, <2>1, <2>2
<1> HIDE DEF p2
<1>2. ~HasComponent(p2, n) /\ \A x \in 0 .. n - 1 : Untouched(x, pool, p2)
  BY <1>1 DEF HasComponent, GetComponent, Untouched
<1> QED BY <1>2 DEF p2

\* add_component adds the data of that entity and changes no other's.
LEMMA AddData ==
  ASSUME NEW V, NEW n \in Nat, NEW pool, PoolInv(V, n, pool),
         NEW e \in 0 .. n - 1, NEW v
  PROVE  /\ HasComponent(AddToPool(pool, e, v), e)
         /\ GetComponent(AddToPool(pool, e, v), e) = v
         /\ \A x \in 0 .. n - 1 : x # e => Untouched(x, pool, AddToPool(pool, e, v))
<1> DEFINE p2 == AddToPool(pool, e, v)
           k == pool.denseCount
<1>1. Parts(V, n, pool.sparse, pool.sparseAlloc, pool.dense,
            pool.denseToSparse, k, pool.denseCapacity)
  BY PartsFromPool
<1>2. /\ k \in Nat /\ p2.sparse[e] = k /\ p2.dense[k] = v
      /\ \A x \in 0 .. n - 1 : x # e => p2.sparse[x] = pool.sparse[x]
      /\ \A i \in 0 .. k - 1 : p2.dense[i] = pool.dense[i]
  BY <1>1 DEF AddToPool, Push, Parts
<1>3. \A x \in 0 .. n - 1 : HasComponent(pool, x) => pool.sparse[x] \in 0 .. k - 1
  BY <1>1 DEF Parts, HasComponent, INVALID_INDEX
<1> HIDE DEF p2, k
<1>4. HasComponent(p2, e) /\ GetComponent(p2, e) = v
  BY <1>2 DEF HasComponent, GetComponent, INVALID_INDEX
<1>5. \A x \in 0 .. n - 1 : x # e => Untouched(x, pool, p2)
  BY <1>2, <1>3 DEF HasComponent, GetComponent, Untouched
<1> QED BY <1>4, <1>5 DEF p2

\* A write changes the data of that entity only: no two entities share a cell.
LEMMA WriteData ==
  ASSUME NEW V, NEW n \in Nat, NEW pool, PoolInv(V, n, pool),
         NEW e \in 0 .. n - 1, HasComponent(pool, e), NEW v
  PROVE  /\ HasComponent(WriteInPool(pool, e, v), e)
         /\ GetComponent(WriteInPool(pool, e, v), e) = v
         /\ \A x \in 0 .. n - 1 : x # e => Untouched(x, pool, WriteInPool(pool, e, v))
<1> DEFINE p2 == WriteInPool(pool, e, v)
           d2 == [pool.dense EXCEPT ![pool.sparse[e]] = v]
<1>1. /\ Parts(V, n, pool.sparse, pool.sparseAlloc, pool.dense,
               pool.denseToSparse, pool.denseCount, pool.denseCapacity)
      /\ pool = PoolOf(pool.sparse, pool.sparseAlloc, pool.dense,
                       pool.denseToSparse, pool.denseCount, pool.denseCapacity)
  BY PartsFromPool
<1>2. p2.sparse = pool.sparse /\ p2.dense = d2
  BY <1>1 DEF WriteInPool, PoolOf
<1>3. \A x \in 0 .. n - 1 : HasComponent(pool, x) =>
         /\ pool.sparse[x] \in 0 .. pool.denseCount - 1
         /\ x # e => pool.sparse[x] # pool.sparse[e]
  BY <1>1 DEF Parts, HasComponent, INVALID_INDEX
<1>4. \A x \in 0 .. n - 1 : HasComponent(pool, x) =>
         d2[pool.sparse[x]] = IF x = e THEN v ELSE pool.dense[pool.sparse[x]]
  BY <1>1, <1>3 DEF Parts
<1> HIDE DEF p2, d2
<1>5. /\ HasComponent(p2, e) /\ GetComponent(p2, e) = v
      /\ \A x \in 0 .. n - 1 : x # e => Untouched(x, pool, p2)
  BY <1>2, <1>4 DEF GetComponent, HasComponent, Untouched
<1> QED BY <1>5 DEF p2

\* remove_component takes the data of that entity away and loses no other's.
LEMMA RemoveData ==
  ASSUME NEW V, NEW n \in Nat, NEW pool, PoolInv(V, n, pool), NEW e \in 0 .. n - 1
  PROVE  /\ ~HasComponent(RemoveFromPool(pool, e), e)
         /\ \A x \in 0 .. n - 1 : x # e => Untouched(x, pool, RemoveFromPool(pool, e))
<1>1. CASE ~HasComponent(pool, e)
  BY <1>1 DEF RemoveFromPool, Untouched
<1>2. CASE HasComponent(pool, e)
  <2> DEFINE p2 == RemoveFromPool(pool, e)
             k == pool.denseCount
             r == pool.sparse[e]
             l == k - 1
             w == pool.denseToSparse[l]
  <2>1. Parts(V, n, pool.sparse, pool.sparseAlloc, pool.dense,
              pool.denseToSparse, k, pool.denseCapacity)
    BY PartsFromPool
  <2>2. /\ k \in Nat /\ r \in 0 .. k - 1 /\ l \in 0 .. k - 1
        /\ w \in 0 .. n - 1 /\ pool.sparse[w] = l
    <3>1. pool.sparse[e] # -1
      BY <1>2 DEF HasComponent, INVALID_INDEX
    <3>2. k \in Nat /\ r \in 0 .. k - 1
      BY <2>1, <3>1 DEF Parts
    <3>3. l \in 0 .. k - 1
      BY <3>2
    <3> QED BY <2>1, <3>2, <3>3 DEF Parts
  <2>3. /\ p2.sparse[e] = INVALID_INDEX
        /\ \A x \in 0 .. n - 1 : x # e => p2.sparse[x] = IF x = w THEN r ELSE pool.sparse[x]
    BY <1>2, <2>1, <2>2 DEF RemoveFromPool, Relinked, Parts
  <2>4. \A i \in 0 .. l - 1 : p2.dense[i] = IF i = r THEN pool.dense[l] ELSE pool.dense[i]
    BY <1>2, <2>1, <2>2 DEF RemoveFromPool, Filled, Shrink, Parts
  <2>5. \A x \in 0 .. n - 1 : HasComponent(pool, x) =>
           /\ pool.sparse[x] \in 0 .. k - 1
           /\ pool.denseToSparse[pool.sparse[x]] = x
    BY <2>1 DEF Parts, HasComponent, INVALID_INDEX
  <2> HIDE DEF p2, k, r, l, w
  <2>6. ASSUME NEW x \in 0 .. n - 1, x # e
        PROVE  /\ HasComponent(p2, x) <=> HasComponent(pool, x)
               /\ HasComponent(pool, x) => GetComponent(p2, x) = GetComponent(pool, x)
    <3>1. CASE x = w
      <4>1. r # l
        BY <1>2, <2>2, <2>5, <2>6, <3>1 DEF r, w
      <4>2. r \in 0 .. l - 1
        BY <4>1, <2>2 DEF l
      <4> QED BY <4>1, <4>2, <3>1, <2>2, <2>3, <2>4, <2>6
           DEF HasComponent, GetComponent, INVALID_INDEX
    <3>2. CASE x # w
      <4>1. p2.sparse[x] = pool.sparse[x]
        BY <3>2, <2>3, <2>6
      <4>2. HasComponent(pool, x) => pool.sparse[x] # l /\ pool.sparse[x] # r
        BY <1>2, <2>5, <2>6, <3>2 DEF r, w
      <4>3. HasComponent(pool, x) => pool.sparse[x] \in 0 .. l - 1
        BY <4>2, <2>2, <2>5 DEF l
      <4> QED BY <4>1, <4>2, <4>3, <2>4 DEF HasComponent, GetComponent
    <3> QED BY <3>1, <3>2
  <2>7. ~HasComponent(p2, e)
    BY <2>3 DEF HasComponent
  <2> QED BY <2>6, <2>7 DEF Untouched, p2
<1> QED BY <1>1, <1>2
=============================================================================
