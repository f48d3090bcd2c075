--------------------------- MODULE GameFrameProofs ---------------------------
(***************************************************************************)
(* Proofs about GameFrame, for any number of walls, particles, lifetimes,  *)
(* rounds and entities.                                                    *)
(*                                                                         *)
(* The first part says what spawning makes of a pool, by induction on the  *)
(* entities spawned and on the lemmas about pools.  The second is the      *)
(* invariant: which components go together, what the player and the        *)
(* camera are never without, and that whatever was marked is either gone   *)
(* or still ahead of remove_marked.                                        *)
(***************************************************************************)
EXTENDS GameFrame, Lemmas

\* The recursion of SpawnedTimes.
After(pool, c, n, kit, m, f) ==
  IF m = 0 THEN pool ELSE Spawned(f[m - 1], c, n + m - 1, kit)

Unrolled(pool, c, n, kit, k, f) == [m \in 0 .. k |-> After(pool, c, n, kit, m, f)]

\* The definition by recursion has a solution, for one more entity as for fewer.
LEMMA AfterExists ==
  ASSUME NEW pool, NEW c, NEW n, NEW kit, NEW k \in Nat
  PROVE  \E f : f = Unrolled(pool, c, n, kit, k, f)
<1> USE DEF Unrolled
<1> DEFINE S == {x \in 0 .. k : \E f : f = [m \in 0 .. x |-> After(pool, c, n, kit, m, f)]}
<1>1. 0 \in S
  <2> DEFINE f == [m \in 0 .. 0 |-> pool]
  <2>1. f = [m \in 0 .. 0 |-> After(pool, c, n, kit, m, f)]
    BY DEF After
  <2> HIDE DEF f
  <2> QED BY <2>1
<1>2. ASSUME NEW x \in 0 .. k - 1, x \in S PROVE x + 1 \in S
  <2>1. PICK f : f = [m \in 0 .. x |-> After(pool, c, n, kit, m, f)]
    BY <1>2
  <2> DEFINE g == [m \in 0 .. x + 1 |->
                     IF m = x + 1 THEN After(pool, c, n, kit, m, f) ELSE f[m]]
  <2>2. ASSUME NEW m \in 0 .. x + 1 PROVE g[m] = After(pool, c, n, kit, m, g)
    <3>1. CASE m = 0
      <4>1. g[0] = f[0]
        OBVIOUS
      <4>2. f[0] = After(pool, c, n, kit, 0, f)
        BY <2>1
      <4> QED BY <3>1, <4>1, <4>2 DEF After
    <3>2. CASE m # 0
      <4>1. g[m - 1] = f[m - 1]
        BY <3>2
      <4>2. g[m] = After(pool, c, n, kit, m, f)
        <5>1. CASE m = x + 1
          BY <5>1
        <5>2. CASE m # x + 1
          <6>1. m \in 0 .. x
            BY <5>2
          <6>2. f[m] = After(pool, c, n, kit, m, f)
            BY <6>1, <2>1
          <6> QED BY <6>2, <5>2
        <5> QED BY <5>1, <5>2
      <4> HIDE DEF g
      <4> QED BY <3>2, <4>1, <4>2 DEF After
    <3> QED BY <3>1, <3>2
  <2>3. g = [m \in 0 .. x + 1 |-> g[m]]
    OBVIOUS
  <2> HIDE DEF g
  <2>4. g = [m \in 0 .. x + 1 |-> After(pool, c, n, kit, m, g)]
    BY <2>2, <2>3
  <2>5. x + 1 \in 0 .. k
    OBVIOUS
  <2> QED BY <2>4, <2>5
<1> HIDE DEF S
<1>3. k \in S
  BY <1>1, <1>2, InductionUpTo
<1> QED BY <1>3 DEF S

\* So each step is made from the one before, and the last is the result.
Steps(f, pool, c, n, kit, k) ==
  /\ SpawnedTimes(pool, c, n, kit, k) = f[k]
  /\ f[0] = pool
  /\ \A m \in 0 .. k - 1 : f[m + 1] = Spawned(f[m], c, n + m, kit)

LEMMA SpawnedSteps ==
  ASSUME NEW pool, NEW c, NEW n \in Nat, NEW kit, NEW k \in Nat
  PROVE  \E f : Steps(f, pool, c, n, kit, k)
<1> DEFINE g == CHOOSE f : f = Unrolled(pool, c, n, kit, k, f)
<1>1. g = Unrolled(pool, c, n, kit, k, g)
  BY AfterExists
<1>2. SpawnedTimes(pool, c, n, kit, k) = g[k]
  BY DEF SpawnedTimes, Unrolled, After
<1> HIDE DEF g
<1> USE DEF Unrolled
<1>3. \A m \in 0 .. k : g[m] = After(pool, c, n, kit, m, g)
  BY <1>1
<1>4. g[0] = pool
  BY <1>3 DEF After
<1>5. ASSUME NEW m \in 0 .. k - 1 PROVE g[m + 1] = Spawned(g[m], c, n + m, kit)
  <2>1. g[m + 1] = After(pool, c, n, kit, m + 1, g)
    BY <1>3
  <2>2. m + 1 # 0 /\ m + 1 - 1 = m /\ n + (m + 1) - 1 = n + m
    OBVIOUS
  <2> QED BY <2>1, <2>2 DEF After
<1> QED BY <1>2, <1>4, <1>5 DEF Steps

-----------------------------------------------------------------------------
\* Entity x has in pool q, that of component c, what the kit says.
Gets(q, x, c, kit) ==
  /\ HasComponent(q, x) <=> c \in DOMAIN kit
  /\ c \in DOMAIN kit => GetComponent(q, x) = kit[c]

\* Pool q is pool p and k entities more, the first of them n.
Grew(p, q, n, k, c, kit) ==
  /\ PoolInv(Int, n + k, q)
  /\ \A x \in 0 .. n - 1 : Untouched(x, p, q)
  /\ \A x \in n .. n + k - 1 : Gets(q, x, c, kit)
  /\ c \notin DOMAIN kit => DenseArrays(q) = DenseArrays(p)

IntKit(kit) == \A c \in DOMAIN kit : kit[c] \in Int

\* add_entity and the add_component of its kit.
LEMMA SpawnedOnce ==
  ASSUME NEW n \in Nat, NEW k \in Nat, NEW p, NEW q, NEW c, NEW kit,
         IntKit(kit), Grew(p, q, n, k, c, kit)
  PROVE  Grew(p, Spawned(q, c, n + k, kit), n, k + 1, c, kit)
<1> DEFINE N == n + k
           a2 == IF N = q.sparseAlloc THEN Grown(N) ELSE q.sparseAlloc
           x2 == ExtendPool(q, N, a2)
<1>1. N \in Nat /\ a2 \in Nat
  BY PartsFromPool DEF Grew, Parts, Grown
<1>2. Spawned(q, c, N, kit) = IF c \in DOMAIN kit THEN AddToPool(x2, N, kit[c]) ELSE x2
  BY DEF Spawned
<1> HIDE DEF a2
<1>3. PoolInv(Int, N + 1, x2)
  BY <1>1, ExtendPreserves DEF Grew
<1>4. ~HasComponent(x2, N) /\ \A x \in 0 .. N - 1 : Untouched(x, q, x2)
  BY <1>1, ExtendData
<1>5. DenseArrays(x2) = DenseArrays(q)
  BY DEF DenseArrays, ExtendPool
<1> HIDE DEF x2
<1>6. CASE c \notin DOMAIN kit
  <2>1. \A x \in 0 .. n - 1 : Untouched(x, p, x2)
    BY <1>1, <1>4 DEF Grew, Untouched
  <2>2. \A x \in n .. N : Gets(x2, x, c, kit)
    BY <1>1, <1>4, <1>6 DEF Grew, Untouched, Gets
  <2> QED BY <1>1, <1>2, <1>3, <1>5, <1>6, <2>1, <2>2 DEF Grew
<1>7. CASE c \in DOMAIN kit
  <2> DEFINE y2 == AddToPool(x2, N, kit[c])
  <2>1. kit[c] \in Int /\ N \in 0 .. (N + 1) - 1 /\ N + 1 \in Nat
    BY <1>1, <1>7 DEF IntKit
  <2>2. PoolInv(Int, N + 1, y2)
    BY <2>1, <1>3, <1>4, AddPreserves
  <2>3. /\ HasComponent(y2, N) /\ GetComponent(y2, N) = kit[c]
        /\ \A x \in 0 .. (N + 1) - 1 : x # N => Untouched(x, x2, y2)
    <3> DEFINE v == kit[c]
    <3> HIDE DEF v
    <3>1. /\ HasComponent(AddToPool(x2, N, v), N) /\ GetComponent(AddToPool(x2, N, v), N) = v
          /\ \A x \in 0 .. (N + 1) - 1 : x # N => Untouched(x, x2, AddToPool(x2, N, v))
      BY <2>1, <1>3, AddData
    <3> QED BY <3>1 DEF v
  <2> HIDE DEF y2
  <2>4. \A x \in 0 .. N - 1 : Untouched(x, q, y2)
    BY <1>1, <1>4, <2>3 DEF Untouched
  <2>5. \A x \in 0 .. n - 1 : Untouched(x, p, y2)
    BY <1>1, <2>4 DEF Grew, Untouched
  <2>6. \A x \in n .. N : Gets(y2, x, c, kit)
    BY <1>1, <1>7, <2>3, <2>4 DEF Grew, Untouched, Gets
  <2> QED BY <1>1, <1>2, <1>7, <2>2, <2>5, <2>6 DEF Grew, y2
<1> QED BY <1>6, <1>7

\* Any number of them.
LEMMA SpawnedGrew ==
  ASSUME NEW n \in Nat, NEW k \in Nat, NEW p, NEW c, NEW kit,
         IntKit(kit), PoolInv(Int, n, p)
  PROVE  Grew(p, SpawnedTimes(p, c, n, kit, k), n, k, c, kit)
<1>1. PICK f : Steps(f, p, c, n, kit, k)
  BY SpawnedSteps
<1> USE DEF Steps
<1> DEFINE S == {m \in 0 .. k : Grew(p, f[m], n, m, c, kit)}
<1>2. 0 \in S
  BY <1>1 DEF Grew, Untouched
<1>3. ASSUME NEW m \in Nat, m < k, m \in S PROVE m + 1 \in S
  <2>1. m \in 0 .. k - 1 /\ m + 1 \in 0 .. k
    BY <1>3
  <2>2. Grew(p, Spawned(f[m], c, n + m, kit), n, m + 1, c, kit)
    BY <1>3, SpawnedOnce
  <2> QED BY <1>1, <2>1, <2>2
<1> HIDE DEF S
<1>4. k \in S
  BY <1>2, <1>3, InductionUpTo
<1> QED BY <1>1, <1>4 DEF S

\* In all pools.
LEMMA SpawnGrew ==
  ASSUME NEW n \in Nat, NEW k \in Nat, NEW ps, NEW kit, IntKit(kit),
         \A c \in 0 .. 5 : PoolInv(Int, n, ps[c])
  PROVE  \A c \in 0 .. 5 : Grew(ps[c], SpawnMany(ps, n, kit, k)[c], n, k, c, kit)
BY SpawnedGrew DEF SpawnMany

-----------------------------------------------------------------------------
(***************************************************************************)
(* The invariant, of n entities in pools ps.                               *)
(***************************************************************************)

\* Which components come with which others.
Kits(n, ps) ==
  \A e \in 0 .. n - 1 :
    /\ \A c \in {Velocity, Collider, Sprite} :
         HasComponent(ps[c], e) => HasComponent(ps[Position], e)
    /\ HasComponent(ps[Rigidbody], e) => HasComponent(ps[Velocity], e)

\* What the player and the camera have, and what they do not: neither is a bullet,
\* and neither grows old.
Essentials(ps) ==
  /\ \A c \in {Position, Velocity, Collider} : HasComponent(ps[c], Player)
  /\ GetComponent(ps[Collider], Player) = PlayerCallback
  /\ ~HasComponent(ps[Lifetime], Player)
  /\ HasComponent(ps[Position], Camera) /\ HasComponent(ps[Sprite], Camera)
  /\ ~HasComponent(ps[Collider], Camera) /\ ~HasComponent(ps[Lifetime], Camera)

World(n, ps) ==
  /\ n \in Nat /\ n >= 2
  /\ ps = [c \in 0 .. 5 |-> ps[c]]
  /\ \A c \in 0 .. 5 : PoolInv(Int, n, ps[c])
  /\ Kits(n, ps) /\ Essentials(ps)

\* A particle whose time is over was marked.
Lives(n, ps, d) ==
  \A e \in 0 .. n - 1 :
    HasComponent(ps[Lifetime], e) => GetComponent(ps[Lifetime], e) > 0 \/ e \in d

\* All but the camera and the player may be marked.
Mortals(n) == 2 .. n - 1

Gone(ps, e) == \A c \in 0 .. 5 : ~HasComponent(ps[c], e)

\* What was ever marked is gone, or in the list r past its first k, which
\* remove_marked is through with.
Marks(n, ps, r, d, k) ==
  /\ r \in Seq(Mortals(n)) /\ d \subseteq Mortals(n)
  /\ \A e \in d : Gone(ps, e) \/ \E m \in 1 .. Len(r) : m > k /\ r[m] = e

Pairs(n) == (0 .. n - 1) \X (0 .. n - 1)

\* Both sides of a collision found have colliders.
Colliding(ps, pair) ==
  HasComponent(ps[Collider], pair[1]) /\ HasComponent(ps[Collider], pair[2])

-----------------------------------------------------------------------------
\* A kit that keeps Kits.
GoodKit(kit) ==
  /\ IntKit(kit)
  /\ \A c \in {Velocity, Collider, Sprite} : c \in DOMAIN kit => Position \in DOMAIN kit
  /\ Rigidbody \in DOMAIN kit => Velocity \in DOMAIN kit
  /\ Lifetime \in DOMAIN kit => kit[Lifetime] > 0

\* The kits of the game are of this kind, and so are those of particles, that have
\* a time to live and no collider.
LEMMA KitsAreGood ==
  /\ GoodKit(CameraKit) /\ GoodKit(PlayerKit) /\ GoodKit(WallKit) /\ GoodKit(BulletKit)
  /\ \A l \in Nat \ {0} : GoodKit(ParticleKit(l)) /\ Collider \notin DOMAIN ParticleKit(l)
<1> USE DEF Position, Velocity, Rigidbody, Collider, Sprite, Lifetime, Data,
            NoCallback, PlayerCallback, BulletCallback, GoodKit, IntKit
<1>1. GoodKit(CameraKit)
  BY DEF CameraKit
<1>2. GoodKit(PlayerKit)
  BY DEF PlayerKit
<1>3. GoodKit(WallKit)
  BY DEF WallKit
<1>4. GoodKit(BulletKit)
  BY DEF BulletKit
<1>5. ASSUME NEW l \in Nat \ {0}
      PROVE  GoodKit(ParticleKit(l)) /\ Collider \notin DOMAIN ParticleKit(l)
  BY DEF ParticleKit
<1> QED BY <1>1, <1>2, <1>3, <1>4, <1>5

\* Pools qs are pools ps and k entities more.
AllGrew(ps, qs, n, k, kit) ==
  /\ n \in Nat /\ k \in Nat /\ GoodKit(kit)
  /\ qs = [c \in 0 .. 5 |-> qs[c]]
  /\ \A c \in 0 .. 5 : Grew(ps[c], qs[c], n, k, c, kit)

\* SpawnMany is that.
LEMMA SpawnAllGrew ==
  ASSUME NEW n \in Nat, NEW k \in Nat, NEW ps, NEW kit, GoodKit(kit),
         \A c \in 0 .. 5 : PoolInv(Int, n, ps[c])
  PROVE  AllGrew(ps, SpawnMany(ps, n, kit, k), n, k, kit)
<1> DEFINE qs == SpawnMany(ps, n, kit, k)
<1>1. qs = [c \in 0 .. 5 |-> qs[c]]
  BY DEF SpawnMany
<1>2. \A c \in 0 .. 5 : Grew(ps[c], qs[c], n, k, c, kit)
  BY SpawnGrew DEF GoodKit
<1> QED BY <1>1, <1>2 DEF AllGrew

\* Entities spawned: what the new ones have, and that the others lose nothing.
LEMMA GrewHas ==
  ASSUME NEW ps, NEW qs, NEW n, NEW k, NEW kit, AllGrew(ps, qs, n, k, kit)
  PROVE  /\ n + k \in Nat
         /\ \A c \in 0 .. 5 : PoolInv(Int, n + k, qs[c])
         /\ \A e \in 0 .. n - 1 : \A c \in 0 .. 5 : Untouched(e, ps[c], qs[c])
         /\ \A e \in 0 .. n + k - 1 : e >= n => \A c \in 0 .. 5 : Gets(qs[c], e, c, kit)
BY DEF AllGrew, Grew

\* They keep Kits.
LEMMA KitsGrow ==
  ASSUME NEW ps, NEW qs, NEW n, NEW k, NEW kit, AllGrew(ps, qs, n, k, kit), Kits(n, ps)
  PROVE  Kits(n + k, qs)
<1> n \in Nat /\ k \in Nat /\ n + k \in Nat
  BY DEF AllGrew
<1> SUFFICES ASSUME NEW e \in 0 .. n + k - 1
             PROVE  /\ \A c \in {Velocity, Collider, Sprite} :
                         HasComponent(qs[c], e) => HasComponent(qs[Position], e)
                    /\ HasComponent(qs[Rigidbody], e) => HasComponent(qs[Velocity], e)
  BY DEF Kits
<1>0. {Position, Velocity, Rigidbody, Collider, Sprite} \subseteq 0 .. 5
  BY DEF Position, Velocity, Rigidbody, Collider, Sprite
<1>1. CASE e \in 0 .. n - 1
  BY <1>0, <1>1, GrewHas DEF Kits, Untouched
<1>2. CASE e >= n
  <2>1. \A c \in 0 .. 5 : Gets(qs[c], e, c, kit)
    BY <1>2, GrewHas
  <2> QED BY <1>0, <2>1 DEF Gets, AllGrew, GoodKit
<1> QED BY <1>1, <1>2, GrewHas DEF AllGrew

\* And the rest of the world.
LEMMA WorldGrows ==
  ASSUME NEW ps, NEW qs, NEW n, NEW k, NEW kit, AllGrew(ps, qs, n, k, kit), World(n, ps)
  PROVE  World(n + k, qs)
<1>1. Kits(n + k, qs)
  BY KitsGrow DEF World
<1>2. Essentials(qs)
  <2>1. Player \in 0 .. n - 1 /\ Camera \in 0 .. n - 1
    BY DEF Player, Camera, World
  <2>2. {Position, Velocity, Collider, Sprite, Lifetime} \subseteq 0 .. 5
    BY DEF Position, Velocity, Collider, Sprite, Lifetime
  <2>3. \A c \in 0 .. 5 : Untouched(Player, ps[c], qs[c]) /\ Untouched(Camera, ps[c], qs[c])
    BY <2>1, GrewHas
  <2> QED BY <2>2, <2>3 DEF World, Essentials, Untouched
<1> QED BY <1>1, <1>2, GrewHas DEF World, AllGrew

\* New particles have time left.
LEMMA LivesGrow ==
  ASSUME NEW ps, NEW qs, NEW n, NEW k, NEW kit, AllGrew(ps, qs, n, k, kit),
         NEW d, Lives(n, ps, d)
  PROVE  Lives(n + k, qs, d)
<1> n \in Nat /\ k \in Nat /\ n + k \in Nat
  BY DEF AllGrew
<1> SUFFICES ASSUME NEW e \in 0 .. n + k - 1, HasComponent(qs[Lifetime], e)
             PROVE  GetComponent(qs[Lifetime], e) > 0 \/ e \in d
  BY DEF Lives
<1>0. Lifetime \in 0 .. 5
  BY DEF Lifetime
<1>1. CASE e \in 0 .. n - 1
  BY <1>0, <1>1, GrewHas DEF Lives, Untouched
<1>2. CASE e >= n
  <2>1. Gets(qs[Lifetime], e, Lifetime, kit)
    BY <1>0, <1>2, GrewHas
  <2> QED BY <2>1 DEF Gets, AllGrew, GoodKit
<1> QED BY <1>1, <1>2 DEF AllGrew

\* A sequence over a set is one over any larger set.
LEMMA SeqOfMore ==
  ASSUME NEW S, NEW T, S \subseteq T, NEW q \in Seq(S)
  PROVE  q \in Seq(T)
OBVIOUS

\* Nothing that is gone comes back.
LEMMA MarksGrow ==
  ASSUME NEW ps, NEW qs, NEW n, NEW k, NEW kit, AllGrew(ps, qs, n, k, kit),
         NEW r, NEW d, NEW m0, Marks(n, ps, r, d, m0)
  PROVE  Marks(n + k, qs, r, d, m0)
<1>1. Mortals(n) \subseteq Mortals(n + k)
  BY DEF Mortals, AllGrew
<1>2. r \in Seq(Mortals(n + k)) /\ d \subseteq Mortals(n + k)
  BY <1>1, SeqOfMore DEF Marks
<1>3. ASSUME NEW e \in d, Gone(ps, e) PROVE Gone(qs, e)
  <2>1. e \in 0 .. n - 1
    BY DEF Marks, Mortals, AllGrew
  <2> QED BY <1>3, <2>1, GrewHas DEF Gone, Untouched
<1> QED BY <1>2, <1>3 DEF Marks

\* mark_to_remove, of entities that may be.
LEMMA MarksMore ==
  ASSUME NEW n, NEW ps, NEW r, NEW d, Marks(n, ps, r, d, 0),
         NEW x \in Seq(Mortals(n))
  PROVE  Marks(n, ps, r \o x, d \cup {x[m] : m \in 1 .. Len(x)}, 0)
<1>1. r \in Seq(Mortals(n)) /\ Len(r) \in Nat /\ Len(x) \in Nat
  BY DEF Marks
<1>2. /\ r \o x \in Seq(Mortals(n)) /\ Len(r \o x) = Len(r) + Len(x)
      /\ \A m \in 1 .. Len(r) : (r \o x)[m] = r[m]
      /\ \A m \in 1 .. Len(x) : (r \o x)[Len(r) + m] = x[m]
  BY <1>1
<1>3. ASSUME NEW e \in d
      PROVE  Gone(ps, e) \/ \E m \in 1 .. Len(r \o x) : m > 0 /\ (r \o x)[m] = e
  <2>1. CASE Gone(ps, e)
    BY <2>1
  <2>2. CASE \E m \in 1 .. Len(r) : m > 0 /\ r[m] = e
    <3>1. PICK m \in 1 .. Len(r) : r[m] = e
      BY <2>2
    <3>2. m \in 1 .. Len(r \o x) /\ m > 0 /\ (r \o x)[m] = e
      BY <1>1, <1>2, <3>1
    <3> QED BY <3>2
  <2> QED BY <2>1, <2>2 DEF Marks
<1>4. ASSUME NEW m \in 1 .. Len(x)
      PROVE  /\ x[m] \in Mortals(n)
             /\ \E o \in 1 .. Len(r \o x) : o > 0 /\ (r \o x)[o] = x[m]
  <2>1. /\ Len(r) + m \in 1 .. Len(r \o x) /\ Len(r) + m > 0
        /\ (r \o x)[Len(r) + m] = x[m]
    BY <1>1, <1>2
  <2>2. x[m] \in Mortals(n)
    OBVIOUS
  <2> QED BY <2>1, <2>2
<1> DEFINE D == d \cup {x[m] : m \in 1 .. Len(x)}
<1>5. \A e \in D : e \in d \/ \E m \in 1 .. Len(x) : e = x[m]
  OBVIOUS
<1> HIDE DEF D
<1>6. \A e \in D : Gone(ps, e) \/ \E m \in 1 .. Len(r \o x) : m > 0 /\ (r \o x)[m] = e
  <2> TAKE e \in D
  <2>1. CASE e \in d
    BY <2>1, <1>3
  <2>2. CASE \E m \in 1 .. Len(x) : e = x[m]
    BY <2>2, <1>4
  <2> QED BY <2>1, <2>2, <1>5
<1>7. D \subseteq Mortals(n)
  BY <1>4, <1>5 DEF Marks
<1> QED BY <1>2, <1>6, <1>7 DEF Marks, D

-----------------------------------------------------------------------------
\* Pools qs are pools ps without entity e.
Removed(ps, qs, n, e) ==
  /\ e \in Mortals(n)
  /\ qs = [c \in 0 .. 5 |-> RemoveFromPool(ps[c], e)]

\* remove_entity takes e from all pools and touches no other.
LEMMA RemovedHas ==
  ASSUME NEW n, NEW ps, World(n, ps), NEW qs, NEW e, Removed(ps, qs, n, e)
  PROVE  /\ \A c \in 0 .. 5 : PoolInv(Int, n, qs[c])
         /\ Gone(qs, e)
         /\ \A x \in 0 .. n - 1 : x # e => \A c \in 0 .. 5 : Untouched(x, ps[c], qs[c])
<1>1. n \in Nat /\ e \in 0 .. n - 1
  BY DEF World, Removed, Mortals
<1>2. ASSUME NEW c \in 0 .. 5
      PROVE  /\ PoolInv(Int, n, qs[c])
             /\ ~HasComponent(qs[c], e)
             /\ \A x \in 0 .. n - 1 : x # e => Untouched(x, ps[c], qs[c])
  <2>1. PoolInv(Int, n, ps[c]) /\ qs[c] = RemoveFromPool(ps[c], e)
    BY DEF World, Removed
  <2>2. PoolInv(Int, n, RemoveFromPool(ps[c], e))
    BY <1>1, <2>1, RemovePreserves
  <2>3. /\ ~HasComponent(RemoveFromPool(ps[c], e), e)
        /\ \A x \in 0 .. n - 1 : x # e => Untouched(x, ps[c], RemoveFromPool(ps[c], e))
    BY <1>1, <2>1, RemoveData
  <2> QED BY <2>1, <2>2, <2>3
<1> QED BY <1>2 DEF Gone

\* The world keeps what it must have, and particles are no younger.
LEMMA WorldWithout ==
  ASSUME NEW n, NEW ps, World(n, ps), NEW qs, NEW e, Removed(ps, qs, n, e)
  PROVE  /\ World(n, qs)
         /\ \A d : Lives(n, ps, d) => Lives(n, qs, d)
<1>0. {Position, Velocity, Rigidbody, Collider, Sprite, Lifetime} \subseteq 0 .. 5
  BY DEF Position, Velocity, Rigidbody, Collider, Sprite, Lifetime
<1>1. /\ Gone(qs, e)
      /\ \A x \in 0 .. n - 1 : x # e => \A c \in 0 .. 5 : Untouched(x, ps[c], qs[c])
  BY RemovedHas
<1>2. Kits(n, qs)
  <2> SUFFICES ASSUME NEW x \in 0 .. n - 1
               PROVE  /\ \A c \in {Velocity, Collider, Sprite} :
                           HasComponent(qs[c], x) => HasComponent(qs[Position], x)
                      /\ HasComponent(qs[Rigidbody], x) => HasComponent(qs[Velocity], x)
    BY DEF Kits
  <2>1. CASE x = e
    BY <2>1, <1>0, <1>1 DEF Gone
  <2>2. CASE x # e
    BY <2>2, <1>0, <1>1 DEF World, Kits, Untouched
  <2> QED BY <2>1, <2>2
<1>3. Essentials(qs)
  <2>1. Player \in 0 .. n - 1 /\ Camera \in 0 .. n - 1 /\ Player # e /\ Camera # e
    BY DEF Player, Camera, World, Removed, Mortals
  <2>2. \A c \in 0 .. 5 : Untouched(Player, ps[c], qs[c]) /\ Untouched(Camera, ps[c], qs[c])
    BY <1>1, <2>1
  <2> QED BY <1>0, <2>2 DEF World, Essentials, Untouched
<1>4. qs = [c \in 0 .. 5 |-> qs[c]]
  BY DEF Removed
<1>5. ASSUME NEW d, Lives(n, ps, d) PROVE Lives(n, qs, d)
  <2> SUFFICES ASSUME NEW x \in 0 .. n - 1, HasComponent(qs[Lifetime], x)
               PROVE  GetComponent(qs[Lifetime], x) > 0 \/ x \in d
    BY DEF Lives
  <2>1. x # e
    BY <1>0, <1>1 DEF Gone
  <2>2. Untouched(x, ps[Lifetime], qs[Lifetime])
    BY <1>0, <1>1, <2>1
  <2> QED BY <1>5, <2>2 DEF Lives, Untouched
<1> QED BY <1>2, <1>3, <1>4, <1>5, RemovedHas DEF World

\* remove_marked is through with one more.
LEMMA MarksRemoved ==
  ASSUME NEW n, NEW ps, World(n, ps), NEW qs, NEW r, NEW d, NEW k \in Nat,
         Marks(n, ps, r, d, k), Removed(ps, qs, n, r[k + 1])
  PROVE  Marks(n, qs, r, d, k + 1)
<1> SUFFICES ASSUME NEW e \in d
             PROVE  Gone(qs, e) \/ \E m \in 1 .. Len(r) : m > k + 1 /\ r[m] = e
  BY DEF Marks
<1>1. CASE e = r[k + 1]
  BY <1>1, RemovedHas
<1>2. CASE e # r[k + 1] /\ Gone(ps, e)
  <2>1. e \in 0 .. n - 1
    BY DEF Marks, Mortals, World
  <2>2. \A c \in 0 .. 5 : Untouched(e, ps[c], qs[c])
    BY <1>2, <2>1, RemovedHas
  <2> QED BY <1>2, <2>2 DEF Gone, Untouched
<1>3. CASE e # r[k + 1] /\ ~Gone(ps, e)
  <2>1. PICK m \in 1 .. Len(r) : m > k /\ r[m] = e
    BY <1>3 DEF Marks
  <2>2. m > k + 1
    BY <1>3, <2>1 DEF Marks
  <2> QED BY <2>1, <2>2
<1> QED BY <1>1, <1>2, <1>3

-----------------------------------------------------------------------------
\* Pools qs are pools ps with the lifetime of e written.
Aged(ps, qs, n, e, left) ==
  /\ e \in 0 .. n - 1 /\ HasComponent(ps[Lifetime], e) /\ left \in Int
  /\ qs = [ps EXCEPT ![Lifetime] = WriteInPool(@, e, left)]

\* A written lifetime changes nothing but that.
LEMMA AgedHas ==
  ASSUME NEW n, NEW ps, World(n, ps), NEW qs, NEW e, NEW left, Aged(ps, qs, n, e, left)
  PROVE  /\ PoolInv(Int, n, qs[Lifetime])
         /\ \A x \in 0 .. n - 1 : HasComponent(qs[Lifetime], x) <=> HasComponent(ps[Lifetime], x)
         /\ GetComponent(qs[Lifetime], e) = left
         /\ \A x \in 0 .. n - 1 : x # e => Untouched(x, ps[Lifetime], qs[Lifetime])
         /\ \A c \in 0 .. 5 : c # Lifetime => qs[c] = ps[c]
         /\ qs = [c \in 0 .. 5 |-> qs[c]]
         /\ qs[Lifetime].denseToSparse = ps[Lifetime].denseToSparse
         /\ qs[Lifetime].denseCount = ps[Lifetime].denseCount
<1> DEFINE p == ps[Lifetime]
           q == WriteInPool(p, e, left)
<1>0. Lifetime \in 0 .. 5
  BY DEF Lifetime
<1>1. n \in Nat /\ PoolInv(Int, n, p) /\ e \in 0 .. n - 1 /\ HasComponent(p, e) /\ left \in Int
  BY <1>0 DEF World, Aged
<1>2. /\ qs[Lifetime] = q
      /\ \A c \in 0 .. 5 : c # Lifetime => qs[c] = ps[c]
      /\ qs = [c \in 0 .. 5 |-> qs[c]]
  BY <1>0 DEF World, Aged
<1> HIDE DEF p
<1>3. PoolInv(Int, n, q)
  BY <1>1, WritePreserves
<1>4. /\ HasComponent(q, e) /\ GetComponent(q, e) = left
      /\ \A x \in 0 .. n - 1 : x # e => Untouched(x, p, q)
  BY <1>1, WriteData
<1>5. q.denseToSparse = p.denseToSparse /\ q.denseCount = p.denseCount
  <2>1. p = PoolOf(p.sparse, p.sparseAlloc, p.dense, p.denseToSparse, p.denseCount,
                   p.denseCapacity)
    BY <1>1, PartsFromPool
  <2> QED BY <2>1 DEF WriteInPool, PoolOf
<1> HIDE DEF q
<1>6. \A x \in 0 .. n - 1 : HasComponent(q, x) <=> HasComponent(p, x)
  BY <1>1, <1>4 DEF Untouched
<1> QED BY <1>2, <1>3, <1>4, <1>5, <1>6 DEF p

\* It keeps the world, if it marks the one whose time is over.
LEMMA WorldAged ==
  ASSUME NEW n, NEW ps, World(n, ps), NEW qs, NEW e, NEW left, Aged(ps, qs, n, e, left)
  PROVE  /\ World(n, qs)
         /\ \A d, f : Lives(n, ps, d) /\ d \subseteq f /\ (left <= 0 => e \in f)
                      => Lives(n, qs, f)
         /\ \A r, d, k : Marks(n, ps, r, d, k) => Marks(n, qs, r, d, k)
<1>0. {Position, Velocity, Rigidbody, Collider, Sprite, Lifetime} \subseteq 0 .. 5
  BY DEF Position, Velocity, Rigidbody, Collider, Sprite, Lifetime
<1>1. {Position, Velocity, Rigidbody, Collider, Sprite} \subseteq 0 .. 5 \ {Lifetime}
  BY DEF Position, Velocity, Rigidbody, Collider, Sprite, Lifetime
<1>2. \A c \in {Position, Velocity, Rigidbody, Collider, Sprite} : qs[c] = ps[c]
  BY <1>1, AgedHas
<1>3. /\ \A x \in 0 .. n - 1 : HasComponent(qs[Lifetime], x) <=> HasComponent(ps[Lifetime], x)
      /\ GetComponent(qs[Lifetime], e) = left /\ left \in Int
      /\ \A x \in 0 .. n - 1 : x # e => Untouched(x, ps[Lifetime], qs[Lifetime])
  BY AgedHas DEF Aged
<1>4. Kits(n, qs)
  BY <1>2 DEF World, Kits
<1>5. Essentials(qs)
  <2>1. Player \in 0 .. n - 1 /\ Camera \in 0 .. n - 1
    BY DEF Player, Camera, World
  <2> QED BY <1>2, <1>3, <2>1 DEF World, Essentials
<1>6. World(n, qs)
  BY <1>0, <1>4, <1>5, AgedHas DEF World
<1>7. ASSUME NEW d, NEW f, Lives(n, ps, d), d \subseteq f, left <= 0 => e \in f
      PROVE  Lives(n, qs, f)
  <2> SUFFICES ASSUME NEW x \in 0 .. n - 1, HasComponent(qs[Lifetime], x)
               PROVE  GetComponent(qs[Lifetime], x) > 0 \/ x \in f
    BY DEF Lives
  <2>1. CASE x = e
    BY <1>3, <1>7, <2>1
  <2>2. CASE x # e
    BY <1>3, <1>7, <2>2 DEF Lives, Untouched
  <2> QED BY <2>1, <2>2
<1>8. ASSUME NEW x \in 0 .. n - 1, Gone(ps, x) PROVE Gone(qs, x)
  <2> SUFFICES ASSUME NEW c \in 0 .. 5 PROVE ~HasComponent(qs[c], x)
    BY DEF Gone
  <2>1. CASE c = Lifetime
    BY <1>3, <1>8, <2>1 DEF Gone
  <2>2. CASE c # Lifetime
    BY <1>8, <2>2, AgedHas DEF Gone
  <2> QED BY <2>1, <2>2
<1>9. ASSUME NEW r, NEW d, NEW k, Marks(n, ps, r, d, k) PROVE Marks(n, qs, r, d, k)
  <2>1. d \subseteq 0 .. n - 1
    BY <1>9 DEF Marks, Mortals, World
  <2> QED BY <1>8, <1>9, <2>1 DEF Marks
<1> QED BY <1>6, <1>7, <1>9

-----------------------------------------------------------------------------
\* How far remove_marked is.
Through == IF phase = "remove" THEN i ELSE 0

\* lifetime_tick was at the particles it has passed, and so at all in the end.
AgingInv ==
  /\ phase = "lifetime" =>
       \A k \in 0 .. pools[Lifetime].denseCount - 1 :
         k < i => pools[Lifetime].denseToSparse[k] \in aged
  /\ phase = "before" => \A e \in Entity : Has(e, Lifetime) => e \in aged

\* The indices of the loops.
PlaceInv ==
  /\ running \in BOOLEAN /\ lmb \in BOOLEAN
  /\ phase \in {"input", "lifetime", "before", "forces", "round", "scan", "resolve",
                "after", "remove", "draw", "stopped"}
  /\ i \in Nat /\ j \in Nat
  /\ iterations \in 0 .. IterationCap
  /\ phase \in {"round", "scan", "resolve"} => iterations < IterationCap
  /\ phase = "scan" => i < j
  /\ phase = "resolve" => i <= Len(collisions)
  /\ phase = "remove" => i <= Len(removed)
  /\ phase \in {"draw", "input", "stopped"} => removed = << >>

CollisionInv ==
  /\ collisions \in Seq(Pairs(sparseCount))
  /\ phase \in {"scan", "resolve"} =>
       \A m \in 1 .. Len(collisions) : Colliding(pools, collisions[m])

\* The inductive invariant.
IInv ==
  /\ sparseCount <= MaxEntities
  /\ World(sparseCount, pools)
  /\ Lives(sparseCount, pools, doomed)
  /\ Marks(sparseCount, pools, removed, doomed, Through)
  /\ aged \subseteq Entity
  /\ PlaceInv /\ CollisionInv /\ AgingInv

\* What TypeOK says of a pool is part of PoolInv.
LEMMA IInvTypeOK == IInv => TypeOK
<1> SUFFICES ASSUME IInv PROVE TypeOK
  OBVIOUS
<1>1. sparseCount \in 0 .. MaxEntities
  BY FrameAssumption DEF IInv, World
<1>2. \A c \in 0 .. 5 : PoolType(Int, sparseCount, pools[c])
  BY DEF IInv, World, PoolInv
<1>3. Mortals(sparseCount) \subseteq Entity
  BY <1>1 DEF Mortals, Entity
<1>4. removed \in Seq(Entity) /\ doomed \subseteq Entity
  BY <1>3, SeqOfMore DEF IInv, Marks
<1>5. collisions \in Seq(Entity \X Entity)
  BY DEF IInv, CollisionInv, Pairs, Entity
<1> QED BY <1>1, <1>2, <1>4, <1>5 DEF IInv, PlaceInv, TypeOK

-----------------------------------------------------------------------------
\* The game as init_game sets it up.
LEMMA InitWorld ==
  ASSUME Init
  PROVE  World(sparseCount, pools) /\ Lives(sparseCount, pools, {})
<1> DEFINE empty  == [c \in 0 .. 5 |-> EmptyPool]
           one    == Spawn(empty, 0, CameraKit)
           people == Spawn(one, 1, PlayerKit)
           walls  == SpawnMany(people, 2, WallKit, Walls)
<1>0. Walls \in Nat
  BY FrameAssumption
<1>1. pools = walls /\ sparseCount = 2 + Walls
  BY DEF Init, Camera, Player
<1>2. \A c \in 0 .. 5 : PoolInv(Int, 0, empty[c])
  BY EmptyPoolInv
<1> HIDE DEF empty
<1>3. AllGrew(empty, one, 0, 1, CameraKit)
  BY <1>2, SpawnAllGrew, KitsAreGood DEF Spawn
<1>4. \A c \in 0 .. 5 : PoolInv(Int, 1, one[c])
  BY <1>3, GrewHas
<1> HIDE DEF one
<1>5. AllGrew(one, people, 1, 1, PlayerKit)
  BY <1>4, SpawnAllGrew, KitsAreGood DEF Spawn
<1>6. \A c \in 0 .. 5 : PoolInv(Int, 2, people[c])
  BY <1>5, GrewHas
<1> HIDE DEF people
<1>7. AllGrew(people, walls, 2, Walls, WallKit)
  BY <1>0, <1>6, SpawnAllGrew, KitsAreGood
<1> HIDE DEF walls
<1>8. Kits(0, empty) /\ Lives(0, empty, {})
  BY DEF Kits, Lives
<1>9. Kits(1, one) /\ Lives(1, one, {})
  BY <1>3, <1>8, KitsGrow, LivesGrow
<1>10. Kits(2, people) /\ Lives(2, people, {})
  BY <1>5, <1>9, KitsGrow, LivesGrow
<1>11. \A c \in 0 .. 5 : Gets(one[c], 0, c, CameraKit)
  BY <1>3, GrewHas
<1>12. \A c \in 0 .. 5 : Untouched(0, one[c], people[c]) /\ Gets(people[c], 1, c, PlayerKit)
  BY <1>5, GrewHas
<1>13. Essentials(people)
  <2> USE DEF Position, Velocity, Rigidbody, Collider, Sprite, Lifetime
  <2>1. /\ \A c \in {Position, Velocity, Collider} : HasComponent(people[c], 1)
        /\ GetComponent(people[Collider], 1) = PlayerCallback
        /\ ~HasComponent(people[Lifetime], 1)
    BY <1>12 DEF Gets, PlayerKit
  <2>2. /\ HasComponent(one[Position], 0) /\ HasComponent(one[Sprite], 0)
        /\ ~HasComponent(one[Collider], 0) /\ ~HasComponent(one[Lifetime], 0)
    BY <1>11 DEF Gets, CameraKit
  <2>3. /\ HasComponent(people[Position], 0) /\ HasComponent(people[Sprite], 0)
        /\ ~HasComponent(people[Collider], 0) /\ ~HasComponent(people[Lifetime], 0)
    BY <2>2, <1>12 DEF Untouched
  <2> QED BY <2>1, <2>3 DEF Essentials, Player, Camera
<1>14. people = [c \in 0 .. 5 |-> people[c]]
  BY <1>5 DEF AllGrew
<1>15. World(2, people)
  BY <1>6, <1>10, <1>13, <1>14 DEF World
<1> QED BY <1>1, <1>7, <1>10, <1>15, WorldGrows, LivesGrow

\* The first frame begins.
LEMMA InitIInv == Init => IInv
<1> SUFFICES ASSUME Init PROVE IInv
  OBVIOUS
<1>1. World(sparseCount, pools) /\ Lives(sparseCount, pools, doomed)
  BY InitWorld DEF Init
<1>2. Marks(sparseCount, pools, removed, doomed, Through)
  BY DEF Init, Marks
<1>3. sparseCount <= MaxEntities
  BY FrameAssumption DEF Init
<1>4. PlaceInv
  <2>1. IterationCap \in Nat \ {0}
    BY FrameAssumption
  <2>2. /\ running = TRUE /\ lmb = FALSE /\ phase = "input" /\ i = 0 /\ j = 0
        /\ iterations = 0 /\ removed = << >>
    BY DEF Init
  <2>3. running \in BOOLEAN /\ lmb \in BOOLEAN
    BY <2>2
  <2>4. /\ i \in Nat /\ j \in Nat /\ iterations \in 0 .. IterationCap
        /\ iterations < IterationCap
    BY <2>1, <2>2
  <2> QED BY <2>2, <2>3, <2>4 DEF PlaceInv
<1>5. CollisionInv /\ AgingInv /\ aged \subseteq Entity
  BY DEF Init, CollisionInv, AgingInv
<1> QED BY <1>1, <1>2, <1>3, <1>4, <1>5 DEF IInv

-----------------------------------------------------------------------------
\* A step that changes no entity and marks none, up to the place it goes to.
LEMMA QuietStep ==
  ASSUME IInv, UNCHANGED <<entities, removed, history>>, Through' = 0,
         PlaceInv', CollisionInv', phase' \notin {"lifetime", "before"}
  PROVE  IInv'
<1>1. UNCHANGED <<pools, sparseCount, removed, doomed, aged>>
  BY DEF entities, history
<1>2. Through \in Nat
  BY DEF IInv, PlaceInv, Through
<1>3. Marks(sparseCount, pools, removed, doomed, 0)
  BY <1>2 DEF IInv, Marks
<1> QED BY <1>1, <1>3 DEF IInv, AgingInv, Entity

\* handle_input
LEMMA InputStep == IInv /\ HandleInput => IInv'
<1> SUFFICES ASSUME IInv, HandleInput PROVE IInv'
  OBVIOUS
<1>1. /\ UNCHANGED <<pools, sparseCount, removed, collisions, iterations, doomed, aged>>
      /\ phase = "input" /\ phase' = "lifetime" /\ i' = 0 /\ j' = 0
      /\ lmb' \in BOOLEAN /\ running' \in {running, FALSE}
  BY DEF HandleInput, GoTo, entities, history
<1>2. Marks(sparseCount, pools, removed, doomed, Through)'
  BY <1>1 DEF IInv, Through
<1>3. PlaceInv'
  <2>1. running \in BOOLEAN
    BY DEF IInv, PlaceInv
  <2>2. running' \in BOOLEAN
    BY <1>1, <2>1
  <2> QED BY <1>1, <2>2 DEF IInv, PlaceInv
<1>4. CollisionInv'
  BY <1>1 DEF IInv, CollisionInv
<1>5. AgingInv'
  BY <1>1, PartsFromPool DEF AgingInv
<1> QED BY <1>1, <1>2, <1>3, <1>4, <1>5 DEF IInv, Entity

\* A cell of a dense array is that of an entity that has the component.
LEMMA DenseHas ==
  ASSUME NEW n, NEW ps, World(n, ps), NEW c \in 0 .. 5,
         NEW k \in 0 .. ps[c].denseCount - 1
  PROVE  /\ ps[c].denseToSparse[k] \in 0 .. n - 1
         /\ HasComponent(ps[c], ps[c].denseToSparse[k])
         /\ GetComponent(ps[c], ps[c].denseToSparse[k]) = ps[c].dense[k]
<1>1. PoolInv(Int, n, ps[c])
  BY DEF World
<1>2. Parts(Int, n, ps[c].sparse, ps[c].sparseAlloc, ps[c].dense,
            ps[c].denseToSparse, ps[c].denseCount, ps[c].denseCapacity)
  BY <1>1, PartsFromPool
<1>3. ps[c].denseToSparse[k] \in 0 .. n - 1 /\ ps[c].sparse[ps[c].denseToSparse[k]] = k
  BY <1>2 DEF Parts
<1> QED BY <1>3 DEF HasComponent, GetComponent, INVALID_INDEX

\* And an entity with the component has a cell.
LEMMA HasDense ==
  ASSUME NEW n, NEW ps, World(n, ps), NEW c \in 0 .. 5,
         NEW e \in 0 .. n - 1, HasComponent(ps[c], e)
  PROVE  \E k \in 0 .. ps[c].denseCount - 1 : ps[c].denseToSparse[k] = e
<1>1. PoolInv(Int, n, ps[c])
  BY DEF World
<1>2. Parts(Int, n, ps[c].sparse, ps[c].sparseAlloc, ps[c].dense,
            ps[c].denseToSparse, ps[c].denseCount, ps[c].denseCapacity)
  BY <1>1, PartsFromPool
<1> QED BY <1>2 DEF Parts, HasComponent, INVALID_INDEX

\* What the scan pairs are two entities with colliders.
LEMMA PairCollides ==
  ASSUME IInv, Scanning
  PROVE  Pair \in Pairs(sparseCount) /\ Colliding(pools, Pair)
<1>1. /\ World(sparseCount, pools) /\ Collider \in 0 .. 5
      /\ i \in Nat /\ j \in Nat /\ i < j /\ j < pools[Collider].denseCount
  BY DEF IInv, PlaceInv, Scanning, Collider
<1>2. PoolInv(Int, sparseCount, pools[Collider])
  BY <1>1 DEF World
<1>3. pools[Collider].denseCount \in Nat
  BY <1>2, PartsFromPool DEF Parts
<1>4. i \in 0 .. pools[Collider].denseCount - 1 /\ j \in 0 .. pools[Collider].denseCount - 1
  BY <1>1, <1>3
<1> QED BY <1>1, <1>4, DenseHas DEF Pair, Pairs, Colliding

\* The places in between: nothing happens to entities.
LEMMA IdleStep ==
  ASSUME IInv, ApplyForces \/ StartRound \/ Miss \/ Earlier \/ SameTime \/ Move
               \/ SkipHit \/ EndRound \/ AfterPhysics \/ Draw
  PROVE  IInv'
<1> USE DEF GoTo, inputs
<1>0. /\ PlaceInv /\ CollisionInv /\ IterationCap \in Nat \ {0}
      /\ pools' = pools /\ sparseCount' = sparseCount
      /\ UNCHANGED <<entities, removed, history>>
  BY FrameAssumption DEF IInv, ApplyForces, StartRound, Miss, Earlier, SameTime, Move,
       SkipHit, EndRound, AfterPhysics, Draw, entities
<1>1. CASE ApplyForces
  BY <1>0, <1>1, QuietStep DEF ApplyForces, PlaceInv, CollisionInv, Through
<1>2. CASE StartRound
  BY <1>0, <1>2, QuietStep DEF StartRound, PlaceInv, CollisionInv, Through
<1>3. CASE Miss
  BY <1>0, <1>3, QuietStep DEF Miss, Scanning, Advance, PlaceInv, CollisionInv, Through
<1>4. CASE Move
  BY <1>0, <1>4, QuietStep DEF Move, PlaceInv, CollisionInv, Through
<1>5. CASE SkipHit
  BY <1>0, <1>5, QuietStep DEF SkipHit, PlaceInv, CollisionInv, Through
<1>6. CASE EndRound
  BY <1>0, <1>6, QuietStep DEF EndRound, Counted, BelowCap, PlaceInv, CollisionInv, Through
<1>7. CASE AfterPhysics
  BY <1>0, <1>7, QuietStep DEF AfterPhysics, PlaceInv, CollisionInv, Through
<1>8. CASE Draw
  BY <1>0, <1>8, QuietStep DEF Draw, PlaceInv, CollisionInv, Through
<1>9. CASE Earlier
  <2>1. CollisionInv'
    <3>1. collisions' = <<Pair>> /\ Pair \in Pairs(sparseCount) /\ Colliding(pools, Pair)
      BY <1>9, PairCollides DEF Earlier, Scanning
    <3> HIDE DEF Pair
    <3>2. /\ collisions' \in Seq(Pairs(sparseCount)) /\ Len(collisions') = 1
          /\ collisions'[1] = Pair
      BY <3>1
    <3> QED BY <1>0, <3>1, <3>2 DEF CollisionInv
  <2> QED BY <1>0, <1>9, <2>1, QuietStep DEF Earlier, Scanning, Advance, PlaceInv, Through
<1>10. CASE SameTime
  <2>1. CollisionInv'
    <3>1. /\ collisions' = Append(collisions, Pair) /\ phase = "scan"
          /\ Pair \in Pairs(sparseCount) /\ Colliding(pools, Pair)
      BY <1>10, PairCollides DEF SameTime, Scanning
    <3> HIDE DEF Pair
    <3>2. /\ collisions' \in Seq(Pairs(sparseCount)) /\ Len(collisions') = Len(collisions) + 1
          /\ collisions'[Len(collisions) + 1] = Pair
          /\ \A m \in 1 .. Len(collisions) : collisions'[m] = collisions[m]
          /\ Len(collisions) \in Nat
      BY <1>0, <3>1 DEF CollisionInv
    <3>3. ASSUME NEW m \in 1 .. Len(collisions')
          PROVE  Colliding(pools, collisions'[m])
      <4>1. CASE m = Len(collisions) + 1
        BY <3>1, <3>2, <4>1
      <4>2. CASE m # Len(collisions) + 1
        BY <1>0, <3>1, <3>2, <4>2 DEF CollisionInv
      <4> QED BY <4>1, <4>2
    <3> QED BY <1>0, <3>2, <3>3 DEF CollisionInv
  <2> QED BY <1>0, <1>10, <2>1, QuietStep DEF SameTime, Scanning, Advance, PlaceInv, Through
<1> QED BY <1>1, <1>2, <1>3, <1>4, <1>5, <1>6, <1>7, <1>8, <1>9, <1>10

\* lifetime_tick
LEMMA TickStep == IInv /\ LifetimeTick => IInv'
<1> SUFFICES ASSUME IInv, LifetimeTick PROVE IInv'
  OBVIOUS
<1>0. /\ World(sparseCount, pools) /\ Lifetime \in 0 .. 5 /\ PlaceInv /\ CollisionInv
      /\ phase = "lifetime" /\ UNCHANGED <<sparseCount, collisions, running, lmb, iterations>>
      /\ sparseCount \in Nat
  BY DEF IInv, World, LifetimeTick, Lifetime, inputs
<1>1. CASE AllTicked
  <2>1. /\ UNCHANGED <<pools, removed, doomed, aged>>
        /\ phase' = "before" /\ i' = 0 /\ j' = 0
    BY <1>1 DEF LifetimeTick, GoTo, history
  <2>2. Marks(sparseCount, pools, removed, doomed, Through)'
    BY <1>0, <2>1 DEF IInv, Through
  <2>3. PlaceInv' /\ CollisionInv'
    BY <1>0, <2>1 DEF PlaceInv, CollisionInv
  <2>4. AgingInv'
    <3> SUFFICES ASSUME NEW e \in Entity, Has(e, Lifetime) PROVE e \in aged
      BY <1>0, <2>1 DEF AgingInv, Has, Entity
    <3>1. PICK k \in 0 .. pools[Lifetime].denseCount - 1 :
                 pools[Lifetime].denseToSparse[k] = e
      BY <1>0, HasDense DEF Has, Entity
    <3>2. k < i
      <4>1. PoolInv(Int, sparseCount, pools[Lifetime])
        BY <1>0 DEF World
      <4>2. pools[Lifetime].denseCount \in Nat
        BY <4>1, PartsFromPool DEF Parts
      <4> QED BY <1>0, <1>1, <4>2 DEF AllTicked, PlaceInv
    <3> QED BY <1>0, <3>1, <3>2 DEF IInv, AgingInv
  <2> QED BY <1>0, <2>1, <2>2, <2>3, <2>4 DEF IInv, Entity
<1>2. CASE ~AllTicked
  <2> DEFINE e == pools[Lifetime].denseToSparse[i]
             left == Component(e, Lifetime) - 1
             marked == IF left <= 0 THEN <<e>> ELSE << >>
  <2>1. /\ pools' = [pools EXCEPT ![Lifetime] = WriteInPool(@, e, left)]
        /\ removed' = removed \o marked
        /\ doomed' = doomed \cup {marked[k] : k \in 1 .. Len(marked)}
        /\ aged' = aged \cup {e}
        /\ i' = i + 1 /\ phase' = phase /\ j' = j
    BY <1>2 DEF LifetimeTick, Mark
  <2>2. i \in 0 .. pools[Lifetime].denseCount - 1 /\ Component(e, Lifetime) \in Int
    <3>1. PoolInv(Int, sparseCount, pools[Lifetime])
      BY <1>0 DEF World
    <3>2. /\ pools[Lifetime].denseCount \in Nat
          /\ pools[Lifetime].dense \in [0 .. pools[Lifetime].denseCount - 1 -> Int]
      BY <3>1, PartsFromPool DEF Parts
    <3>3. i \in 0 .. pools[Lifetime].denseCount - 1
      BY <1>0, <1>2, <3>2 DEF AllTicked, PlaceInv
    <3>4. Component(e, Lifetime) = pools[Lifetime].dense[i]
      BY <1>0, <3>3, DenseHas DEF Component
    <3> QED BY <3>2, <3>3, <3>4
  <2>3. e \in 0 .. sparseCount - 1 /\ HasComponent(pools[Lifetime], e) /\ left \in Int
    BY <1>0, <2>2, DenseHas
  <2>4. Aged(pools, pools', sparseCount, e, left)
    BY <2>1, <2>3 DEF Aged
  <2>5. e \in Mortals(sparseCount)
    BY <1>0, <2>3 DEF World, Essentials, Mortals, Player, Camera
  <2> HIDE DEF e, left
  <2>6. /\ marked \in Seq(Mortals(sparseCount))
        /\ left <= 0 => e \in {marked[k] : k \in 1 .. Len(marked)}
    <3>1. CASE left <= 0
      <4>1. marked = <<e>>
        BY <3>1
      <4>2. /\ <<e>> \in Seq(Mortals(sparseCount))
            /\ Len(<<e>>) = 1 /\ <<e>>[1] = e /\ 1 \in 1 .. 1
        BY <2>5
      <4> QED BY <4>1, <4>2
    <3>2. CASE ~(left <= 0)
      BY <3>2
    <3> QED BY <3>1, <3>2
  <2> HIDE DEF marked
  <2>7. World(sparseCount, pools')
    BY <1>0, <2>4, WorldAged
  <2>8. Lives(sparseCount, pools', doomed')
    <3>1. Lives(sparseCount, pools, doomed)
      BY DEF IInv
    <3>2. doomed \subseteq doomed' /\ (left <= 0 => e \in doomed')
      BY <2>1, <2>6
    <3> QED BY <1>0, <2>4, <3>1, <3>2, WorldAged
  <2>9. Marks(sparseCount, pools', removed', doomed', 0)
    <3>1. Marks(sparseCount, pools, removed, doomed, 0)
      BY <1>0 DEF IInv, Through
    <3>2. Marks(sparseCount, pools', removed, doomed, 0)
      BY <1>0, <2>4, <3>1, WorldAged
    <3> QED BY <2>1, <2>6, <3>2, MarksMore
  <2>10. PlaceInv' /\ CollisionInv'
    BY <1>0, <2>1 DEF PlaceInv, CollisionInv
  <2>11. AgingInv'
    <3>1. /\ pools'[Lifetime].denseToSparse = pools[Lifetime].denseToSparse
          /\ pools'[Lifetime].denseCount = pools[Lifetime].denseCount
      BY <1>0, <2>4, AgedHas
    <3>2. i \in Nat /\ phase' = "lifetime"
      BY <1>0, <2>1 DEF PlaceInv
    <3> SUFFICES ASSUME NEW k \in 0 .. pools'[Lifetime].denseCount - 1, k < i + 1
                 PROVE  pools'[Lifetime].denseToSparse[k] \in aged'
      BY <2>1, <3>2 DEF AgingInv
    <3>3. CASE k = i
      BY <2>1, <3>1, <3>3 DEF e
    <3>4. CASE k < i
      BY <1>0, <2>1, <3>1, <3>4 DEF IInv, AgingInv
    <3> QED BY <3>2, <3>3, <3>4
  <2> QED BY <1>0, <2>1, <2>3, <2>7, <2>8, <2>9, <2>10, <2>11 DEF IInv, Entity, Through
<1> QED BY <1>1, <1>2

-----------------------------------------------------------------------------
\* k entities more, of a good kit: what that leaves of the invariant.
LEMMA SpawnStep ==
  ASSUME IInv, NEW k \in Nat, NEW kit, GoodKit(kit),
         pools' = SpawnMany(pools, sparseCount, kit, k),
         sparseCount' = sparseCount + k
  PROVE  /\ World(sparseCount', pools')
         /\ Lives(sparseCount', pools', doomed)
         /\ Marks(sparseCount', pools', removed, doomed, Through)
         /\ collisions \in Seq(Pairs(sparseCount'))
         /\ \A pair \in Pairs(sparseCount) : Colliding(pools, pair) => Colliding(pools', pair)
         /\ Entity \subseteq Entity' /\ Mortals(sparseCount) \subseteq Mortals(sparseCount')
         /\ Collider \notin DOMAIN kit =>
              DenseArrays(pools'[Collider]) = DenseArrays(pools[Collider])
<1>1. /\ World(sparseCount, pools) /\ sparseCount \in Nat
      /\ \A c \in 0 .. 5 : PoolInv(Int, sparseCount, pools[c])
      /\ Lives(sparseCount, pools, doomed)
      /\ Marks(sparseCount, pools, removed, doomed, Through)
  BY DEF IInv, World
<1>2. AllGrew(pools, pools', sparseCount, k, kit)
  BY <1>1, SpawnAllGrew
<1>3. /\ World(sparseCount', pools')
      /\ Lives(sparseCount', pools', doomed)
      /\ Marks(sparseCount', pools', removed, doomed, Through)
  BY <1>1, <1>2, WorldGrows, LivesGrow, MarksGrow
<1>4. /\ Entity \subseteq Entity' /\ Mortals(sparseCount) \subseteq Mortals(sparseCount')
      /\ Pairs(sparseCount) \subseteq Pairs(sparseCount')
  BY <1>1 DEF Entity, Mortals, Pairs
<1>5. collisions \in Seq(Pairs(sparseCount'))
  BY <1>4, SeqOfMore DEF IInv, CollisionInv
<1>6. Collider \in 0 .. 5
  BY DEF Collider
<1>7. ASSUME NEW pair \in Pairs(sparseCount), Colliding(pools, pair)
      PROVE  Colliding(pools', pair)
  <2>1. pair[1] \in 0 .. sparseCount - 1 /\ pair[2] \in 0 .. sparseCount - 1
    BY DEF Pairs
  <2>2. \A x \in 0 .. sparseCount - 1 : Untouched(x, pools[Collider], pools'[Collider])
    BY <1>2, <1>6, GrewHas
  <2> QED BY <1>7, <2>1, <2>2 DEF Colliding, Untouched
<1>8. Collider \notin DOMAIN kit =>
        DenseArrays(pools'[Collider]) = DenseArrays(pools[Collider])
  BY <1>2, <1>6 DEF AllGrew, Grew
<1> QED BY <1>3, <1>4, <1>5, <1>7, <1>8

\* player_update, with or without a shot.
LEMMA BeforeStep == IInv /\ BeforePhysics => IInv'
<1> SUFFICES ASSUME IInv, BeforePhysics PROVE IInv'
  OBVIOUS
<1>0. /\ phase = "before" /\ phase' = "forces" /\ i' = 0 /\ j' = 0 /\ aged' = {}
      /\ UNCHANGED <<removed, collisions, running, lmb, iterations, doomed>>
      /\ PlaceInv /\ CollisionInv
  BY DEF IInv, BeforePhysics, GoTo, inputs
<1>1. PlaceInv'
  BY <1>0 DEF PlaceInv
<1>2. AgingInv' /\ aged' \subseteq Entity'
  BY <1>0 DEF AgingInv
<1>3. Through = 0 /\ Through' = 0
  BY <1>0 DEF Through
<1>4. CASE UNCHANGED <<pools, sparseCount>>
  BY <1>0, <1>1, <1>2, <1>3, <1>4 DEF IInv, CollisionInv
<1>5. CASE /\ sparseCount < MaxEntities
           /\ pools' = Spawn(pools, sparseCount, BulletKit)
           /\ sparseCount' = sparseCount + 1
  <2>1. /\ World(sparseCount', pools')
        /\ Lives(sparseCount', pools', doomed)
        /\ Marks(sparseCount', pools', removed, doomed, Through)
        /\ collisions \in Seq(Pairs(sparseCount'))
    <3>1. /\ 1 \in Nat /\ GoodKit(BulletKit)
          /\ pools' = SpawnMany(pools, sparseCount, BulletKit, 1)
      BY <1>5, KitsAreGood DEF Spawn
    <3> QED BY <1>5, <3>1, SpawnStep
  <2>2. sparseCount' <= MaxEntities
    BY <1>5, FrameAssumption DEF IInv, World
  <2>3. CollisionInv'
    BY <1>0, <2>1 DEF CollisionInv
  <2> QED BY <1>0, <1>1, <1>2, <1>3, <2>1, <2>2, <2>3 DEF IInv
<1> QED BY <1>4, <1>5 DEF BeforePhysics, entities

\* Only bullets are marked in a collision: not the player, whose callback is another,
\* nor the camera, which does not collide.
LEMMA BulletsAreMortal ==
  ASSUME IInv, NEW pair \in Pairs(sparseCount), Colliding(pools, pair)
  PROVE  Bullets(pair) \in Seq(Mortals(sparseCount))
<1>1. ASSUME NEW e \in 0 .. sparseCount - 1, HasComponent(pools[Collider], e)
      PROVE  BulletIn(e) \in Seq(Mortals(sparseCount))
  <2>1. CASE Component(e, Collider) = BulletCallback
    <3>1. e # Player /\ e # Camera
      BY <1>1, <2>1 DEF IInv, World, Essentials, Component, BulletCallback, PlayerCallback
    <3>2. e \in Mortals(sparseCount)
      BY <3>1 DEF IInv, World, Mortals, Player, Camera
    <3> QED BY <3>2 DEF BulletIn
  <2>2. CASE Component(e, Collider) # BulletCallback
    BY <2>2 DEF BulletIn
  <2> QED BY <2>1, <2>2
<1>2. BulletIn(pair[1]) \in Seq(Mortals(sparseCount))
  BY <1>1 DEF Pairs, Colliding
<1>3. BulletIn(pair[2]) \in Seq(Mortals(sparseCount))
  BY <1>1 DEF Pairs, Colliding
<1> QED BY <1>2, <1>3 DEF Bullets

\* resolve_collision, of two that collide: explosions and marks.
LEMMA ResolveStep ==
  ASSUME IInv, phase # "remove", NEW pair \in Pairs(sparseCount),
         Colliding(pools, pair), Resolve(pair)
  PROVE  /\ sparseCount' <= MaxEntities
         /\ World(sparseCount', pools')
         /\ Lives(sparseCount', pools', doomed')
         /\ Marks(sparseCount', pools', removed', doomed', 0)
         /\ collisions \in Seq(Pairs(sparseCount'))
         /\ \A p \in Pairs(sparseCount) : Colliding(pools, p) => Colliding(pools', p)
         /\ Entity \subseteq Entity'
         /\ DenseArrays(pools'[Collider]) = DenseArrays(pools[Collider])
<1> DEFINE marked == Bullets(pair)
           particles == Len(marked) * ParticlesPerHit
<1>1. marked \in Seq(Mortals(sparseCount)) /\ particles \in Nat
  <2>1. marked \in Seq(Mortals(sparseCount))
    BY BulletsAreMortal
  <2>2. Len(marked) \in Nat /\ ParticlesPerHit \in Nat
    BY <2>1, FrameAssumption
  <2> HIDE DEF marked
  <2> QED BY <2>1, <2>2
<1>2. PICK lifetime \in Lifetimes :
             pools' = SpawnMany(pools, sparseCount, ParticleKit(lifetime), particles)
  BY DEF Resolve
<1>3. /\ sparseCount' = sparseCount + particles /\ sparseCount' <= MaxEntities
      /\ removed' = removed \o marked
      /\ doomed' = doomed \cup {marked[m] : m \in 1 .. Len(marked)}
  BY DEF Resolve, Mark, MarkedBy
<1> HIDE DEF marked, particles
<1>4. GoodKit(ParticleKit(lifetime)) /\ Collider \notin DOMAIN ParticleKit(lifetime)
  BY FrameAssumption, KitsAreGood
<1>5. /\ World(sparseCount', pools')
      /\ Lives(sparseCount', pools', doomed)
      /\ Marks(sparseCount', pools', removed, doomed, Through)
      /\ collisions \in Seq(Pairs(sparseCount'))
      /\ \A p \in Pairs(sparseCount) : Colliding(pools, p) => Colliding(pools', p)
      /\ Entity \subseteq Entity' /\ Mortals(sparseCount) \subseteq Mortals(sparseCount')
      /\ DenseArrays(pools'[Collider]) = DenseArrays(pools[Collider])
  <2> DEFINE kit == ParticleKit(lifetime)
  <2>1. GoodKit(kit) /\ Collider \notin DOMAIN kit
        /\ pools' = SpawnMany(pools, sparseCount, kit, particles)
    BY <1>2, <1>4
  <2> HIDE DEF kit
  <2> QED BY <1>1, <1>3, <2>1, SpawnStep
<1>6. marked \in Seq(Mortals(sparseCount'))
  BY <1>1, <1>5, SeqOfMore
<1>7. Through = 0
  BY DEF Through
<1>8. Marks(sparseCount', pools', removed', doomed', 0)
  BY <1>3, <1>5, <1>6, <1>7, MarksMore
<1>9. Lives(sparseCount', pools', doomed')
  BY <1>3, <1>5 DEF Lives
<1> QED BY <1>3, <1>5, <1>8, <1>9

\* Two that touch in the scan.
LEMMA TouchStep == IInv /\ Touch => IInv'
<1> SUFFICES ASSUME IInv, Touch PROVE IInv'
  OBVIOUS
<1>0. /\ phase = "scan" /\ phase' = "scan" /\ PlaceInv /\ CollisionInv /\ Resolve(Pair)
      /\ UNCHANGED <<collisions, running, lmb, iterations, aged>>
      /\ Pair \in Pairs(sparseCount) /\ Colliding(pools, Pair)
      /\ aged \subseteq Entity
  BY PairCollides DEF IInv, Touch, Scanning, Advance, inputs
<1>1. /\ sparseCount' <= MaxEntities
      /\ World(sparseCount', pools')
      /\ Lives(sparseCount', pools', doomed')
      /\ Marks(sparseCount', pools', removed', doomed', 0)
      /\ collisions \in Seq(Pairs(sparseCount'))
      /\ \A p \in Pairs(sparseCount) : Colliding(pools, p) => Colliding(pools', p)
      /\ Entity \subseteq Entity'
  <2> HIDE DEF Pair
  <2> QED BY <1>0, ResolveStep
<1>2. PlaceInv'
  BY <1>0 DEF PlaceInv, Touch, Advance
<1>3. CollisionInv' /\ AgingInv' /\ Through' = 0
  BY <1>0, <1>1 DEF CollisionInv, AgingInv, Through
<1> QED BY <1>0, <1>1, <1>2, <1>3 DEF IInv

\* One turn of the loop over the collisions found.
LEMMA ResolveNextStep == IInv /\ ResolveNext => IInv'
<1> SUFFICES ASSUME IInv, ResolveNext PROVE IInv'
  OBVIOUS
<1> DEFINE pair == collisions[i + 1]
<1>0. /\ phase = "resolve" /\ phase' = "resolve" /\ PlaceInv /\ CollisionInv /\ Resolve(pair)
      /\ i < Len(collisions) /\ i' = i + 1 /\ i \in Nat
      /\ UNCHANGED <<collisions, running, lmb, iterations, aged, j>>
      /\ aged \subseteq Entity
  BY DEF IInv, PlaceInv, ResolveNext, inputs
<1>1. Len(collisions) \in Nat
  BY <1>0 DEF CollisionInv
<1>2. pair \in Pairs(sparseCount) /\ Colliding(pools, pair)
  BY <1>0, <1>1 DEF CollisionInv
<1> HIDE DEF pair
<1>3. /\ sparseCount' <= MaxEntities
      /\ World(sparseCount', pools')
      /\ Lives(sparseCount', pools', doomed')
      /\ Marks(sparseCount', pools', removed', doomed', 0)
      /\ collisions \in Seq(Pairs(sparseCount'))
      /\ \A p \in Pairs(sparseCount) : Colliding(pools, p) => Colliding(pools', p)
      /\ Entity \subseteq Entity'
  BY <1>0, <1>2, ResolveStep
<1>4. PlaceInv'
  BY <1>0, <1>1 DEF PlaceInv
<1>5. CollisionInv' /\ AgingInv' /\ Through' = 0
  BY <1>0, <1>3 DEF CollisionInv, AgingInv, Through
<1> QED BY <1>0, <1>3, <1>4, <1>5 DEF IInv

\* remove_marked
LEMMA RemoveStep == IInv /\ RemoveMarked => IInv'
<1> SUFFICES ASSUME IInv, RemoveMarked PROVE IInv'
  OBVIOUS
<1>0. /\ phase = "remove" /\ PlaceInv /\ CollisionInv /\ World(sparseCount, pools)
      /\ UNCHANGED <<sparseCount, collisions, running, lmb, iterations, doomed, aged>>
      /\ Marks(sparseCount, pools, removed, doomed, i)
      /\ i \in Nat /\ i <= Len(removed) /\ removed \in Seq(Mortals(sparseCount))
  BY DEF IInv, PlaceInv, RemoveMarked, inputs, history, Through, Marks
<1>1. CASE AllRemoved
  <2>1. pools' = pools /\ removed' = << >> /\ phase' = "draw" /\ i' = 0 /\ j' = 0
    BY <1>1 DEF RemoveMarked, GoTo
  <2>2. Marks(sparseCount, pools, << >>, doomed, 0)
    <3>1. \A m \in 1 .. Len(removed) : ~(m > i)
      BY <1>0, <1>1 DEF AllRemoved
    <3> QED BY <1>0, <3>1 DEF Marks
  <2>3. PlaceInv' /\ CollisionInv' /\ AgingInv' /\ Through' = 0
    BY <1>0, <2>1 DEF PlaceInv, CollisionInv, AgingInv, Through
  <2> QED BY <1>0, <2>1, <2>2, <2>3 DEF IInv, Entity
<1>2. CASE ~AllRemoved
  <2>1. /\ pools' = [c \in 0 .. 5 |-> RemoveFromPool(pools[c], removed[i + 1])]
        /\ i' = i + 1 /\ removed' = removed /\ phase' = phase /\ j' = j
    BY <1>2 DEF RemoveMarked
  <2>2. i < Len(removed) /\ Len(removed) \in Nat
    BY <1>0, <1>2 DEF AllRemoved
  <2>3. removed[i + 1] \in Mortals(sparseCount)
    BY <1>0, <2>2
  <2>4. Removed(pools, pools', sparseCount, removed[i + 1])
    BY <2>1, <2>3 DEF Removed
  <2>5. World(sparseCount, pools') /\ Lives(sparseCount, pools', doomed)
    <3> DEFINE e == removed[i + 1]
    <3>1. Removed(pools, pools', sparseCount, e) /\ Lives(sparseCount, pools, doomed)
      BY <2>4 DEF IInv
    <3> HIDE DEF e
    <3> QED BY <1>0, <3>1, WorldWithout
  <2>6. Marks(sparseCount, pools', removed, doomed, i + 1)
    BY <1>0, <2>4, MarksRemoved
  <2>7. PlaceInv' /\ CollisionInv' /\ AgingInv' /\ Through' = i + 1
    BY <1>0, <2>1, <2>2 DEF PlaceInv, CollisionInv, AgingInv, Through
  <2> QED BY <1>0, <2>1, <2>5, <2>6, <2>7 DEF IInv, Entity
<1> QED BY <1>1, <1>2

\* The invariant is inductive.
LEMMA StepIInv == IInv /\ [Next]_vars => IInv'
<1> SUFFICES ASSUME IInv, [Next]_vars PROVE IInv'
  OBVIOUS
<1>1. CASE UNCHANGED vars
  BY <1>1 DEF vars, entities, inputs, history, IInv, PlaceInv, CollisionInv, AgingInv,
              Through, Entity, Has
<1>2. CASE HandleInput
  BY <1>2, InputStep
<1>3. CASE LifetimeTick
  BY <1>3, TickStep
<1>4. CASE BeforePhysics
  BY <1>4, BeforeStep
<1>5. CASE Touch
  BY <1>5, TouchStep
<1>6. CASE ResolveNext
  BY <1>6, ResolveNextStep
<1>7. CASE RemoveMarked
  BY <1>7, RemoveStep
<1>8. CASE ApplyForces \/ StartRound \/ Miss \/ Earlier \/ SameTime \/ Move
           \/ SkipHit \/ EndRound \/ AfterPhysics \/ Draw
  BY <1>8, IdleStep
<1> QED BY <1>1, <1>2, <1>3, <1>4, <1>5, <1>6, <1>7, <1>8 DEF Next

\* The invariant holds always.
LEMMA SpecIInv == Spec => []IInv
BY InitIInv, StepIInv, PTL DEF Spec

-----------------------------------------------------------------------------
\* The variables keep their types: every pool is a pool of the entities there are,
\* and the rounds of physics_step never pass their cap.
THEOREM SpecTypeOK == Spec => []TypeOK
BY SpecIInv, IInvTypeOK, PTL

\* Every lookup the loops make without has_component finds its component.
THEOREM SpecLookupsFind == Spec => []LookupsFind
<1>1. IInv => LookupsFind
  BY DEF IInv, World, Kits, CollisionInv, Colliding, LookupsFind, Has, Entity
<1> QED BY <1>1, SpecIInv, PTL

\* The player and the camera are never without what the frame looks up of them,
\* and there is always a collider, so the bound of the scan is never -1.
THEOREM SpecEssentialsLast == Spec => []EssentialsLast
<1>1. ASSUME IInv PROVE EssentialsLast
  <2>1. World(sparseCount, pools) /\ Collider \in 0 .. 5 /\ Player \in 0 .. sparseCount - 1
    BY <1>1 DEF IInv, World, Collider, Player
  <2>2. \E k \in 0 .. pools[Collider].denseCount - 1 :
           pools[Collider].denseToSparse[k] = Player
    BY <2>1, HasDense DEF World, Essentials
  <2>3. PoolInv(Int, sparseCount, pools[Collider])
    BY <2>1 DEF World
  <2>4. pools[Collider].denseCount > 0
    BY <2>2, <2>3, PartsFromPool DEF Parts
  <2> QED BY <2>1, <2>4 DEF World, Essentials, EssentialsLast, Has
<1> QED BY <1>1, SpecIInv, PTL

\* Every particle ages in every frame, and none past its time is drawn.
THEOREM SpecParticlesAge == Spec => []ParticlesAge
<1>1. ASSUME IInv PROVE ParticlesAge
  <2>1. World(sparseCount, pools) /\ Lifetime \in 0 .. 5
    BY <1>1 DEF IInv, Lifetime
  <2>2. ASSUME phase = "draw", NEW k \in 0 .. pools[Lifetime].denseCount - 1
        PROVE  pools[Lifetime].dense[k] > 0
    <3> DEFINE e == pools[Lifetime].denseToSparse[k]
    <3>1. /\ e \in 0 .. sparseCount - 1 /\ HasComponent(pools[Lifetime], e)
          /\ GetComponent(pools[Lifetime], e) = pools[Lifetime].dense[k]
      BY <2>1, DenseHas
    <3> HIDE DEF e
    <3>2. removed = << >>
      BY <1>1, <2>2 DEF IInv, PlaceInv
    <3>3. e \notin doomed
      BY <1>1, <2>1, <3>1, <3>2 DEF IInv, Marks, Gone
    <3> QED BY <1>1, <3>1, <3>3 DEF IInv, Lives
  <2> QED BY <1>1, <2>2 DEF IInv, AgingInv, ParticlesAge
<1> QED BY <1>1, SpecIInv, PTL

\* What was marked is gone when its frame ends, and stays gone.
THEOREM SpecMarkedAreGone == Spec => []MarkedAreGone
<1>1. IInv => MarkedAreGone
  BY DEF IInv, PlaceInv, Marks, Gone, MarkedAreGone, Has
<1> QED BY <1>1, SpecIInv, PTL

\* No callback moves the colliders' dense arrays while the physics iterates them.
THEOREM SpecCollidersStay == Spec => CollidersStay
<1>1. ASSUME IInv, [Next]_vars, phase \in {"scan", "resolve"}
      PROVE  DenseArrays(pools'[Collider]) = DenseArrays(pools[Collider])
  <2>1. CASE Touch
    <3>1. Pair \in Pairs(sparseCount) /\ Colliding(pools, Pair) /\ Resolve(Pair)
      BY <1>1, <2>1, PairCollides DEF Touch
    <3> HIDE DEF Pair
    <3> QED BY <1>1, <3>1, ResolveStep
  <2>2. CASE ResolveNext
    <3> DEFINE pair == collisions[i + 1]
    <3>1. pair \in Pairs(sparseCount) /\ Colliding(pools, pair) /\ Resolve(pair)
      BY <1>1, <2>2 DEF ResolveNext, IInv, PlaceInv, CollisionInv
    <3> HIDE DEF pair
    <3> QED BY <1>1, <3>1, ResolveStep
  <2>3. CASE pools' = pools
    BY <2>3
  <2> QED BY <1>1, <2>1, <2>2, <2>3
          DEF Next, vars, entities, HandleInput, LifetimeTick, BeforePhysics, ApplyForces,
              StartRound, Miss, Earlier, SameTime, Move, SkipHit, EndRound, AfterPhysics,
              RemoveMarked, Draw
<1> QED BY <1>1, SpecIInv, PTL DEF Spec, CollidersStay
=============================================================================
