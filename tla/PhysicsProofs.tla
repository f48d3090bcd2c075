---------------------------- MODULE PhysicsProofs ----------------------------
(***************************************************************************)
(* Proofs about physics_step: the player stays in the room, a frame takes  *)
(* at most three rounds, the time that is cut costs less than a            *)
(* millisecond a round, and a shot hits walls only.                        *)
(*                                                                         *)
(* From the bottom up: ratios that stand for times; the first contact of   *)
(* two boxes, and which side it is on if the first box moves equally fast  *)
(* on two axes or along one; a scan over the walls, in which the velocity  *)
(* may change; a round of physics_step; the invariant PhysicsInv; shots.   *)
(***************************************************************************)
EXTENDS Physics, Lemmas

-----------------------------------------------------------------------------
(***************************************************************************)
(* Ratios, and what check_AABB_collision makes of two boxes.               *)
(***************************************************************************)

Ratios == [n : Int, d : Nat \ {0}]

\* t is m / d.
Worth(t, m, d) == t.n * d = m * t.d

\* A positive factor makes no difference to a comparison.
LEMMA Cancel ==
  ASSUME NEW a \in Int, NEW b \in Int, NEW d \in Nat \ {0}
  PROVE  (a * d < b * d <=> a < b) /\ (a * d = b * d <=> a = b)
<1>1. a < b => a * d < b * d
  <2> SUFFICES ASSUME a < b PROVE a * d < b * d
    OBVIOUS
  <2>1. (b - a) * d > 0
    OBVIOUS
  <2>2. (b - a) * d = b * d - a * d
    OBVIOUS
  <2> QED BY <2>1, <2>2
<1>2. b < a => b * d < a * d
  <2> SUFFICES ASSUME b < a PROVE b * d < a * d
    OBVIOUS
  <2>1. (a - b) * d > 0
    OBVIOUS
  <2>2. (a - b) * d = a * d - b * d
    OBVIOUS
  <2> QED BY <2>1, <2>2
<1>3. a * d \in Int /\ b * d \in Int
  OBVIOUS
<1>4. a = b => a * d = b * d
  OBVIOUS
<1> QED BY <1>1, <1>2, <1>3, <1>4

\* Ratios compare as their numerators over one denominator do.
LEMMA WorthOrder ==
  ASSUME NEW s \in Ratios, NEW t \in Ratios, NEW d \in Nat \ {0},
         NEW m \in Int, NEW k \in Int, Worth(s, m, d), Worth(t, k, d)
  PROVE  (Before(s, t) <=> m < k) /\ (SameAs(s, t) <=> m = k)
<1>1. /\ s.n \in Int /\ t.n \in Int /\ s.d \in Nat \ {0} /\ t.d \in Nat \ {0}
      /\ s.n * d = m * s.d /\ t.n * d = k * t.d
  BY DEF Ratios, Worth
<1> DEFINE a == s.n * t.d
           b == t.n * s.d
           c == s.d * t.d
<1>2. a \in Int /\ b \in Int /\ c \in Nat \ {0}
  BY <1>1
<1>3. a * d = m * c
  <2>1. a * d = (s.n * d) * t.d
    BY <1>1
  <2>2. (m * s.d) * t.d = m * c
    BY <1>1
  <2> QED BY <1>1, <2>1, <2>2
<1>4. b * d = k * c
  <2>1. b * d = (t.n * d) * s.d
    BY <1>1
  <2>2. (k * t.d) * s.d = k * c
    BY <1>1
  <2> QED BY <1>1, <2>1, <2>2
<1>5. (Before(s, t) <=> a < b) /\ (SameAs(s, t) <=> a = b)
  BY DEF Before, SameAs
<1> HIDE DEF a, b, c
<1>6. (a < b <=> a * d < b * d) /\ (a = b <=> a * d = b * d)
  BY <1>2, Cancel
<1>7. (m < k <=> m * c < k * c) /\ (m = k <=> m * c = k * c)
  BY <1>2, Cancel
<1> QED BY <1>3, <1>4, <1>5, <1>6, <1>7

\* Some ratios over one denominator, none of them below a bound, have a first.
LEMMA LeastRatio ==
  ASSUME NEW S, S \subseteq Ratios, S # {}, NEW d \in Nat \ {0}, NEW B \in Int,
         \A t \in S : \E m \in Int : m >= B /\ Worth(t, m, d)
  PROVE  \E t \in S : \A u \in S : ~Before(u, t)
<1> DEFINE N == {m \in Nat : \E t \in S : Worth(t, m + B, d)}
<1>1. N # {}
  <2>1. PICK t \in S : TRUE
    OBVIOUS
  <2>2. PICK m \in Int : m >= B /\ Worth(t, m, d)
    BY <2>1
  <2>3. m - B \in Nat /\ (m - B) + B = m
    BY <2>2
  <2>4. Worth(t, (m - B) + B, d)
    BY <2>2, <2>3
  <2> QED BY <2>1, <2>3, <2>4
<1>2. PICK m \in N : \A k \in N : m <= k
  <2>1. N \subseteq Nat
    OBVIOUS
  <2> HIDE DEF N
  <2> QED BY <2>1, <1>1, LeastNatural
<1>3. PICK t \in S : Worth(t, m + B, d)
  BY <1>2
<1>4. ASSUME NEW u \in S PROVE ~Before(u, t)
  <2>1. PICK k \in Int : k >= B /\ Worth(u, k, d)
    OBVIOUS
  <2>2. k - B \in Nat /\ (k - B) + B = k
    BY <2>1
  <2>3. k - B \in N
    BY <2>1, <2>2
  <2>4. m + B <= k /\ m + B \in Int
    BY <2>2, <2>3, <1>2
  <2>5. Before(u, t) <=> k < m + B
    BY <2>1, <2>4, <1>3, WorthOrder
  <2> QED BY <2>1, <2>4, <2>5
<1> QED BY <1>3, <1>4

Vectors == [x : Int, y : Int]

IsBox(b) == /\ b \in [up : Int, down : Int, left : Int, right : Int]
            /\ b.left < b.right /\ b.down < b.up

\* The four sides.
Right(b1, b2, rel) == [toi |-> Ratio(b2.right - b1.left, rel.x), normal |-> VEC_RIGHT]
Left(b1, b2, rel)  == [toi |-> Ratio(b2.left - b1.right, rel.x), normal |-> VEC_LEFT]
Upper(b1, b2, rel) == [toi |-> Ratio(b2.up - b1.down, rel.y), normal |-> VEC_UP]
Lower(b1, b2, rel) == [toi |-> Ratio(b2.down - b1.up, rel.y), normal |-> VEC_DOWN]

\* Which of them are contacts.
LEMMA ContactsAre ==
  ASSUME NEW b1, NEW b2, NEW rel, NEW s \in Contacts(b1, b2, rel)
  PROVE  \/ /\ rel.x # 0 /\ s \in {Right(b1, b2, rel), Left(b1, b2, rel)}
            /\ YOverlapsAt(b1, b2, rel, s.toi)
         \/ /\ rel.y # 0 /\ s \in {Upper(b1, b2, rel), Lower(b1, b2, rel)}
            /\ XOverlapsAt(b1, b2, rel, s.toi)
BY DEF Contacts, XSides, YSides, Right, Left, Upper, Lower

\* And each side that the movement brings b1 to, level with b2, is one.
LEMMA SidesMeet ==
  ASSUME NEW b1, NEW b2, NEW rel, NEW s
  PROVE  /\ rel.x # 0 /\ s \in {Right(b1, b2, rel), Left(b1, b2, rel)}
              /\ YOverlapsAt(b1, b2, rel, s.toi) => s \in Contacts(b1, b2, rel)
         /\ rel.y # 0 /\ s \in {Upper(b1, b2, rel), Lower(b1, b2, rel)}
              /\ XOverlapsAt(b1, b2, rel, s.toi) => s \in Contacts(b1, b2, rel)
BY DEF Contacts, XSides, YSides, Right, Left, Upper, Lower

\* A ratio over its denominator, or a multiple of it.
LEMMA RatioWorth ==
  ASSUME NEW g \in Int, NEW q \in Int, q # 0, NEW e \in Nat \ {0}
  PROVE  /\ Ratio(g, q) \in Ratios
         /\ Ratio(g, q).d = Abs(q) /\ Abs(q) \in Nat \ {0} /\ Abs(q) * e \in Nat \ {0}
         /\ \E m \in Int : Worth(Ratio(g, q), m, Abs(q) * e)
<1>1. Ratio(g, q) \in Ratios /\ Ratio(g, q).d = Abs(q) /\ Abs(q) \in Nat \ {0}
  BY DEF Ratio, Ratios, Abs
<1> DEFINE n == Ratio(g, q).n
           a == Abs(q)
<1>2. n \in Int
  BY <1>1 DEF Ratios
<1> HIDE DEF n, a
<1>3. a \in Nat \ {0}
  BY <1>1 DEF a
<1>4. n * (a * e) = (n * e) * a /\ n * e \in Int /\ a * e \in Nat \ {0}
  BY <1>2, <1>3
<1>5. Worth(Ratio(g, q), n * e, Abs(q) * e)
  BY <1>1, <1>4 DEF Worth, n, a
<1> QED BY <1>1, <1>4, <1>5 DEF a

\* The first toi of check_AABB_collision: the code compares the contacts one by one,
\* and a first one always exists.
LEMMA FirstIsLeast ==
  ASSUME NEW b1, NEW b2, NEW rel, IsBox(b1), IsBox(b2), rel \in Vectors
  PROVE  LET first == First(Contacts(b1, b2, rel)) IN
         /\ first \in Ratios
         /\ first = Never \/ \E s \in Contacts(b1, b2, rel) : first = s.toi
         /\ \A s \in Contacts(b1, b2, rel) : s.toi \in Ratios /\ ~Before(s.toi, first)
         /\ ~Before(Never, first)
<1> DEFINE C == Contacts(b1, b2, rel)
           tois == {s.toi : s \in C} \cup {Never}
           dx == IF rel.x = 0 THEN 1 ELSE Abs(rel.x)
           dy == IF rel.y = 0 THEN 1 ELSE Abs(rel.y)
           d == dx * dy
<1>1. /\ dx \in Nat \ {0} /\ dy \in Nat \ {0}
      /\ rel.x \in Int /\ rel.y \in Int
      /\ {b1.left, b1.right, b1.up, b1.down} \subseteq Int
      /\ {b2.left, b2.right, b2.up, b2.down} \subseteq Int
  BY DEF IsBox, Vectors, Abs
<1>2. d \in Nat \ {0} /\ d = dy * dx
  <2> HIDE DEF dx, dy
  <2> QED BY <1>1
<1> DEFINE Has(t) == t \in Ratios /\ \E m \in Int : Worth(t, m, d)
<1>3. rel.x # 0 => Has(Right(b1, b2, rel).toi) /\ Has(Left(b1, b2, rel).toi)
  <2> SUFFICES ASSUME rel.x # 0
               PROVE  Has(Right(b1, b2, rel).toi) /\ Has(Left(b1, b2, rel).toi)
    OBVIOUS
  <2>1. d = Abs(rel.x) * dy
    OBVIOUS
  <2>2. b2.right - b1.left \in Int /\ b2.left - b1.right \in Int
    BY <1>1
  <2>3. /\ Right(b1, b2, rel).toi = Ratio(b2.right - b1.left, rel.x)
        /\ Left(b1, b2, rel).toi = Ratio(b2.left - b1.right, rel.x)
    BY DEF Right, Left
  <2> HIDE DEF dx, dy, d
  <2>4. /\ Ratio(b2.right - b1.left, rel.x) \in Ratios
        /\ \E m \in Int : Worth(Ratio(b2.right - b1.left, rel.x), m, Abs(rel.x) * dy)
    BY <2>2, <1>1, RatioWorth
  <2>5. /\ Ratio(b2.left - b1.right, rel.x) \in Ratios
        /\ \E m \in Int : Worth(Ratio(b2.left - b1.right, rel.x), m, Abs(rel.x) * dy)
    BY <2>2, <1>1, RatioWorth
  <2> QED BY <2>1, <2>3, <2>4, <2>5
<1>4. rel.y # 0 => Has(Upper(b1, b2, rel).toi) /\ Has(Lower(b1, b2, rel).toi)
  <2> SUFFICES ASSUME rel.y # 0
               PROVE  Has(Upper(b1, b2, rel).toi) /\ Has(Lower(b1, b2, rel).toi)
    OBVIOUS
  <2>1. d = Abs(rel.y) * dx
    BY <1>2
  <2>2. b2.up - b1.down \in Int /\ b2.down - b1.up \in Int
    BY <1>1
  <2>3. /\ Upper(b1, b2, rel).toi = Ratio(b2.up - b1.down, rel.y)
        /\ Lower(b1, b2, rel).toi = Ratio(b2.down - b1.up, rel.y)
    BY DEF Upper, Lower
  <2> HIDE DEF dx, dy, d
  <2>4. /\ Ratio(b2.up - b1.down, rel.y) \in Ratios
        /\ \E m \in Int : Worth(Ratio(b2.up - b1.down, rel.y), m, Abs(rel.y) * dx)
    BY <2>2, <1>1, RatioWorth
  <2>5. /\ Ratio(b2.down - b1.up, rel.y) \in Ratios
        /\ \E m \in Int : Worth(Ratio(b2.down - b1.up, rel.y), m, Abs(rel.y) * dx)
    BY <2>2, <1>1, RatioWorth
  <2> QED BY <2>1, <2>3, <2>4, <2>5
<1>5. Has(Never)
  <2>1. Never = [n |-> 99, d |-> 1]
    BY DEF Never, Ratio
  <2>2. Worth(Never, 99 * d, d)
    <3> HIDE DEF d
    <3> QED BY <2>1, <1>2 DEF Worth
  <2>3. Never \in Ratios
    BY <2>1 DEF Ratios
  <2>4. 99 * d \in Int
    BY <1>2
  <2> HIDE DEF d
  <2> QED BY <2>2, <2>3, <2>4
<1>6. ASSUME NEW t \in tois
      PROVE  /\ Has(t)
             /\ \/ t = Never
                \/ rel.x # 0 /\ t \in {Right(b1, b2, rel).toi, Left(b1, b2, rel).toi}
                \/ rel.y # 0 /\ t \in {Upper(b1, b2, rel).toi, Lower(b1, b2, rel).toi}
  <2>1. CASE t = Never
    BY <2>1, <1>5
  <2>2. CASE \E s \in C : t = s.toi
    <3>1. PICK s \in C : t = s.toi
      BY <2>2
    <3>2. \/ rel.x # 0 /\ s \in {Right(b1, b2, rel), Left(b1, b2, rel)}
          \/ rel.y # 0 /\ s \in {Upper(b1, b2, rel), Lower(b1, b2, rel)}
      BY ContactsAre
    <3> HIDE DEF Has
    <3> QED BY <3>1, <3>2, <1>3, <1>4
  <2> QED BY <2>1, <2>2
<1>7. \E B \in Int : \A t \in tois : \E m \in Int : m >= B /\ Worth(t, m, d)
  <2> DEFINE m(t) == CHOOSE k \in Int : Worth(t, k, d)
  <2>1. \A t : Has(t) => m(t) \in Int /\ Worth(t, m(t), d)
    OBVIOUS
  <2> HIDE DEF m
  <2> DEFINE least(t) == IF Has(t) /\ m(t) < 0 THEN m(t) ELSE 0
  <2>2. \A t : least(t) \in Int /\ least(t) <= 0 /\ (Has(t) => least(t) <= m(t))
    BY <2>1
  <2> HIDE DEF least
  <2> DEFINE B == least(Never) + least(Right(b1, b2, rel).toi) + least(Left(b1, b2, rel).toi)
                  + least(Upper(b1, b2, rel).toi) + least(Lower(b1, b2, rel).toi)
  <2>3. /\ B \in Int
        /\ B <= least(Never)
        /\ B <= least(Right(b1, b2, rel).toi) /\ B <= least(Left(b1, b2, rel).toi)
        /\ B <= least(Upper(b1, b2, rel).toi) /\ B <= least(Lower(b1, b2, rel).toi)
    BY <2>2
  <2> HIDE DEF B
  <2>4. ASSUME NEW t \in tois PROVE m(t) \in Int /\ m(t) >= B /\ Worth(t, m(t), d)
    <3>1. Has(t) /\ B <= least(t)
      BY <2>3, <1>6
    <3>2. m(t) \in Int /\ least(t) <= m(t) /\ least(t) \in Int /\ Worth(t, m(t), d)
      BY <2>1, <2>2, <3>1
    <3> QED BY <3>1, <3>2, <2>3
  <2> QED BY <2>3, <2>4
<1>8. \E t \in tois : \A u \in tois : ~Before(u, t)
  <2>1. PICK B \in Int : \A t \in tois : \E m \in Int : m >= B /\ Worth(t, m, d)
    BY <1>7
  <2>2. tois \subseteq Ratios
    BY <1>6
  <2>3. tois # {}
    OBVIOUS
  <2> HIDE DEF tois, d
  <2> QED BY <2>1, <2>2, <2>3, <1>2, LeastRatio
<1>9. First(C) = CHOOSE t \in tois : \A u \in tois : ~Before(u, t)
  BY DEF First
<1>10. First(C) \in tois /\ \A u \in tois : ~Before(u, First(C))
  <2> HIDE DEF tois
  <2> QED BY <1>8, <1>9
<1> QED BY <1>6, <1>10

\* A contact within the movement that no other comes before is the first.
LEMMA FirstIs ==
  ASSUME NEW b1, NEW b2, NEW rel, IsBox(b1), IsBox(b2), rel \in Vectors,
         NEW s \in Contacts(b1, b2, rel), s.toi.n <= s.toi.d,
         \A u \in Contacts(b1, b2, rel) : ~Before(u.toi, s.toi)
  PROVE  LET first == First(Contacts(b1, b2, rel)) IN
         first \in Ratios /\ SameAs(first, s.toi)
<1> DEFINE C == Contacts(b1, b2, rel)
           f == First(C)
           t == s.toi
<1>1. /\ f \in Ratios /\ t \in Ratios
      /\ f = Never \/ \E u \in C : f = u.toi
      /\ ~Before(t, f)
  BY FirstIsLeast
<1>2. f.n \in Int /\ f.d \in Nat \ {0} /\ t.n \in Int /\ t.d \in Nat \ {0}
  BY <1>1 DEF Ratios
<1>3. ~Before(f, t)
  <2>1. CASE f = Never
    <3>1. f.n = 99 /\ f.d = 1
      BY <2>1 DEF Never, Ratio
    <3>2. ~(99 * t.d < t.n * 1)
      BY <1>2
    <3> QED BY <3>1, <3>2 DEF Before
  <2>2. CASE \E u \in C : f = u.toi
    BY <2>2
  <2> QED BY <1>1, <2>1, <2>2
<1> HIDE DEF f, t
<1>4. f.n * t.d \in Int /\ t.n * f.d \in Int
  BY <1>2
<1>5. f.n * t.d = t.n * f.d
  BY <1>1, <1>3, <1>4 DEF Before
<1> QED BY <1>1, <1>5 DEF SameAs, f, t

\* What has passed b at the time n / d, having started from a at the speed q, did
\* so no earlier than it got to b.
LEMMA Later ==
  ASSUME NEW a \in Int, NEW b \in Int, NEW n \in Int, NEW d \in Nat \ {0}, NEW q \in Int,
         a * d + n * q > b * d
  PROVE  ~(n * q < (b - a) * d)
<1>1. (b - a) * d = b * d - a * d
  OBVIOUS
<1>2. a * d \in Int /\ b * d \in Int /\ n * q \in Int
  OBVIOUS
<1> QED BY <1>1, <1>2

\* Moving to the right, b1 first meets b2 at the near side, if it gets to that at all.
LEMMA MeetsRight ==
  ASSUME NEW b1, NEW b2, NEW rel, IsBox(b1), IsBox(b2), rel \in Vectors,
         rel.x > 0, b2.left - b1.right <= rel.x,
         YOverlapsAt(b1, b2, rel, [n |-> b2.left - b1.right, d |-> rel.x])
  PROVE  LET first == First(Contacts(b1, b2, rel)) IN
         first \in Ratios /\ SameAs(first, [n |-> b2.left - b1.right, d |-> rel.x])
<1> DEFINE q == rel.x
           near == Left(b1, b2, rel)
<1>1. /\ rel.x \in Int /\ rel.y \in Int /\ q \in Nat \ {0}
      /\ {b1.left, b1.right, b1.up, b1.down} \subseteq Int
      /\ {b2.left, b2.right, b2.up, b2.down} \subseteq Int
  BY DEF IsBox, Vectors
<1>2. near.toi = [n |-> b2.left - b1.right, d |-> q]
  BY <1>1 DEF Left, Ratio
<1>3. near \in Contacts(b1, b2, rel)
  BY <1>2, SidesMeet
<1>4. ASSUME NEW u \in Contacts(b1, b2, rel) PROVE ~Before(u.toi, near.toi)
  <2>1. CASE u = near
    BY <2>1, <1>1, <1>2 DEF Before
  <2>2. CASE u = Right(b1, b2, rel)
    <3>1. u.toi.d = q /\ u.toi.n \in Int /\ u.toi.n > b2.left - b1.right
      BY <2>2, <1>1 DEF Right, Ratio, IsBox
    <3>2. b2.left - b1.right \in Int /\ u.toi.n * q > (b2.left - b1.right) * q
      BY <3>1, <1>1, Cancel
    <3> QED BY <3>1, <3>2, <1>1, <1>2 DEF Before
  <2>3. CASE u \in {Upper(b1, b2, rel), Lower(b1, b2, rel)} /\ XOverlapsAt(b1, b2, rel, u.toi)
    <3>1. u.toi.n \in Int /\ u.toi.d \in Nat \ {0}
      BY FirstIsLeast DEF Ratios
    <3>2. b1.right * u.toi.d + u.toi.n * q > b2.left * u.toi.d
      BY <2>3, <3>1, <1>1 DEF XOverlapsAt
    <3>3. ~(u.toi.n * q < (b2.left - b1.right) * u.toi.d)
      BY <3>1, <3>2, <1>1, Later
    <3>4. b2.left - b1.right = b2.left - b1.right
      BY <1>1
    <3> QED BY <3>3, <3>4, <1>2 DEF Before
  <2> QED BY <2>1, <2>2, <2>3, ContactsAre
<1> QED BY <1>2, <1>3, <1>4, FirstIs

\* Moving to the left, b1 first meets b2 at the near side, if it gets to that at all.
LEMMA MeetsLeft ==
  ASSUME NEW b1, NEW b2, NEW rel, IsBox(b1), IsBox(b2), rel \in Vectors,
         rel.x < 0, b1.left - b2.right <= -rel.x,
         YOverlapsAt(b1, b2, rel, [n |-> b1.left - b2.right, d |-> -rel.x])
  PROVE  LET first == First(Contacts(b1, b2, rel)) IN
         first \in Ratios /\ SameAs(first, [n |-> b1.left - b2.right, d |-> -rel.x])
<1> DEFINE q == -rel.x
           near == Right(b1, b2, rel)
<1>1. /\ rel.x \in Int /\ rel.y \in Int /\ q \in Nat \ {0}
      /\ {b1.left, b1.right, b1.up, b1.down} \subseteq Int
      /\ {b2.left, b2.right, b2.up, b2.down} \subseteq Int
  BY DEF IsBox, Vectors
<1>2. near.toi = [n |-> b1.left - b2.right, d |-> q]
  BY <1>1 DEF Right, Ratio
<1>3. near \in Contacts(b1, b2, rel)
  BY <1>2, SidesMeet
<1>4. ASSUME NEW u \in Contacts(b1, b2, rel) PROVE ~Before(u.toi, near.toi)
  <2>1. CASE u = near
    BY <2>1, <1>1, <1>2 DEF Before
  <2>2. CASE u = Left(b1, b2, rel)
    <3>1. u.toi.d = q /\ u.toi.n \in Int /\ u.toi.n > b1.left - b2.right
      BY <2>2, <1>1 DEF Left, Ratio, IsBox
    <3>2. b1.left - b2.right \in Int /\ u.toi.n * q > (b1.left - b2.right) * q
      BY <3>1, <1>1, Cancel
    <3> QED BY <3>1, <3>2, <1>1, <1>2 DEF Before
  <2>3. CASE u \in {Upper(b1, b2, rel), Lower(b1, b2, rel)} /\ XOverlapsAt(b1, b2, rel, u.toi)
    <3>1. u.toi.n \in Int /\ u.toi.d \in Nat \ {0}
      BY FirstIsLeast DEF Ratios
    <3>2. (-b1.left) * u.toi.d + u.toi.n * q > (-b2.right) * u.toi.d
      BY <2>3, <3>1, <1>1 DEF XOverlapsAt
    <3>3. ~(u.toi.n * q < ((-b2.right) - (-b1.left)) * u.toi.d)
      BY <3>1, <3>2, <1>1, Later
    <3>4. (-b2.right) - (-b1.left) = b1.left - b2.right
      BY <1>1
    <3> QED BY <3>3, <3>4, <1>2 DEF Before
  <2> QED BY <2>1, <2>2, <2>3, ContactsAre
<1> QED BY <1>2, <1>3, <1>4, FirstIs

\* Moving up, b1 first meets b2 at the near side, if it gets to that at all.
LEMMA MeetsUp ==
  ASSUME NEW b1, NEW b2, NEW rel, IsBox(b1), IsBox(b2), rel \in Vectors,
         rel.y > 0, b2.down - b1.up <= rel.y,
         XOverlapsAt(b1, b2, rel, [n |-> b2.down - b1.up, d |-> rel.y])
  PROVE  LET first == First(Contacts(b1, b2, rel)) IN
         first \in Ratios /\ SameAs(first, [n |-> b2.down - b1.up, d |-> rel.y])
<1> DEFINE q == rel.y
           near == Lower(b1, b2, rel)
<1>1. /\ rel.x \in Int /\ rel.y \in Int /\ q \in Nat \ {0}
      /\ {b1.left, b1.right, b1.up, b1.down} \subseteq Int
      /\ {b2.left, b2.right, b2.up, b2.down} \subseteq Int
  BY DEF IsBox, Vectors
<1>2. near.toi = [n |-> b2.down - b1.up, d |-> q]
  BY <1>1 DEF Lower, Ratio
<1>3. near \in Contacts(b1, b2, rel)
  BY <1>2, SidesMeet
<1>4. ASSUME NEW u \in Contacts(b1, b2, rel) PROVE ~Before(u.toi, near.toi)
  <2>1. CASE u = near
    BY <2>1, <1>1, <1>2 DEF Before
  <2>2. CASE u = Upper(b1, b2, rel)
    <3>1. u.toi.d = q /\ u.toi.n \in Int /\ u.toi.n > b2.down - b1.up
      BY <2>2, <1>1 DEF Upper, Ratio, IsBox
    <3>2. b2.down - b1.up \in Int /\ u.toi.n * q > (b2.down - b1.up) * q
      BY <3>1, <1>1, Cancel
    <3> QED BY <3>1, <3>2, <1>1, <1>2 DEF Before
  <2>3. CASE u \in {Right(b1, b2, rel), Left(b1, b2, rel)} /\ YOverlapsAt(b1, b2, rel, u.toi)
    <3>1. u.toi.n \in Int /\ u.toi.d \in Nat \ {0}
      BY FirstIsLeast DEF Ratios
    <3>2. b1.up * u.toi.d + u.toi.n * q > b2.down * u.toi.d
      BY <2>3, <3>1, <1>1 DEF YOverlapsAt
    <3>3. ~(u.toi.n * q < (b2.down - b1.up) * u.toi.d)
      BY <3>1, <3>2, <1>1, Later
    <3>4. b2.down - b1.up = b2.down - b1.up
      BY <1>1
    <3> QED BY <3>3, <3>4, <1>2 DEF Before
  <2> QED BY <2>1, <2>2, <2>3, ContactsAre
<1> QED BY <1>2, <1>3, <1>4, FirstIs

\* Moving down, b1 first meets b2 at the near side, if it gets to that at all.
LEMMA MeetsDown ==
  ASSUME NEW b1, NEW b2, NEW rel, IsBox(b1), IsBox(b2), rel \in Vectors,
         rel.y < 0, b1.down - b2.up <= -rel.y,
         XOverlapsAt(b1, b2, rel, [n |-> b1.down - b2.up, d |-> -rel.y])
  PROVE  LET first == First(Contacts(b1, b2, rel)) IN
         first \in Ratios /\ SameAs(first, [n |-> b1.down - b2.up, d |-> -rel.y])
<1> DEFINE q == -rel.y
           near == Upper(b1, b2, rel)
<1>1. /\ rel.x \in Int /\ rel.y \in Int /\ q \in Nat \ {0}
      /\ {b1.left, b1.right, b1.up, b1.down} \subseteq Int
      /\ {b2.left, b2.right, b2.up, b2.down} \subseteq Int
  BY DEF IsBox, Vectors
<1>2. near.toi = [n |-> b1.down - b2.up, d |-> q]
  BY <1>1 DEF Upper, Ratio
<1>3. near \in Contacts(b1, b2, rel)
  BY <1>2, SidesMeet
<1>4. ASSUME NEW u \in Contacts(b1, b2, rel) PROVE ~Before(u.toi, near.toi)
  <2>1. CASE u = near
    BY <2>1, <1>1, <1>2 DEF Before
  <2>2. CASE u = Lower(b1, b2, rel)
    <3>1. u.toi.d = q /\ u.toi.n \in Int /\ u.toi.n > b1.down - b2.up
      BY <2>2, <1>1 DEF Lower, Ratio, IsBox
    <3>2. b1.down - b2.up \in Int /\ u.toi.n * q > (b1.down - b2.up) * q
      BY <3>1, <1>1, Cancel
    <3> QED BY <3>1, <3>2, <1>1, <1>2 DEF Before
  <2>3. CASE u \in {Right(b1, b2, rel), Left(b1, b2, rel)} /\ YOverlapsAt(b1, b2, rel, u.toi)
    <3>1. u.toi.n \in Int /\ u.toi.d \in Nat \ {0}
      BY FirstIsLeast DEF Ratios
    <3>2. (-b1.down) * u.toi.d + u.toi.n * q > (-b2.up) * u.toi.d
      BY <2>3, <3>1, <1>1 DEF YOverlapsAt
    <3>3. ~(u.toi.n * q < ((-b2.up) - (-b1.down)) * u.toi.d)
      BY <3>1, <3>2, <1>1, Later
    <3>4. (-b2.up) - (-b1.down) = b1.down - b2.up
      BY <1>1
    <3> QED BY <3>3, <3>4, <1>2 DEF Before
  <2> QED BY <2>1, <2>2, <2>3, ContactsAre
<1> QED BY <1>2, <1>3, <1>4, FirstIs

-----------------------------------------------------------------------------
(***************************************************************************)
(* One box that moves by d, in d steps, along an axis or along both.       *)
(***************************************************************************)

Signs == {-1, 0, 1}
Normals == {VEC_RIGHT, VEC_LEFT, VEC_UP, VEC_DOWN}

\* The step at which b1 meets the side of b2 with this normal.
Step(b1, b2, sx, sy, normal) ==
  CASE normal = VEC_RIGHT -> sx * (b2.right - b1.left)
    [] normal = VEC_LEFT  -> sx * (b2.left - b1.right)
    [] normal = VEC_UP    -> sy * (b2.up - b1.down)
    [] normal = VEC_DOWN  -> sy * (b2.down - b1.up)

\* The boxes overlap, seen along an axis, at step n.
YOver(b1, b2, sy, n) == b1.down + sy * n < b2.up /\ b1.up + sy * n > b2.down
XOver(b1, b2, sx, n) == b1.left + sx * n < b2.right /\ b1.right + sx * n > b2.left

Meets(b1, b2, sx, sy, normal) ==
  LET n == Step(b1, b2, sx, sy, normal) IN
  \/ normal \in {VEC_RIGHT, VEC_LEFT} /\ sx # 0 /\ YOver(b1, b2, sy, n)
  \/ normal \in {VEC_UP, VEC_DOWN} /\ sy # 0 /\ XOver(b1, b2, sx, n)

SideOf(b1, b2, rel, normal) ==
  CASE normal = VEC_RIGHT -> Right(b1, b2, rel)
    [] normal = VEC_LEFT  -> Left(b1, b2, rel)
    [] normal = VEC_UP    -> Upper(b1, b2, rel)
    [] normal = VEC_DOWN  -> Lower(b1, b2, rel)

\* The four normals.
LEMMA NormalsDiffer ==
  /\ VEC_RIGHT # VEC_LEFT /\ VEC_RIGHT # VEC_UP /\ VEC_RIGHT # VEC_DOWN
  /\ VEC_LEFT # VEC_UP /\ VEC_LEFT # VEC_DOWN /\ VEC_UP # VEC_DOWN
  /\ VEC_RIGHT.x = 1 /\ VEC_RIGHT.y = 0 /\ VEC_LEFT.x = -1 /\ VEC_LEFT.y = 0
  /\ VEC_UP.x = 0 /\ VEC_UP.y = 1 /\ VEC_DOWN.x = 0 /\ VEC_DOWN.y = -1
<1>1. /\ VEC_RIGHT.x = 1 /\ VEC_RIGHT.y = 0 /\ VEC_LEFT.x = -1 /\ VEC_LEFT.y = 0
      /\ VEC_UP.x = 0 /\ VEC_UP.y = 1 /\ VEC_DOWN.x = 0 /\ VEC_DOWN.y = -1
  BY DEF VEC_RIGHT, VEC_LEFT, VEC_UP, VEC_DOWN, Vector
<1> HIDE DEF VEC_RIGHT, VEC_LEFT, VEC_UP, VEC_DOWN
<1> QED BY <1>1

\* What it is to be a box.
LEMMA BoxFacts ==
  ASSUME NEW b, IsBox(b)
  PROVE  /\ b.left \in Int /\ b.right \in Int /\ b.up \in Int /\ b.down \in Int
         /\ b.left < b.right /\ b.down < b.up
BY DEF IsBox

\* Steps are integers.
LEMMA StepType ==
  ASSUME NEW b1, NEW b2, IsBox(b1), IsBox(b2),
         NEW sx \in Signs, NEW sy \in Signs, NEW normal \in Normals
  PROVE  /\ Step(b1, b2, sx, sy, normal) \in Int
         /\ Step(b1, b2, sx, sy, VEC_RIGHT) = sx * (b2.right - b1.left)
         /\ Step(b1, b2, sx, sy, VEC_LEFT) = sx * (b2.left - b1.right)
         /\ Step(b1, b2, sx, sy, VEC_UP) = sy * (b2.up - b1.down)
         /\ Step(b1, b2, sx, sy, VEC_DOWN) = sy * (b2.down - b1.up)
<1>1. /\ Step(b1, b2, sx, sy, VEC_RIGHT) = sx * (b2.right - b1.left)
      /\ Step(b1, b2, sx, sy, VEC_LEFT) = sx * (b2.left - b1.right)
      /\ Step(b1, b2, sx, sy, VEC_UP) = sy * (b2.up - b1.down)
      /\ Step(b1, b2, sx, sy, VEC_DOWN) = sy * (b2.down - b1.up)
  BY NormalsDiffer DEF Step
<1>2. sx \in Int /\ sy \in Int
  BY DEF Signs
<1>3. /\ b1.left \in Int /\ b1.right \in Int /\ b1.up \in Int /\ b1.down \in Int
      /\ b2.left \in Int /\ b2.right \in Int /\ b2.up \in Int /\ b2.down \in Int
  BY BoxFacts
<1> QED BY <1>1, <1>2, <1>3 DEF Normals

\* A side's time is its step, over d.
LEMMA SideTimes ==
  ASSUME NEW b1, NEW b2, IsBox(b1), IsBox(b2),
         NEW sx \in Signs, NEW sy \in Signs, NEW d \in Nat \ {0}, NEW normal \in Normals,
         normal \in {VEC_RIGHT, VEC_LEFT} => sx # 0,
         normal \in {VEC_UP, VEC_DOWN} => sy # 0
  PROVE  SideOf(b1, b2, Vector(sx * d, sy * d), normal) =
           [toi |-> [n |-> Step(b1, b2, sx, sy, normal), d |-> d], normal |-> normal]
<1>1. ASSUME NEW g \in Int, NEW s \in Signs, s # 0
      PROVE  Ratio(g, s * d) = [n |-> s * g, d |-> d]
  BY <1>1 DEF Signs, Ratio
<1>2. /\ b2.right - b1.left \in Int /\ b2.left - b1.right \in Int
      /\ b2.up - b1.down \in Int /\ b2.down - b1.up \in Int
  BY BoxFacts
<1>3. Vector(sx * d, sy * d).x = sx * d /\ Vector(sx * d, sy * d).y = sy * d
  BY DEF Vector
<1>4. CASE normal = VEC_RIGHT
  BY <1>1, <1>2, <1>3, <1>4, StepType, NormalsDiffer DEF SideOf, Right
<1>5. CASE normal = VEC_LEFT
  BY <1>1, <1>2, <1>3, <1>5, StepType, NormalsDiffer DEF SideOf, Left
<1>6. CASE normal = VEC_UP
  BY <1>1, <1>2, <1>3, <1>6, StepType, NormalsDiffer DEF SideOf, Upper
<1>7. CASE normal = VEC_DOWN
  BY <1>1, <1>2, <1>3, <1>7, StepType, NormalsDiffer DEF SideOf, Lower
<1> QED BY <1>4, <1>5, <1>6, <1>7 DEF Normals

\* And overlapping at that time is overlapping at that step.
LEMMA OverlapSteps ==
  ASSUME NEW b1, NEW b2, IsBox(b1), IsBox(b2),
         NEW sx \in Signs, NEW sy \in Signs, NEW d \in Nat \ {0}, NEW n \in Int
  PROVE  LET rel == Vector(sx * d, sy * d)
             toi == [n |-> n, d |-> d]
         IN /\ YOverlapsAt(b1, b2, rel, toi) <=> YOver(b1, b2, sy, n)
            /\ XOverlapsAt(b1, b2, rel, toi) <=> XOver(b1, b2, sx, n)
<1>1. ASSUME NEW a \in Int, NEW b \in Int, NEW s \in Signs
      PROVE  /\ a * d + n * (s * d) < b * d <=> a + s * n < b
             /\ a * d + n * (s * d) > b * d <=> a + s * n > b
  <2>1. a + s * n \in Int /\ s * n \in Int
    BY DEF Signs
  <2>2. (a + s * n) * d = a * d + n * (s * d)
    BY DEF Signs
  <2>3. /\ (a + s * n) * d < b * d <=> a + s * n < b
        /\ b * d < (a + s * n) * d <=> b < a + s * n
    BY <2>1, Cancel
  <2>4. (a + s * n) * d \in Int /\ b * d \in Int
    BY <2>1
  <2> QED BY <2>1, <2>2, <2>3, <2>4
<1>2. Vector(sx * d, sy * d).x = sx * d /\ Vector(sx * d, sy * d).y = sy * d
  BY DEF Vector
<1>3. YOverlapsAt(b1, b2, Vector(sx * d, sy * d), [n |-> n, d |-> d])
        <=> YOver(b1, b2, sy, n)
  BY <1>1, <1>2, BoxFacts DEF YOverlapsAt, YOver
<1>4. XOverlapsAt(b1, b2, Vector(sx * d, sy * d), [n |-> n, d |-> d])
        <=> XOver(b1, b2, sx, n)
  BY <1>1, <1>2, BoxFacts DEF XOverlapsAt, XOver
<1> QED BY <1>3, <1>4

\* The contacts are the sides that are met.
LEMMA ContactsMeet ==
  ASSUME NEW b1, NEW b2, IsBox(b1), IsBox(b2),
         NEW sx \in Signs, NEW sy \in Signs, NEW d \in Nat \ {0}
  PROVE  LET C == Contacts(b1, b2, Vector(sx * d, sy * d)) IN
         /\ \A c \in C : \E m \in Normals :
              Meets(b1, b2, sx, sy, m)
              /\ c = [toi |-> [n |-> Step(b1, b2, sx, sy, m), d |-> d], normal |-> m]
         /\ \A m \in Normals : Meets(b1, b2, sx, sy, m) =>
              [toi |-> [n |-> Step(b1, b2, sx, sy, m), d |-> d], normal |-> m] \in C
<1> DEFINE rel == Vector(sx * d, sy * d)
           C == Contacts(b1, b2, rel)
           side(m) == [toi |-> [n |-> Step(b1, b2, sx, sy, m), d |-> d], normal |-> m]
<1>1. (rel.x # 0 <=> sx # 0) /\ (rel.y # 0 <=> sy # 0)
  BY DEF Vector, Signs
<1>2. /\ SideOf(b1, b2, rel, VEC_RIGHT) = Right(b1, b2, rel)
      /\ SideOf(b1, b2, rel, VEC_LEFT) = Left(b1, b2, rel)
      /\ SideOf(b1, b2, rel, VEC_UP) = Upper(b1, b2, rel)
      /\ SideOf(b1, b2, rel, VEC_DOWN) = Lower(b1, b2, rel)
  BY NormalsDiffer DEF SideOf
<1>3. /\ sx # 0 => side(VEC_RIGHT) = Right(b1, b2, rel) /\ side(VEC_LEFT) = Left(b1, b2, rel)
      /\ sy # 0 => side(VEC_UP) = Upper(b1, b2, rel) /\ side(VEC_DOWN) = Lower(b1, b2, rel)
  BY <1>2, SideTimes, NormalsDiffer DEF Normals
<1>4. ASSUME NEW m \in Normals
      PROVE  /\ YOverlapsAt(b1, b2, rel, side(m).toi)
                  <=> YOver(b1, b2, sy, Step(b1, b2, sx, sy, m))
             /\ XOverlapsAt(b1, b2, rel, side(m).toi)
                  <=> XOver(b1, b2, sx, Step(b1, b2, sx, sy, m))
  <2>1. Step(b1, b2, sx, sy, m) \in Int
    BY StepType
  <2> QED BY <2>1, OverlapSteps
<1> HIDE DEF rel
<1>5. ASSUME NEW c \in C
      PROVE  \E m \in Normals : Meets(b1, b2, sx, sy, m) /\ c = side(m)
  <2>1. CASE /\ rel.x # 0 /\ c \in {Right(b1, b2, rel), Left(b1, b2, rel)}
             /\ YOverlapsAt(b1, b2, rel, c.toi)
    <3>1. PICK m \in {VEC_RIGHT, VEC_LEFT} : c = side(m)
      BY <2>1, <1>1, <1>3
    <3>2. m \in Normals
      BY DEF Normals
    <3> HIDE DEF side
    <3>3. YOver(b1, b2, sy, Step(b1, b2, sx, sy, m))
      BY <2>1, <3>1, <3>2, <1>4
    <3>4. Meets(b1, b2, sx, sy, m)
      BY <2>1, <3>1, <3>3, <1>1 DEF Meets
    <3> QED BY <3>1, <3>2, <3>4
  <2>2. CASE /\ rel.y # 0 /\ c \in {Upper(b1, b2, rel), Lower(b1, b2, rel)}
             /\ XOverlapsAt(b1, b2, rel, c.toi)
    <3>1. PICK m \in {VEC_UP, VEC_DOWN} : c = side(m)
      BY <2>2, <1>1, <1>3
    <3>2. m \in Normals
      BY DEF Normals
    <3> HIDE DEF side
    <3>3. XOver(b1, b2, sx, Step(b1, b2, sx, sy, m))
      BY <2>2, <3>1, <3>2, <1>4
    <3>4. Meets(b1, b2, sx, sy, m)
      BY <2>2, <3>1, <3>3, <1>1 DEF Meets
    <3> QED BY <3>1, <3>2, <3>4
  <2> QED BY <2>1, <2>2, ContactsAre
<1>6. ASSUME NEW m \in Normals, Meets(b1, b2, sx, sy, m) PROVE side(m) \in C
  <2>1. CASE m \in {VEC_RIGHT, VEC_LEFT}
    <3>1. sx # 0 /\ YOver(b1, b2, sy, Step(b1, b2, sx, sy, m))
      BY <1>6, <2>1, NormalsDiffer DEF Meets
    <3>2. YOverlapsAt(b1, b2, rel, side(m).toi)
      BY <3>1, <1>4
    <3>3. side(m) \in {Right(b1, b2, rel), Left(b1, b2, rel)}
      BY <2>1, <3>1, <1>3
    <3> HIDE DEF side
    <3> QED BY <3>1, <3>2, <3>3, <1>1, SidesMeet
  <2>2. CASE m \in {VEC_UP, VEC_DOWN}
    <3>1. sy # 0 /\ XOver(b1, b2, sx, Step(b1, b2, sx, sy, m))
      BY <1>6, <2>2, NormalsDiffer DEF Meets
    <3>2. XOverlapsAt(b1, b2, rel, side(m).toi)
      BY <3>1, <1>4
    <3>3. side(m) \in {Upper(b1, b2, rel), Lower(b1, b2, rel)}
      BY <2>2, <3>1, <1>3
    <3> HIDE DEF side
    <3> QED BY <3>1, <3>2, <3>3, <1>1, SidesMeet
  <2> QED BY <2>1, <2>2 DEF Normals
<1> QED BY <1>5, <1>6 DEF rel

\* No two sides are met at one step, so there is never more than one normal to add.
LEMMA OneNormal ==
  ASSUME NEW b1, NEW b2, IsBox(b1), IsBox(b2),
         NEW sx \in Signs, NEW sy \in Signs, NEW d \in Nat \ {0},
         NEW m \in Normals, Meets(b1, b2, sx, sy, m)
  PROVE  LET rel == Vector(sx * d, sy * d) IN
         NormalAt(XSides(b1, b2, rel) \cup YSides(b1, b2, rel),
                  [n |-> Step(b1, b2, sx, sy, m), d |-> d]) = m
<1> DEFINE rel == Vector(sx * d, sy * d)
           sides == XSides(b1, b2, rel) \cup YSides(b1, b2, rel)
           step(k) == Step(b1, b2, sx, sy, k)
           toi == [n |-> step(m), d |-> d]
           used(k) == (k \in {VEC_RIGHT, VEC_LEFT} /\ sx # 0)
                      \/ (k \in {VEC_UP, VEC_DOWN} /\ sy # 0)
           side(k) == [toi |-> [n |-> step(k), d |-> d], normal |-> k]
<1>1. sides = {side(k) : k \in {k \in Normals : used(k)}}
  <2>1. (rel.x # 0 <=> sx # 0) /\ (rel.y # 0 <=> sy # 0)
    BY DEF Vector, Signs
  <2>2. /\ sx # 0 => side(VEC_RIGHT) = Right(b1, b2, rel) /\ side(VEC_LEFT) = Left(b1, b2, rel)
        /\ sy # 0 => side(VEC_UP) = Upper(b1, b2, rel) /\ side(VEC_DOWN) = Lower(b1, b2, rel)
    <3>1. /\ SideOf(b1, b2, rel, VEC_RIGHT) = Right(b1, b2, rel)
          /\ SideOf(b1, b2, rel, VEC_LEFT) = Left(b1, b2, rel)
          /\ SideOf(b1, b2, rel, VEC_UP) = Upper(b1, b2, rel)
          /\ SideOf(b1, b2, rel, VEC_DOWN) = Lower(b1, b2, rel)
      BY NormalsDiffer DEF SideOf
    <3> QED BY <3>1, SideTimes, NormalsDiffer DEF Normals
  <2>3. XSides(b1, b2, rel) = IF sx = 0 THEN {} ELSE {side(VEC_RIGHT), side(VEC_LEFT)}
    BY <2>1, <2>2 DEF XSides, Right, Left
  <2>4. YSides(b1, b2, rel) = IF sy = 0 THEN {} ELSE {side(VEC_UP), side(VEC_DOWN)}
    BY <2>1, <2>2 DEF YSides, Upper, Lower
  <2>5. {k \in Normals : used(k)} =
          (IF sx = 0 THEN {} ELSE {VEC_RIGHT, VEC_LEFT})
          \cup (IF sy = 0 THEN {} ELSE {VEC_UP, VEC_DOWN})
    BY NormalsDiffer DEF Normals
  <2> HIDE DEF side
  <2> QED BY <2>3, <2>4, <2>5
<1>2. ASSUME NEW k \in Normals PROVE step(k) \in Int
  BY StepType
<1>3. ASSUME NEW k \in Normals
      PROVE  (\E s \in sides : s.normal = k /\ SameAs(s.toi, toi))
               <=> used(k) /\ step(k) = step(m)
  <2>1. SameAs(side(k).toi, toi) <=> step(k) = step(m)
    <3>1. step(k) * d = step(m) * d <=> step(k) = step(m)
      BY <1>2, Cancel
    <3> QED BY <3>1 DEF SameAs
  <2>2. \A s \in sides : s.normal = k => s = side(k) /\ used(k)
    BY <1>1
  <2>3. used(k) => side(k) \in sides /\ side(k).normal = k
    BY <1>1
  <2> HIDE DEF sides, side, used
  <2> QED BY <2>1, <2>2, <2>3
<1>4. used(m)
  BY NormalsDiffer DEF Meets, Normals
<1>5. ASSUME NEW k \in Normals, used(k), step(k) = step(m) PROVE k = m
  <2>1. /\ step(VEC_RIGHT) = sx * (b2.right - b1.left)
        /\ step(VEC_LEFT) = sx * (b2.left - b1.right)
        /\ step(VEC_UP) = sy * (b2.up - b1.down)
        /\ step(VEC_DOWN) = sy * (b2.down - b1.up)
    BY StepType
  <2>2. CASE m \in {VEC_RIGHT, VEC_LEFT}
    <3>1. sx # 0 /\ YOver(b1, b2, sy, step(m))
      BY <2>2, NormalsDiffer DEF Meets
    <3>2. k # VEC_UP
      <4> SUFFICES ASSUME k = VEC_UP PROVE FALSE
        OBVIOUS
      <4>1. sy # 0 /\ step(m) = sy * (b2.up - b1.down)
        BY <1>5, <2>1, NormalsDiffer
      <4> HIDE DEF step
      <4> QED BY <3>1, <4>1, BoxFacts DEF YOver, Signs
    <3>3. k # VEC_DOWN
      <4> SUFFICES ASSUME k = VEC_DOWN PROVE FALSE
        OBVIOUS
      <4>1. sy # 0 /\ step(m) = sy * (b2.down - b1.up)
        BY <1>5, <2>1, NormalsDiffer
      <4> HIDE DEF step
      <4> QED BY <3>1, <4>1, BoxFacts DEF YOver, Signs
    <3>4. step(VEC_RIGHT) # step(VEC_LEFT)
      <4> HIDE DEF step
      <4> QED BY <2>1, <3>1, BoxFacts DEF Signs
    <3> QED BY <1>5, <2>2, <3>2, <3>3, <3>4 DEF Normals
  <2>3. CASE m \in {VEC_UP, VEC_DOWN}
    <3>1. sy # 0 /\ XOver(b1, b2, sx, step(m))
      BY <2>3, NormalsDiffer DEF Meets
    <3>2. k # VEC_RIGHT
      <4> SUFFICES ASSUME k = VEC_RIGHT PROVE FALSE
        OBVIOUS
      <4>1. sx # 0 /\ step(m) = sx * (b2.right - b1.left)
        BY <1>5, <2>1, NormalsDiffer
      <4> HIDE DEF step
      <4> QED BY <3>1, <4>1, BoxFacts DEF XOver, Signs
    <3>3. k # VEC_LEFT
      <4> SUFFICES ASSUME k = VEC_LEFT PROVE FALSE
        OBVIOUS
      <4>1. sx # 0 /\ step(m) = sx * (b2.left - b1.right)
        BY <1>5, <2>1, NormalsDiffer
      <4> HIDE DEF step
      <4> QED BY <3>1, <4>1, BoxFacts DEF XOver, Signs
    <3>4. step(VEC_UP) # step(VEC_DOWN)
      <4> HIDE DEF step
      <4> QED BY <2>1, <3>1, BoxFacts DEF Signs
    <3> QED BY <1>5, <2>3, <3>2, <3>3, <3>4 DEF Normals
  <2> QED BY <2>2, <2>3 DEF Normals
<1>6. ASSUME NEW k \in Normals
      PROVE  (IF \E s \in sides : s.normal = k /\ SameAs(s.toi, toi) THEN 1 ELSE 0)
               = IF k = m THEN 1 ELSE 0
  <2> HIDE DEF sides, toi, used, step
  <2> QED BY <1>3, <1>4, <1>5
<1>7. NormalAt(sides, toi) =
        Vector((IF VEC_RIGHT = m THEN 1 ELSE 0) - (IF VEC_LEFT = m THEN 1 ELSE 0),
               (IF VEC_UP = m THEN 1 ELSE 0) - (IF VEC_DOWN = m THEN 1 ELSE 0))
  <2>1. VEC_RIGHT \in Normals /\ VEC_LEFT \in Normals /\ VEC_UP \in Normals /\ VEC_DOWN \in Normals
    BY DEF Normals
  <2> HIDE DEF sides, toi, used, step
  <2> QED BY <2>1, <1>6 DEF NormalAt
<1>8. /\ VEC_RIGHT = Vector(1, 0) /\ VEC_LEFT = Vector(-1, 0)
      /\ VEC_UP = Vector(0, 1) /\ VEC_DOWN = Vector(0, -1)
  BY DEF VEC_RIGHT, VEC_LEFT, VEC_UP, VEC_DOWN
<1>9. NormalAt(sides, toi) = m
  <2> HIDE DEF sides, toi, used, step
  <2>1. CASE m = VEC_RIGHT
    BY <2>1, <1>7, <1>8, NormalsDiffer
  <2>2. CASE m = VEC_LEFT
    BY <2>2, <1>7, <1>8, NormalsDiffer
  <2>3. CASE m = VEC_UP
    BY <2>3, <1>7, <1>8, NormalsDiffer
  <2>4. CASE m = VEC_DOWN
    BY <2>4, <1>7, <1>8, NormalsDiffer
  <2> QED BY <2>1, <2>2, <2>3, <2>4 DEF Normals
<1> QED BY <1>9

\* The side that is met first, if any is.
FirstMet(b1, b2, sx, sy, m) ==
  /\ m \in Normals /\ Meets(b1, b2, sx, sy, m)
  /\ \A k \in Normals : Meets(b1, b2, sx, sy, k) =>
       Step(b1, b2, sx, sy, m) <= Step(b1, b2, sx, sy, k)

\* What check_AABB_collision returns: that side's time and normal.
LEMMA SweepCases ==
  ASSUME NEW b1, NEW b2, IsBox(b1), IsBox(b2),
         NEW sx \in Signs, NEW sy \in Signs, NEW d \in Nat \ {0}
  PROVE  LET c == CheckAABBCollision(b1, b2, Vector(sx * d, sy * d)) IN
         \/ c.toi = Never /\ \A k \in Normals :
              Meets(b1, b2, sx, sy, k) => Step(b1, b2, sx, sy, k) > d
         \/ \E m \in Normals :
              /\ FirstMet(b1, b2, sx, sy, m)
              /\ c = [toi |-> [n |-> Step(b1, b2, sx, sy, m), d |-> d], normal |-> m]
<1> DEFINE rel == Vector(sx * d, sy * d)
           C == Contacts(b1, b2, rel)
           f == First(C)
           c == CheckAABBCollision(b1, b2, rel)
           step(k) == Step(b1, b2, sx, sy, k)
           side(k) == [toi |-> [n |-> step(k), d |-> d], normal |-> k]
<1>1. rel \in Vectors
  BY DEF Vectors, Vector, Signs
<1>2. /\ f = Never \/ \E s \in C : f = s.toi
      /\ \A s \in C : ~Before(s.toi, f)
      /\ ~Before(Never, f)
  <2> HIDE DEF rel
  <2> QED BY <1>1, FirstIsLeast
<1>3. /\ \A s \in C : \E m \in Normals : Meets(b1, b2, sx, sy, m) /\ s = side(m)
      /\ \A m \in Normals : Meets(b1, b2, sx, sy, m) => side(m) \in C
  BY ContactsMeet
<1>4. c.toi = f /\ c = [toi |-> f, normal |-> c.normal]
  BY DEF CheckAABBCollision
<1>5. \A k \in Normals : step(k) \in Int
  BY StepType
<1>6. Never = [n |-> 99, d |-> 1]
  BY DEF Never, Ratio
<1>7. CASE f = Never
  <2>1. ASSUME NEW k \in Normals, Meets(b1, b2, sx, sy, k) PROVE step(k) > d
    <3>1. ~Before(side(k).toi, Never)
      BY <1>2, <1>3, <1>7, <2>1
    <3>2. ~(step(k) * 1 < 99 * d)
      BY <3>1, <1>6 DEF Before
    <3> HIDE DEF step
    <3> QED BY <3>2, <1>5
  <2> QED BY <1>4, <1>7, <2>1
<1>8. ASSUME NEW s \in C, f = s.toi
      PROVE  \E m \in Normals : FirstMet(b1, b2, sx, sy, m) /\ c = side(m)
  <2>1. PICK m \in Normals : Meets(b1, b2, sx, sy, m) /\ s = side(m)
    BY <1>3, <1>8
  <2>2. f = [n |-> step(m), d |-> d]
    BY <1>8, <2>1
  <2>3. ASSUME NEW k \in Normals, Meets(b1, b2, sx, sy, k) PROVE step(m) <= step(k)
    <3>1. side(k) \in C
      BY <1>3, <2>3
    <3>2. ~Before(side(k).toi, f)
      BY <1>2, <3>1
    <3>3. ~(step(k) * d < step(m) * d)
      BY <2>2, <3>2 DEF Before
    <3>4. step(k) * d < step(m) * d <=> step(k) < step(m)
      <4> HIDE DEF step
      <4> QED BY <1>5, Cancel
    <3> HIDE DEF step
    <3> QED BY <3>3, <3>4, <1>5
  <2>4. c.normal = m
    <3>1. NormalAt(XSides(b1, b2, rel) \cup YSides(b1, b2, rel),
                   [n |-> step(m), d |-> d]) = m
      BY <2>1, OneNormal
    <3>2. c.normal = NormalAt(XSides(b1, b2, rel) \cup YSides(b1, b2, rel), f)
      BY DEF CheckAABBCollision
    <3> QED BY <3>1, <3>2, <2>2
  <2> QED BY <1>4, <2>1, <2>2, <2>3, <2>4 DEF FirstMet
<1> QED BY <1>2, <1>7, <1>8, <1>4

\* The near side is met before all others, by a box on that side of it.
LEMMA NearSide ==
  ASSUME NEW b1, NEW b2, IsBox(b1), IsBox(b2),
         NEW sx \in Signs, NEW sy \in Signs, NEW d \in Nat \ {0},
         NEW m \in Normals, Meets(b1, b2, sx, sy, m), m.x * sx + m.y * sy < 0,
         Step(b1, b2, sx, sy, m) <= d
  PROVE  CheckAABBCollision(b1, b2, Vector(sx * d, sy * d)) =
           [toi |-> [n |-> Step(b1, b2, sx, sy, m), d |-> d], normal |-> m]
<1> DEFINE step(k) == Step(b1, b2, sx, sy, k)
<1>1. /\ step(VEC_RIGHT) = sx * (b2.right - b1.left)
      /\ step(VEC_LEFT) = sx * (b2.left - b1.right)
      /\ step(VEC_UP) = sy * (b2.up - b1.down)
      /\ step(VEC_DOWN) = sy * (b2.down - b1.up)
  BY StepType
<1>2. ASSUME NEW k \in Normals, Meets(b1, b2, sx, sy, k), k # m PROVE step(m) < step(k)
  <2>1. \/ k \in {VEC_RIGHT, VEC_LEFT} /\ sx # 0 /\ YOver(b1, b2, sy, step(k))
        \/ k \in {VEC_UP, VEC_DOWN} /\ sy # 0 /\ XOver(b1, b2, sx, step(k))
    BY <1>2 DEF Meets
  <2> HIDE DEF step
  <2>2. CASE m = VEC_RIGHT
    <3>1. sx = -1
      BY <2>2, NormalsDiffer DEF Signs
    <3> QED BY <2>1, <2>2, <3>1, <1>1, <1>2, BoxFacts DEF XOver, YOver, Signs, Normals
  <2>3. CASE m = VEC_LEFT
    <3>1. sx = 1
      BY <2>3, NormalsDiffer DEF Signs
    <3> QED BY <2>1, <2>3, <3>1, <1>1, <1>2, BoxFacts DEF XOver, YOver, Signs, Normals
  <2>4. CASE m = VEC_UP
    <3>1. sy = -1
      BY <2>4, NormalsDiffer DEF Signs
    <3> QED BY <2>1, <2>4, <3>1, <1>1, <1>2, BoxFacts DEF XOver, YOver, Signs, Normals
  <2>5. CASE m = VEC_DOWN
    <3>1. sy = 1
      BY <2>5, NormalsDiffer DEF Signs
    <3> QED BY <2>1, <2>5, <3>1, <1>1, <1>2, BoxFacts DEF XOver, YOver, Signs, Normals
  <2> QED BY <2>2, <2>3, <2>4, <2>5 DEF Normals
<1>3. \A k \in Normals : FirstMet(b1, b2, sx, sy, k) => k = m
  <2>1. step(m) \in Int /\ \A k \in Normals : step(k) \in Int
    BY StepType
  <2> HIDE DEF step
  <2>2. ASSUME NEW k \in Normals, FirstMet(b1, b2, sx, sy, k) PROVE k = m
    <3>1. Meets(b1, b2, sx, sy, k) /\ step(k) <= step(m)
      BY <2>2 DEF FirstMet, step
    <3> QED BY <3>1, <1>2, <2>1
  <2> QED BY <2>2
<1>4. step(m) \in Int /\ ~(step(m) > d)
  <2>1. step(m) \in Int
    BY StepType
  <2> HIDE DEF step
  <2>2. step(m) <= d
    BY DEF step
  <2> QED BY <2>1, <2>2
<1> QED BY <1>3, <1>4, SweepCases

\* And a side that is met first, within the movement, is a near one: the boxes do
\* not overlap at the start, and a movement along both axes is less far than the
\* first box is wide and high.
LEMMA FirstIsNear ==
  ASSUME NEW b1, NEW b2, IsBox(b1), IsBox(b2),
         NEW sx \in Signs, NEW sy \in Signs, NEW d \in Nat \ {0},
         NEW m \in Normals, FirstMet(b1, b2, sx, sy, m),
         Step(b1, b2, sx, sy, m) > 0, Step(b1, b2, sx, sy, m) <= d,
         ~(XOver(b1, b2, sx, 0) /\ YOver(b1, b2, sy, 0)),
         sx # 0 /\ sy # 0 => d < b1.right - b1.left /\ d < b1.up - b1.down
  PROVE  m.x * sx + m.y * sy < 0
<1> DEFINE step(k) == Step(b1, b2, sx, sy, k)
<1>1. /\ step(VEC_RIGHT) = sx * (b2.right - b1.left)
      /\ step(VEC_LEFT) = sx * (b2.left - b1.right)
      /\ step(VEC_UP) = sy * (b2.up - b1.down)
      /\ step(VEC_DOWN) = sy * (b2.down - b1.up)
  BY StepType
<1>2. /\ Meets(b1, b2, sx, sy, m) /\ step(m) > 0 /\ step(m) <= d
      /\ \A k \in Normals : Meets(b1, b2, sx, sy, k) => step(m) <= step(k)
  BY DEF FirstMet
<1>3. \A k \in Normals : Meets(b1, b2, sx, sy, k) <=>
        \/ k \in {VEC_RIGHT, VEC_LEFT} /\ sx # 0 /\ YOver(b1, b2, sy, step(k))
        \/ k \in {VEC_UP, VEC_DOWN} /\ sy # 0 /\ XOver(b1, b2, sx, step(k))
  BY DEF Meets
<1>4. VEC_RIGHT \in Normals /\ VEC_LEFT \in Normals /\ VEC_UP \in Normals /\ VEC_DOWN \in Normals
  BY DEF Normals
<1>10. \A k \in Normals : step(k) \in Int
  BY StepType
<1>5. m.x * sx + m.y * sy # 0
  BY <1>2, <1>3, NormalsDiffer DEF Normals, Signs
<1> HIDE DEF step
<1> SUFFICES ASSUME ~(m.x * sx + m.y * sy < 0) PROVE FALSE
  OBVIOUS
<1> USE DEF XOver, YOver, Signs
<1>6. CASE m = VEC_RIGHT
  <2>1. sx = 1 /\ YOver(b1, b2, sy, step(m))
    BY <1>2, <1>3, <1>6, NormalsDiffer
  <2>2. CASE sy = 0
    <3>1. Meets(b1, b2, sx, sy, VEC_LEFT)
      <4>1. sy * step(m) = 0 /\ sy * step(VEC_LEFT) = 0
        BY <1>4, <1>10, <2>2
      <4>2. YOver(b1, b2, sy, step(VEC_LEFT))
        BY <2>1, <4>1
      <4> HIDE DEF YOver
      <4> QED BY <1>3, <1>4, <2>1, <4>2, NormalsDiffer
    <3> QED BY <1>1, <1>2, <1>4, <1>6, <2>1, <3>1, BoxFacts
  <2>3. CASE sy = 1
    <3>1. Meets(b1, b2, sx, sy, VEC_DOWN)
      BY <1>1, <1>2, <1>3, <1>4, <1>6, <2>1, <2>3, NormalsDiffer, BoxFacts
    <3> QED BY <1>1, <1>2, <1>4, <1>6, <2>1, <2>3, <3>1, BoxFacts
  <2>4. CASE sy = -1
    <3>1. Meets(b1, b2, sx, sy, VEC_UP)
      BY <1>1, <1>2, <1>3, <1>4, <1>6, <2>1, <2>4, NormalsDiffer, BoxFacts
    <3> QED BY <1>1, <1>2, <1>4, <1>6, <2>1, <2>4, <3>1, BoxFacts
  <2> QED BY <2>2, <2>3, <2>4
<1>7. CASE m = VEC_LEFT
  <2>1. sx = -1 /\ YOver(b1, b2, sy, step(m))
    BY <1>2, <1>3, <1>7, NormalsDiffer
  <2>2. CASE sy = 0
    <3>1. Meets(b1, b2, sx, sy, VEC_RIGHT)
      <4>1. sy * step(m) = 0 /\ sy * step(VEC_RIGHT) = 0
        BY <1>4, <1>10, <2>2
      <4>2. YOver(b1, b2, sy, step(VEC_RIGHT))
        BY <2>1, <4>1
      <4> HIDE DEF YOver
      <4> QED BY <1>3, <1>4, <2>1, <4>2, NormalsDiffer
    <3> QED BY <1>1, <1>2, <1>4, <1>7, <2>1, <3>1, BoxFacts
  <2>3. CASE sy = 1
    <3>1. Meets(b1, b2, sx, sy, VEC_DOWN)
      BY <1>1, <1>2, <1>3, <1>4, <1>7, <2>1, <2>3, NormalsDiffer, BoxFacts
    <3> QED BY <1>1, <1>2, <1>4, <1>7, <2>1, <2>3, <3>1, BoxFacts
  <2>4. CASE sy = -1
    <3>1. Meets(b1, b2, sx, sy, VEC_UP)
      BY <1>1, <1>2, <1>3, <1>4, <1>7, <2>1, <2>4, NormalsDiffer, BoxFacts
    <3> QED BY <1>1, <1>2, <1>4, <1>7, <2>1, <2>4, <3>1, BoxFacts
  <2> QED BY <2>2, <2>3, <2>4
<1>8. CASE m = VEC_UP
  <2>1. sy = 1 /\ XOver(b1, b2, sx, step(m))
    BY <1>2, <1>3, <1>8, NormalsDiffer
  <2>2. CASE sx = 0
    <3>1. Meets(b1, b2, sx, sy, VEC_DOWN)
      <4>1. sx * step(m) = 0 /\ sx * step(VEC_DOWN) = 0
        BY <1>4, <1>10, <2>2
      <4>2. XOver(b1, b2, sx, step(VEC_DOWN))
        BY <2>1, <4>1
      <4> HIDE DEF XOver
      <4> QED BY <1>3, <1>4, <2>1, <4>2, NormalsDiffer
    <3>2. step(VEC_UP) <= step(VEC_DOWN)
      BY <1>2, <1>4, <1>8, <3>1
    <3>3. step(VEC_UP) = b2.up - b1.down /\ step(VEC_DOWN) = b2.down - b1.up
      BY <1>1, <2>1, BoxFacts
    <3> HIDE DEF XOver
    <3> QED BY <3>2, <3>3, BoxFacts
  <2>3. CASE sx = 1
    <3>1. Meets(b1, b2, sx, sy, VEC_LEFT)
      BY <1>1, <1>2, <1>3, <1>4, <1>8, <2>1, <2>3, NormalsDiffer, BoxFacts
    <3> QED BY <1>1, <1>2, <1>4, <1>8, <2>1, <2>3, <3>1, BoxFacts
  <2>4. CASE sx = -1
    <3>1. Meets(b1, b2, sx, sy, VEC_RIGHT)
      BY <1>1, <1>2, <1>3, <1>4, <1>8, <2>1, <2>4, NormalsDiffer, BoxFacts
    <3> QED BY <1>1, <1>2, <1>4, <1>8, <2>1, <2>4, <3>1, BoxFacts
  <2> QED BY <2>2, <2>3, <2>4
<1>9. CASE m = VEC_DOWN
  <2>1. sy = -1 /\ XOver(b1, b2, sx, step(m))
    BY <1>2, <1>3, <1>9, NormalsDiffer
  <2>2. CASE sx = 0
    <3>1. Meets(b1, b2, sx, sy, VEC_UP)
      <4>1. sx * step(m) = 0 /\ sx * step(VEC_UP) = 0
        BY <1>4, <1>10, <2>2
      <4>2. XOver(b1, b2, sx, step(VEC_UP))
        BY <2>1, <4>1
      <4> HIDE DEF XOver
      <4> QED BY <1>3, <1>4, <2>1, <4>2, NormalsDiffer
    <3> QED BY <1>1, <1>2, <1>4, <1>9, <2>1, <3>1, BoxFacts
  <2>3. CASE sx = 1
    <3>1. Meets(b1, b2, sx, sy, VEC_LEFT)
      BY <1>1, <1>2, <1>3, <1>4, <1>9, <2>1, <2>3, NormalsDiffer, BoxFacts
    <3> QED BY <1>1, <1>2, <1>4, <1>9, <2>1, <2>3, <3>1, BoxFacts
  <2>4. CASE sx = -1
    <3>1. Meets(b1, b2, sx, sy, VEC_RIGHT)
      BY <1>1, <1>2, <1>3, <1>4, <1>9, <2>1, <2>4, NormalsDiffer, BoxFacts
    <3> QED BY <1>1, <1>2, <1>4, <1>9, <2>1, <2>4, <3>1, BoxFacts
  <2> QED BY <2>2, <2>3, <2>4
<1> QED BY <1>6, <1>7, <1>8, <1>9 DEF Normals

-----------------------------------------------------------------------------
(***************************************************************************)
(* The scan, and the callbacks after it, step by step.                     *)
(***************************************************************************)

Unscanned == [vel |-> vel, toi |-> Never, normals |-> << >>]

ScanStep(time, k, f) ==
  IF k = 0 THEN Unscanned
  ELSE IF k - 1 \in Walls THEN CheckWall(f[k - 1], k - 1, time)
  ELSE f[k - 1]

TurnStep(v, normals, i, f) ==
  IF i = 0 THEN v ELSE PlayerOnCollision(f[i - 1], normals[i])

\* The scan is defined by recursion, and this has a solution, for one more cell as
\* for fewer.
LEMMA ScanExists ==
  ASSUME NEW time, NEW N \in Nat
  PROVE  \E f : f = [k \in 0 .. N |-> ScanStep(time, k, f)]
<1> DEFINE S == {x \in 0 .. N : \E f : f = [k \in 0 .. x |-> ScanStep(time, k, f)]}
<1>1. 0 \in S
  <2> DEFINE f == [k \in 0 .. 0 |-> Unscanned]
  <2>1. f = [k \in 0 .. 0 |-> ScanStep(time, k, f)]
    BY DEF ScanStep
  <2> HIDE DEF f
  <2> QED BY <2>1
<1>2. ASSUME NEW x \in 0 .. N - 1, x \in S PROVE x + 1 \in S
  <2>1. PICK f : f = [k \in 0 .. x |-> ScanStep(time, k, f)]
    BY <1>2
  <2> DEFINE g == [k \in 0 .. x + 1 |-> IF k = x + 1 THEN ScanStep(time, k, f) ELSE f[k]]
  <2>2. ASSUME NEW k \in 0 .. x + 1 PROVE g[k] = ScanStep(time, k, g)
    <3>1. CASE k = 0
      <4>1. g[0] = f[0]
        OBVIOUS
      <4>2. f[0] = ScanStep(time, 0, f)
        BY <2>1
      <4> HIDE DEF g
      <4> QED BY <3>1, <4>1, <4>2 DEF ScanStep
    <3>2. CASE k # 0
      <4>1. g[k - 1] = f[k - 1]
        BY <3>2
      <4>2. g[k] = ScanStep(time, k, f)
        <5>1. CASE k = x + 1
          BY <5>1
        <5>2. CASE k # x + 1
          <6>1. k \in 0 .. x
            BY <5>2
          <6>2. f[k] = ScanStep(time, k, f)
            BY <6>1, <2>1
          <6> QED BY <6>2, <5>2
        <5> QED BY <5>1, <5>2
      <4> HIDE DEF g
      <4> QED BY <3>2, <4>1, <4>2 DEF ScanStep
    <3> QED BY <3>1, <3>2
  <2>3. g = [k \in 0 .. x + 1 |-> g[k]]
    OBVIOUS
  <2> HIDE DEF g
  <2>4. g = [k \in 0 .. x + 1 |-> ScanStep(time, k, g)]
    BY <2>2, <2>3
  <2>5. x + 1 \in 0 .. N
    OBVIOUS
  <2> QED BY <2>4, <2>5
<1> HIDE DEF S
<1>3. N \in S
  BY <1>1, <1>2, InductionUpTo
<1> QED BY <1>3 DEF S

\* And so has that of the callbacks.
LEMMA TurnExists ==
  ASSUME NEW v, NEW normals, NEW N \in Nat
  PROVE  \E f : f = [k \in 0 .. N |-> TurnStep(v, normals, k, f)]
<1> DEFINE S == {x \in 0 .. N : \E f : f = [k \in 0 .. x |-> TurnStep(v, normals, k, f)]}
<1>1. 0 \in S
  <2> DEFINE f == [k \in 0 .. 0 |-> v]
  <2>1. f = [k \in 0 .. 0 |-> TurnStep(v, normals, k, f)]
    BY DEF TurnStep
  <2> HIDE DEF f
  <2> QED BY <2>1
<1>2. ASSUME NEW x \in 0 .. N - 1, x \in S PROVE x + 1 \in S
  <2>1. PICK f : f = [k \in 0 .. x |-> TurnStep(v, normals, k, f)]
    BY <1>2
  <2> DEFINE g == [k \in 0 .. x + 1 |-> IF k = x + 1 THEN TurnStep(v, normals, k, f) ELSE f[k]]
  <2>2. ASSUME NEW k \in 0 .. x + 1 PROVE g[k] = TurnStep(v, normals, k, g)
    <3>1. CASE k = 0
      <4>1. g[0] = f[0]
        OBVIOUS
      <4>2. f[0] = TurnStep(v, normals, 0, f)
        BY <2>1
      <4> HIDE DEF g
      <4> QED BY <3>1, <4>1, <4>2 DEF TurnStep
    <3>2. CASE k # 0
      <4>1. g[k - 1] = f[k - 1]
        BY <3>2
      <4>2. g[k] = TurnStep(v, normals, k, f)
        <5>1. CASE k = x + 1
          BY <5>1
        <5>2. CASE k # x + 1
          <6>1. k \in 0 .. x
            BY <5>2
          <6>2. f[k] = TurnStep(v, normals, k, f)
            BY <6>1, <2>1
          <6> QED BY <6>2, <5>2
        <5> QED BY <5>1, <5>2
      <4> HIDE DEF g
      <4> QED BY <3>2, <4>1, <4>2 DEF TurnStep
    <3> QED BY <3>1, <3>2
  <2>3. g = [k \in 0 .. x + 1 |-> g[k]]
    OBVIOUS
  <2> HIDE DEF g
  <2>4. g = [k \in 0 .. x + 1 |-> TurnStep(v, normals, k, g)]
    BY <2>2, <2>3
  <2>5. x + 1 \in 0 .. N
    OBVIOUS
  <2> QED BY <2>4, <2>5
<1> HIDE DEF S
<1>3. N \in S
  BY <1>1, <1>2, InductionUpTo
<1> QED BY <1>3 DEF S

\* What was found among the first k cells, for each k.
Scans(f, time) ==
  /\ f[0] = Unscanned
  /\ \A k \in 0 .. CellCount - 1 :
       f[k + 1] = IF k \in Walls THEN CheckWall(f[k], k, time) ELSE f[k]

\* The numbers of the room.
LEMMA RoomNumbers ==
  /\ Side \in Nat /\ Side > 2 /\ CellCount \in Nat \ {0} /\ CellCount = Side * Side
  /\ TileSize \in Nat \ {0} /\ PlayerSize \in Nat \ {0}
  /\ PlayerSize < TileSize
  /\ Speed \in Nat \ {0} /\ DiagonalSpeed \in Nat \ {0}
  /\ Cap \in Nat \ {0}
<1>1. Side \in Nat /\ Side > 2
  BY PhysicsAssumption
<1>2. Side * Side \in Nat \ {0}
  BY <1>1
<1> QED BY <1>1, <1>2, PhysicsAssumption DEF CellCount

\* A scan leads to what calc_first_toi_collisions returns.
LEMMA ScanOf ==
  ASSUME NEW time
  PROVE  \E f : /\ Scans(f, time)
                /\ FirstCollisions(time) =
                     IF IsValidToi(f[CellCount].toi) THEN f[CellCount]
                     ELSE [f[CellCount] EXCEPT !.toi = Ratio(1, 1)]
<1> DEFINE g == CHOOSE f : f = [k \in 0 .. CellCount |-> ScanStep(time, k, f)]
<1>1. g = [k \in 0 .. CellCount |-> ScanStep(time, k, g)]
  BY ScanExists, RoomNumbers
<1>2. FirstCollisions(time) =
        IF IsValidToi(g[CellCount].toi) THEN g[CellCount]
        ELSE [g[CellCount] EXCEPT !.toi = Ratio(1, 1)]
  BY DEF FirstCollisions, ScanStep, Unscanned
<1> HIDE DEF g
<1>3. \A k \in 0 .. CellCount : g[k] = ScanStep(time, k, g)
  BY <1>1
<1>4. g[0] = Unscanned
  BY <1>3, RoomNumbers DEF ScanStep
<1>5. ASSUME NEW k \in 0 .. CellCount - 1
      PROVE  g[k + 1] = IF k \in Walls THEN CheckWall(g[k], k, time) ELSE g[k]
  <2>1. g[k + 1] = ScanStep(time, k + 1, g)
    BY <1>3, RoomNumbers
  <2>2. k + 1 # 0 /\ k + 1 - 1 = k
    OBVIOUS
  <2> QED BY <2>1, <2>2 DEF ScanStep
<1> QED BY <1>2, <1>4, <1>5 DEF Scans

\* The callbacks are called one by one.
Turns(f, v, normals) ==
  /\ f[0] = v
  /\ \A i \in 1 .. Len(normals) : f[i] = PlayerOnCollision(f[i - 1], normals[i])

\* That calling them leads to Resolved.
LEMMA TurnsOf ==
  ASSUME NEW v, NEW normals, Len(normals) \in Nat
  PROVE  \E f : Turns(f, v, normals) /\ Resolved(v, normals) = f[Len(normals)]
<1> DEFINE N == Len(normals)
           g == CHOOSE f : f = [i \in 0 .. N |-> TurnStep(v, normals, i, f)]
<1>1. g = [i \in 0 .. N |-> TurnStep(v, normals, i, g)]
  BY TurnExists
<1>2. Resolved(v, normals) = g[N]
  BY DEF Resolved, TurnStep
<1> HIDE DEF g
<1>3. \A i \in 0 .. N : g[i] = TurnStep(v, normals, i, g)
  BY <1>1
<1>4. g[0] = v
  BY <1>3 DEF TurnStep
<1>5. \A i \in 1 .. N : g[i] = PlayerOnCollision(g[i - 1], normals[i])
  BY <1>3 DEF TurnStep
<1> QED BY <1>2, <1>4, <1>5 DEF Turns

-----------------------------------------------------------------------------
(***************************************************************************)
(* The room: its tiles, and the player among them.                         *)
(***************************************************************************)

HalfTile == TileSize \div 2
HalfPlayer == PlayerSize \div 2
Far == (Side - 1) * TileSize
Player == Bounds(pos, PlayerSize)

\* The sizes are even, so that the boxes have the sizes asked for.
LEMMA Sizes ==
  /\ HalfTile \in Nat /\ HalfPlayer \in Nat /\ Far \in Nat
  /\ TileSize = 2 * HalfTile /\ PlayerSize = 2 * HalfPlayer
  /\ 0 < HalfPlayer /\ HalfPlayer < HalfTile
<1>1. TileSize % 2 = 0 /\ PlayerSize % 2 = 0
  BY PhysicsAssumption
<1>2. Far \in Nat
  <2>1. Side - 1 \in Nat
    BY RoomNumbers
  <2> QED BY <2>1, RoomNumbers DEF Far
<1> QED BY <1>1, <1>2, RoomNumbers DEF HalfTile, HalfPlayer

\* The cells are numbered row by row.
LEMMA CellAt ==
  ASSUME NEW c \in 0 .. Side - 1, NEW r \in 0 .. Side - 1
  PROVE  \E k \in 0 .. CellCount - 1 : Cell(k) = Vector(c, r)
<1> DEFINE k == Side * r + c
<1>1. Side \in Nat \ {0} /\ CellCount = Side * Side
  BY RoomNumbers
<1>2. k \in Int /\ k >= 0 /\ k < CellCount
  <2>1. Side * r >= 0
    BY <1>1
  <2>2. Side * r <= Side * (Side - 1)
    BY <1>1
  <2>3. Side * (Side - 1) = CellCount - Side
    BY <1>1
  <2>4. Side * r \in Int /\ CellCount \in Int
    BY <1>1
  <2> QED BY <1>1, <2>1, <2>2, <2>3, <2>4
<1>3. k % Side = c
  <2>1. r \in Int
    OBVIOUS
  <2> QED BY <1>1, <2>1, ModUnique
<1>4. k \div Side = r
  <2> DEFINE q == k \div Side
  <2>1. q \in Int /\ k = Side * q + (k % Side)
    BY <1>1, <1>2, DivMod
  <2> HIDE DEF q
  <2>2. Side * q + c = Side * r + c
    BY <2>1, <1>3
  <2>3. q * Side = r * Side
    BY <1>1, <2>1, <2>2
  <2>4. q = r
    BY <1>1, <2>1, <2>3, Cancel
  <2> QED BY <2>4 DEF q
<1> HIDE DEF k
<1>5. k \in 0 .. CellCount - 1
  BY <1>2, RoomNumbers
<1> QED BY <1>3, <1>4, <1>5 DEF Cell

\* Every cell lies in the room.
LEMMA CellType ==
  ASSUME NEW k \in 0 .. CellCount - 1
  PROVE  Cell(k).x \in 0 .. Side - 1 /\ Cell(k).y \in 0 .. Side - 1
<1>1. Side \in Nat \ {0} /\ CellCount = Side * Side
  BY RoomNumbers
<1> DEFINE q == k \div Side
<1>2. q \in Int /\ k % Side \in 0 .. Side - 1 /\ k = Side * q + (k % Side)
  <2>1. k \in Int
    OBVIOUS
  <2> QED BY <1>1, <2>1, DivMod
<1>3. k \in Int /\ k >= 0 /\ k < Side * Side
  BY <1>1
<1>4. Cell(k).x = k % Side /\ Cell(k).y = q
  BY DEF Cell, Vector
<1> HIDE DEF q
<1>5. q >= 0
  <2> SUFFICES ASSUME q < 0 PROVE FALSE
    BY <1>2
  <2>1. Side * q <= -Side
    BY <1>1, <1>2
  <2>2. Side * q \in Int
    BY <1>1, <1>2
  <2> QED BY <1>1, <1>2, <1>3, <2>1, <2>2
<1>6. q < Side
  <2> SUFFICES ASSUME q >= Side PROVE FALSE
    BY <1>1, <1>2
  <2>1. Side * q >= Side * Side
    BY <1>1, <1>2
  <2>2. Side * q \in Int /\ Side * Side \in Int
    BY <1>1, <1>2
  <2> QED BY <1>1, <1>2, <1>3, <2>1, <2>2
<1> QED BY <1>1, <1>2, <1>4, <1>5, <1>6

\* A tile is a box around its place.
LEMMA TileBox ==
  ASSUME NEW k \in 0 .. CellCount - 1
  PROVE  LET w == WallBounds(k) IN
         /\ IsBox(w)
         /\ Cell(k).x * TileSize \in Int /\ Cell(k).y * TileSize \in Int
         /\ w.left = Cell(k).x * TileSize - HalfTile /\ w.right = Cell(k).x * TileSize + HalfTile
         /\ w.down = Cell(k).y * TileSize - HalfTile /\ w.up = Cell(k).y * TileSize + HalfTile
<1>1. Cell(k).x \in Int /\ Cell(k).y \in Int
  BY CellType
<1>2. Cell(k).x * TileSize \in Int /\ Cell(k).y * TileSize \in Int
  BY <1>1, RoomNumbers
<1>3. WallBounds(k) = [up   |-> Cell(k).y * TileSize + HalfTile,
                       down |-> Cell(k).y * TileSize - HalfTile,
                       left |-> Cell(k).x * TileSize - HalfTile,
                       right |-> Cell(k).x * TileSize + HalfTile]
  BY DEF WallBounds, Bounds, Times, Vector, HalfTile
<1> DEFINE x == Cell(k).x * TileSize
           y == Cell(k).y * TileSize
<1>4. x \in Int /\ y \in Int
  BY <1>2
<1>5. WallBounds(k) = [up |-> y + HalfTile, down |-> y - HalfTile,
                       left |-> x - HalfTile, right |-> x + HalfTile]
  BY <1>3
<1> HIDE DEF x, y
<1>6. IsBox(WallBounds(k))
  BY <1>4, <1>5, Sizes DEF IsBox
<1> QED BY <1>2, <1>3, <1>6

\* The player is in the room.
InRoom(p) ==
  /\ p \in Vectors
  /\ HalfTile <= p.x - HalfPlayer /\ p.x + HalfPlayer <= Far - HalfTile
  /\ HalfTile <= p.y - HalfPlayer /\ p.y + HalfPlayer <= Far - HalfTile

\* The player's box is around its position.
LEMMA PlayerBox ==
  ASSUME pos \in Vectors
  PROVE  /\ IsBox(Player) /\ pos.x \in Int /\ pos.y \in Int
         /\ Player.left = pos.x - HalfPlayer /\ Player.right = pos.x + HalfPlayer
         /\ Player.down = pos.y - HalfPlayer /\ Player.up = pos.y + HalfPlayer
<1>1. pos.x \in Int /\ pos.y \in Int
  BY DEF Vectors
<1>2. Player = [up   |-> pos.y + HalfPlayer, down  |-> pos.y - HalfPlayer,
                left |-> pos.x - HalfPlayer, right |-> pos.x + HalfPlayer]
  BY DEF Player, Bounds, HalfPlayer
<1> QED BY <1>1, <1>2, Sizes DEF IsBox

\* So it overlaps no wall.
LEMMA Apart ==
  ASSUME InRoom(pos), NEW k \in Walls, NEW sx \in Signs, NEW sy \in Signs
  PROVE  ~(XOver(Player, WallBounds(k), sx, 0) /\ YOver(Player, WallBounds(k), sy, 0))
<1> DEFINE w == WallBounds(k)
<1>1. k \in 0 .. CellCount - 1 /\ (Cell(k).x \in Edge \/ Cell(k).y \in Edge)
  BY DEF Walls
<1>2. /\ w.left = Cell(k).x * TileSize - HalfTile /\ w.right = Cell(k).x * TileSize + HalfTile
      /\ w.down = Cell(k).y * TileSize - HalfTile /\ w.up = Cell(k).y * TileSize + HalfTile
  BY <1>1, TileBox
<1>3. sx * 0 = 0 /\ sy * 0 = 0
  BY DEF Signs
<1>4. 0 * TileSize = 0
  BY RoomNumbers
<1> HIDE DEF w
<1>5. CASE Cell(k).x = 0
  BY <1>2, <1>3, <1>4, <1>5, PlayerBox, Sizes DEF InRoom, XOver, w
<1>6. CASE Cell(k).x = Side - 1
  BY <1>2, <1>3, <1>6, PlayerBox, Sizes DEF InRoom, XOver, w, Far
<1>7. CASE Cell(k).y = 0
  BY <1>2, <1>3, <1>4, <1>7, PlayerBox, Sizes DEF InRoom, YOver, w
<1>8. CASE Cell(k).y = Side - 1
  BY <1>2, <1>3, <1>8, PlayerBox, Sizes DEF InRoom, YOver, w, Far
<1> QED BY <1>1, <1>5, <1>6, <1>7, <1>8 DEF Edge

\* A row of tiles that the player's box is level with, both now and when shifted
\* by less than its size.
LEMMA LevelTile ==
  ASSUME NEW p \in Int, NEW e \in Int,
         HalfTile <= p - HalfPlayer, p + HalfPlayer <= Far - HalfTile,
         -PlayerSize < e, e < PlayerSize
  PROVE  \E r \in 0 .. Side - 1 :
           /\ r * TileSize \in Int
           /\ p - HalfPlayer < r * TileSize + HalfTile /\ p + HalfPlayer > r * TileSize - HalfTile
           /\ p - HalfPlayer + e < r * TileSize + HalfTile
           /\ p + HalfPlayer + e > r * TileSize - HalfTile
<1> DEFINE low == p - HalfPlayer + (IF e > 0 THEN e ELSE 0)
           a == low + HalfTile
           r == a \div TileSize
           t == TileSize * r
<1>1. /\ low \in Int /\ p - HalfPlayer <= low /\ p - HalfPlayer + e <= low
      /\ low < p + HalfPlayer /\ low < p + HalfPlayer + e
  BY Sizes
<1>2. a \in Int /\ a = low + HalfTile
  BY <1>1, Sizes
<1> HIDE DEF low, a
<1>3. r \in Int /\ a % TileSize \in 0 .. TileSize - 1 /\ a = t + (a % TileSize)
  BY <1>2, RoomNumbers, DivMod
<1> HIDE DEF r
<1>4. t \in Int /\ r * TileSize = t
  BY <1>3, RoomNumbers
<1>5. Far = TileSize * (Side - 1)
  BY RoomNumbers DEF Far
<1>6. r >= 0
  <2> SUFFICES ASSUME r < 0 PROVE FALSE
    BY <1>3
  <2>1. t <= -TileSize
    BY <1>3, RoomNumbers
  <2> HIDE DEF t
  <2> QED BY <1>1, <1>2, <1>3, <1>4, <2>1, Sizes, RoomNumbers
<1>7. r <= Side - 1
  <2> SUFFICES ASSUME r >= Side PROVE FALSE
    BY <1>3, RoomNumbers
  <2>1. t >= TileSize * Side
    BY <1>3, RoomNumbers
  <2>2. TileSize * (Side - 1) = TileSize * Side - TileSize /\ TileSize * Side \in Int
    BY RoomNumbers
  <2> DEFINE u == TileSize * Side
  <2>3. t >= u /\ Far = u - TileSize /\ u \in Int
    BY <1>5, <2>1, <2>2
  <2> HIDE DEF t, u
  <2> QED BY <1>1, <1>2, <1>3, <1>4, <2>3, Sizes, RoomNumbers
<1>8. r \in 0 .. Side - 1
  BY <1>3, <1>6, <1>7, RoomNumbers
<1>9. low < t + HalfTile /\ t - HalfTile <= low
  <2> HIDE DEF t
  <2> QED BY <1>1, <1>2, <1>3, <1>4, Sizes, RoomNumbers
<1> HIDE DEF t
<1>10. /\ p - HalfPlayer < t + HalfTile /\ p + HalfPlayer > t - HalfTile
       /\ p - HalfPlayer + e < t + HalfTile /\ p + HalfPlayer + e > t - HalfTile
  BY <1>1, <1>4, <1>9, Sizes
<1> QED BY <1>4, <1>8, <1>10

\* How far the room reaches from the player in the direction against a normal.
Gap(m) ==
  CASE m = VEC_RIGHT -> Player.left - HalfTile
    [] m = VEC_LEFT  -> Far - HalfTile - Player.right
    [] m = VEC_UP    -> Player.down - HalfTile
    [] m = VEC_DOWN  -> Far - HalfTile - Player.up

\* A wall there, which the player meets whether or not it keeps its speed on the
\* other axis.
Ahead(k, sx, sy, m) ==
  /\ k \in Walls
  /\ \A fx \in {sx, 0}, fy \in {sy, 0} : m.x * fx + m.y * fy < 0 =>
       /\ Meets(Player, WallBounds(k), fx, fy, m)
       /\ Step(Player, WallBounds(k), fx, fy, m) = Gap(m)

\* In each direction there is one, no further than the room reaches.
LEMMA WallAhead ==
  ASSUME InRoom(pos), NEW sx \in Signs, NEW sy \in Signs, NEW m \in Normals,
         m.x * sx + m.y * sy < 0, sx # 0 /\ sy # 0 => Gap(m) < PlayerSize
  PROVE  (\E k : Ahead(k, sx, sy, m)) /\ Gap(m) \in Nat
<1> DEFINE gap == Gap(m)
<1>1. gap \in Nat
  BY PlayerBox, Sizes, NormalsDiffer DEF InRoom, Gap, Normals
<1>2. 0 \in 0 .. Side - 1 /\ Side - 1 \in 0 .. Side - 1 /\ 0 \in Edge /\ Side - 1 \in Edge
  BY RoomNumbers DEF Edge
<1>3. /\ 0 * TileSize = 0 /\ (Side - 1) * TileSize = Far
  BY RoomNumbers DEF Far
<1>4. pos \in Vectors /\ pos.x \in Int /\ pos.y \in Int /\ IsBox(Player)
  BY PlayerBox DEF InRoom
<1>5. CASE m = VEC_RIGHT
  <2>1. sx = -1 /\ \A fx \in {sx, 0}, fy \in {sy, 0} : m.x * fx + m.y * fy < 0 => fx = -1
    BY <1>5, NormalsDiffer DEF Signs
  <2> DEFINE e == sy * gap
  <2>2. e \in Int /\ -PlayerSize < e /\ e < PlayerSize
    <3> HIDE DEF gap
    <3>1. sy # 0 => gap < PlayerSize
      BY <2>1 DEF gap
    <3> QED BY <1>1, <3>1, RoomNumbers DEF Signs
  <2>3. PICK r \in 0 .. Side - 1 :
          /\ r * TileSize \in Int
          /\ pos.y - HalfPlayer < r * TileSize + HalfTile
          /\ pos.y + HalfPlayer > r * TileSize - HalfTile
          /\ pos.y - HalfPlayer + e < r * TileSize + HalfTile
          /\ pos.y + HalfPlayer + e > r * TileSize - HalfTile
    <3> HIDE DEF e
    <3> QED BY <1>4, <2>2, LevelTile DEF InRoom
  <2>4. PICK k \in 0 .. CellCount - 1 : Cell(k) = Vector(0, r)
    BY <1>2, CellAt
  <2>5. Cell(k).x = 0 /\ Cell(k).y = r /\ k \in Walls
    <3>1. Cell(k).x = 0 /\ Cell(k).y = r
      BY <2>4 DEF Vector
    <3> QED BY <1>2, <3>1 DEF Walls
  <2> DEFINE w == WallBounds(k)
             t == r * TileSize
  <2>6. /\ IsBox(w) /\ t \in Int
        /\ w.right = HalfTile
        /\ w.down = t - HalfTile /\ w.up = t + HalfTile
    BY <1>3, <2>5, TileBox, Sizes, RoomNumbers
  <2> HIDE DEF w, t
  <2>7. ASSUME NEW fx \in {sx, 0}, NEW fy \in {sy, 0}, m.x * fx + m.y * fy < 0
        PROVE  /\ Meets(Player, w, fx, fy, m)
               /\ Step(Player, w, fx, fy, m) = gap
    <3>1. fx \in Signs /\ fy \in Signs /\ fx = -1
      BY <2>1, <2>7 DEF Signs
    <3>2. gap = Player.left - HalfTile
      BY <1>5, NormalsDiffer DEF Gap
    <3>3. Step(Player, w, fx, fy, m) = gap
      <4> HIDE DEF gap
      <4>1. Step(Player, w, fx, fy, m) = fx * (w.right - Player.left)
        BY <1>4, <1>5, <2>6, <3>1, StepType
      <4> QED BY <1>4, <2>6, <3>1, <3>2, <4>1, PlayerBox, Sizes
    <3>4. fy * gap = e \/ fy * gap = 0
      <4>1. CASE fy = sy
        BY <4>1
      <4>2. CASE fy = 0
        <5> HIDE DEF gap
        <5> QED BY <4>2, <1>1
      <4> QED BY <4>1, <4>2
    <3> DEFINE g == fy * gap
    <3>5. g = e \/ g = 0
      BY <3>4
    <3> HIDE DEF e, g
    <3>6. YOver(Player, w, fy, gap)
      <4>1. /\ Player.down + g < w.up
            /\ Player.up + g > w.down
        BY <1>4, <2>2, <2>3, <2>6, <3>5, PlayerBox, Sizes DEF t
      <4> QED BY <4>1 DEF YOver, g
    <3> HIDE DEF gap
    <3> QED BY <1>5, <3>1, <3>3, <3>6 DEF Meets
  <2> HIDE DEF gap
  <2> QED BY <1>1, <2>5, <2>7 DEF Ahead, gap, w
<1>6. CASE m = VEC_LEFT
  <2>1. sx = 1 /\ \A fx \in {sx, 0}, fy \in {sy, 0} : m.x * fx + m.y * fy < 0 => fx = 1
    BY <1>6, NormalsDiffer DEF Signs
  <2> DEFINE e == sy * gap
  <2>2. e \in Int /\ -PlayerSize < e /\ e < PlayerSize
    <3> HIDE DEF gap
    <3>1. sy # 0 => gap < PlayerSize
      BY <2>1 DEF gap
    <3> QED BY <1>1, <3>1, RoomNumbers DEF Signs
  <2>3. PICK r \in 0 .. Side - 1 :
          /\ r * TileSize \in Int
          /\ pos.y - HalfPlayer < r * TileSize + HalfTile
          /\ pos.y + HalfPlayer > r * TileSize - HalfTile
          /\ pos.y - HalfPlayer + e < r * TileSize + HalfTile
          /\ pos.y + HalfPlayer + e > r * TileSize - HalfTile
    <3> HIDE DEF e
    <3> QED BY <1>4, <2>2, LevelTile DEF InRoom
  <2>4. PICK k \in 0 .. CellCount - 1 : Cell(k) = Vector(Side - 1, r)
    BY <1>2, CellAt
  <2>5. Cell(k).x = Side - 1 /\ Cell(k).y = r /\ k \in Walls
    <3>1. Cell(k).x = Side - 1 /\ Cell(k).y = r
      BY <2>4 DEF Vector
    <3> QED BY <1>2, <3>1 DEF Walls
  <2> DEFINE w == WallBounds(k)
             t == r * TileSize
  <2>6. /\ IsBox(w) /\ t \in Int
        /\ w.left = Far - HalfTile
        /\ w.down = t - HalfTile /\ w.up = t + HalfTile
    BY <1>3, <2>5, TileBox, Sizes, RoomNumbers
  <2> HIDE DEF w, t
  <2>7. ASSUME NEW fx \in {sx, 0}, NEW fy \in {sy, 0}, m.x * fx + m.y * fy < 0
        PROVE  /\ Meets(Player, w, fx, fy, m)
               /\ Step(Player, w, fx, fy, m) = gap
    <3>1. fx \in Signs /\ fy \in Signs /\ fx = 1
      BY <2>1, <2>7 DEF Signs
    <3>2. gap = Far - HalfTile - Player.right
      BY <1>6, NormalsDiffer DEF Gap
    <3>3. Step(Player, w, fx, fy, m) = gap
      <4> HIDE DEF gap
      <4>1. Step(Player, w, fx, fy, m) = fx * (w.left - Player.right)
        BY <1>4, <1>6, <2>6, <3>1, StepType
      <4> QED BY <1>4, <2>6, <3>1, <3>2, <4>1, PlayerBox, Sizes
    <3>4. fy * gap = e \/ fy * gap = 0
      <4>1. CASE fy = sy
        BY <4>1
      <4>2. CASE fy = 0
        <5> HIDE DEF gap
        <5> QED BY <4>2, <1>1
      <4> QED BY <4>1, <4>2
    <3> DEFINE g == fy * gap
    <3>5. g = e \/ g = 0
      BY <3>4
    <3> HIDE DEF e, g
    <3>6. YOver(Player, w, fy, gap)
      <4>1. /\ Player.down + g < w.up
            /\ Player.up + g > w.down
        BY <1>4, <2>2, <2>3, <2>6, <3>5, PlayerBox, Sizes DEF t
      <4> QED BY <4>1 DEF YOver, g
    <3> HIDE DEF gap
    <3> QED BY <1>6, <3>1, <3>3, <3>6 DEF Meets
  <2> HIDE DEF gap
  <2> QED BY <1>1, <2>5, <2>7 DEF Ahead, gap, w
<1>7. CASE m = VEC_UP
  <2>1. sy = -1 /\ \A fx \in {sx, 0}, fy \in {sy, 0} : m.x * fx + m.y * fy < 0 => fy = -1
    BY <1>7, NormalsDiffer DEF Signs
  <2> DEFINE e == sx * gap
  <2>2. e \in Int /\ -PlayerSize < e /\ e < PlayerSize
    <3> HIDE DEF gap
    <3>1. sx # 0 => gap < PlayerSize
      BY <2>1 DEF gap
    <3> QED BY <1>1, <3>1, RoomNumbers DEF Signs
  <2>3. PICK r \in 0 .. Side - 1 :
          /\ r * TileSize \in Int
          /\ pos.x - HalfPlayer < r * TileSize + HalfTile
          /\ pos.x + HalfPlayer > r * TileSize - HalfTile
          /\ pos.x - HalfPlayer + e < r * TileSize + HalfTile
          /\ pos.x + HalfPlayer + e > r * TileSize - HalfTile
    <3> HIDE DEF e
    <3> QED BY <1>4, <2>2, LevelTile DEF InRoom
  <2>4. PICK k \in 0 .. CellCount - 1 : Cell(k) = Vector(r, 0)
    BY <1>2, CellAt
  <2>5. Cell(k).y = 0 /\ Cell(k).x = r /\ k \in Walls
    <3>1. Cell(k).y = 0 /\ Cell(k).x = r
      BY <2>4 DEF Vector
    <3> QED BY <1>2, <3>1 DEF Walls
  <2> DEFINE w == WallBounds(k)
             t == r * TileSize
  <2>6. /\ IsBox(w) /\ t \in Int
        /\ w.up = HalfTile
        /\ w.left = t - HalfTile /\ w.right = t + HalfTile
    BY <1>3, <2>5, TileBox, Sizes, RoomNumbers
  <2> HIDE DEF w, t
  <2>7. ASSUME NEW fx \in {sx, 0}, NEW fy \in {sy, 0}, m.x * fx + m.y * fy < 0
        PROVE  /\ Meets(Player, w, fx, fy, m)
               /\ Step(Player, w, fx, fy, m) = gap
    <3>1. fx \in Signs /\ fy \in Signs /\ fy = -1
      BY <2>1, <2>7 DEF Signs
    <3>2. gap = Player.down - HalfTile
      BY <1>7, NormalsDiffer DEF Gap
    <3>3. Step(Player, w, fx, fy, m) = gap
      <4> HIDE DEF gap
      <4>1. Step(Player, w, fx, fy, m) = fy * (w.up - Player.down)
        BY <1>4, <1>7, <2>6, <3>1, StepType
      <4> QED BY <1>4, <2>6, <3>1, <3>2, <4>1, PlayerBox, Sizes
    <3>4. fx * gap = e \/ fx * gap = 0
      <4>1. CASE fx = sx
        BY <4>1
      <4>2. CASE fx = 0
        <5> HIDE DEF gap
        <5> QED BY <4>2, <1>1
      <4> QED BY <4>1, <4>2
    <3> DEFINE g == fx * gap
    <3>5. g = e \/ g = 0
      BY <3>4
    <3> HIDE DEF e, g
    <3>6. XOver(Player, w, fx, gap)
      <4>1. /\ Player.left + g < w.right
            /\ Player.right + g > w.left
        BY <1>4, <2>2, <2>3, <2>6, <3>5, PlayerBox, Sizes DEF t
      <4> QED BY <4>1 DEF XOver, g
    <3> HIDE DEF gap
    <3> QED BY <1>7, <3>1, <3>3, <3>6 DEF Meets
  <2> HIDE DEF gap
  <2> QED BY <1>1, <2>5, <2>7 DEF Ahead, gap, w
<1>8. CASE m = VEC_DOWN
  <2>1. sy = 1 /\ \A fx \in {sx, 0}, fy \in {sy, 0} : m.x * fx + m.y * fy < 0 => fy = 1
    BY <1>8, NormalsDiffer DEF Signs
  <2> DEFINE e == sx * gap
  <2>2. e \in Int /\ -PlayerSize < e /\ e < PlayerSize
    <3> HIDE DEF gap
    <3>1. sx # 0 => gap < PlayerSize
      BY <2>1 DEF gap
    <3> QED BY <1>1, <3>1, RoomNumbers DEF Signs
  <2>3. PICK r \in 0 .. Side - 1 :
          /\ r * TileSize \in Int
          /\ pos.x - HalfPlayer < r * TileSize + HalfTile
          /\ pos.x + HalfPlayer > r * TileSize - HalfTile
          /\ pos.x - HalfPlayer + e < r * TileSize + HalfTile
          /\ pos.x + HalfPlayer + e > r * TileSize - HalfTile
    <3> HIDE DEF e
    <3> QED BY <1>4, <2>2, LevelTile DEF InRoom
  <2>4. PICK k \in 0 .. CellCount - 1 : Cell(k) = Vector(r, Side - 1)
    BY <1>2, CellAt
  <2>5. Cell(k).y = Side - 1 /\ Cell(k).x = r /\ k \in Walls
    <3>1. Cell(k).y = Side - 1 /\ Cell(k).x = r
      BY <2>4 DEF Vector
    <3> QED BY <1>2, <3>1 DEF Walls
  <2> DEFINE w == WallBounds(k)
             t == r * TileSize
  <2>6. /\ IsBox(w) /\ t \in Int
        /\ w.down = Far - HalfTile
        /\ w.left = t - HalfTile /\ w.right = t + HalfTile
    BY <1>3, <2>5, TileBox, Sizes, RoomNumbers
  <2> HIDE DEF w, t
  <2>7. ASSUME NEW fx \in {sx, 0}, NEW fy \in {sy, 0}, m.x * fx + m.y * fy < 0
        PROVE  /\ Meets(Player, w, fx, fy, m)
               /\ Step(Player, w, fx, fy, m) = gap
    <3>1. fx \in Signs /\ fy \in Signs /\ fy = 1
      BY <2>1, <2>7 DEF Signs
    <3>2. gap = Far - HalfTile - Player.up
      BY <1>8, NormalsDiffer DEF Gap
    <3>3. Step(Player, w, fx, fy, m) = gap
      <4> HIDE DEF gap
      <4>1. Step(Player, w, fx, fy, m) = fy * (w.down - Player.up)
        BY <1>4, <1>8, <2>6, <3>1, StepType
      <4> QED BY <1>4, <2>6, <3>1, <3>2, <4>1, PlayerBox, Sizes
    <3>4. fx * gap = e \/ fx * gap = 0
      <4>1. CASE fx = sx
        BY <4>1
      <4>2. CASE fx = 0
        <5> HIDE DEF gap
        <5> QED BY <4>2, <1>1
      <4> QED BY <4>1, <4>2
    <3> DEFINE g == fx * gap
    <3>5. g = e \/ g = 0
      BY <3>4
    <3> HIDE DEF e, g
    <3>6. XOver(Player, w, fx, gap)
      <4>1. /\ Player.left + g < w.right
            /\ Player.right + g > w.left
        BY <1>4, <2>2, <2>3, <2>6, <3>5, PlayerBox, Sizes DEF t
      <4> QED BY <4>1 DEF XOver, g
    <3> HIDE DEF gap
    <3> QED BY <1>8, <3>1, <3>3, <3>6 DEF Meets
  <2> HIDE DEF gap
  <2> QED BY <1>1, <2>5, <2>7 DEF Ahead, gap, w
<1> QED BY <1>5, <1>6, <1>7, <1>8 DEF Normals

-----------------------------------------------------------------------------
(***************************************************************************)
(* The scan of all walls.                                                  *)
(***************************************************************************)

\* A speed and a normal face each other.
Faces(fx, fy, m) == m.x * fx + m.y * fy < 0

FacingNormals(sx, sy) == {m \in Normals : Faces(sx, sy, m)}

\* What a callback makes of a speed that is the same on both axes or on one: it
\* ends the speed that faces the normal.
LEMMA Turned ==
  ASSUME NEW fx \in Signs, NEW fy \in Signs, NEW s \in Nat \ {0}, NEW m \in Normals
  PROVE  /\ Faces(fx, fy, m) =>
              \E gx \in {fx, 0}, gy \in {fy, 0} :
                /\ PlayerOnCollision(Vector(fx * s, fy * s), m) = Vector(gx * s, gy * s)
                /\ m.x = 0 <=> gx = fx
                /\ m.y = 0 <=> gy = fy
                /\ ~Faces(gx, gy, m)
         /\ ~Faces(fx, fy, m) =>
              PlayerOnCollision(Vector(fx * s, fy * s), m) = Vector(fx * s, fy * s)
<1> DEFINE v == Vector(fx * s, fy * s)
           x == fx * s
           y == fy * s
<1>1. /\ x \in Int /\ y \in Int
      /\ (x < 0 <=> fx = -1) /\ (x > 0 <=> fx = 1) /\ (y < 0 <=> fy = -1) /\ (y > 0 <=> fy = 1)
      /\ 0 * s = 0
  BY DEF Signs
<1>2. v.x = x /\ v.y = y /\ v = Vector(x, y)
  BY DEF Vector
<1>3. /\ fx \in Int /\ fy \in Int
  BY DEF Signs
<1> HIDE DEF x, y
<1>4. PlayerOnCollision(v, m) =
        IF x * m.x + y * m.y < 0
        THEN Vector((-m.y) * (x * (-m.y) + y * m.x), m.x * (x * (-m.y) + y * m.x))
        ELSE v
  BY <1>2 DEF PlayerOnCollision, Dot, Times, Vector
<1> HIDE DEF v
<1>5. CASE m = VEC_RIGHT
  <2>1. m.x = 1 /\ m.y = 0
    BY <1>5, NormalsDiffer
  <2>2. PlayerOnCollision(v, m) = IF x < 0 THEN Vector(0, y) ELSE v
    BY <1>1, <1>4, <2>1
  <2>3. Faces(fx, fy, m) <=> fx < 0
    BY <1>3, <2>1 DEF Faces
  <2>4. ~Faces(0, fy, m)
    BY <1>3, <2>1 DEF Faces
  <2>5. Faces(fx, fy, m) =>
           /\ PlayerOnCollision(v, m) = Vector(0 * s, fy * s)
           /\ 0 # fx
    BY <1>1, <2>2, <2>3 DEF y, Signs
  <2> QED BY <1>1, <1>3, <2>1, <2>2, <2>3, <2>4, <2>5 DEF v, Signs
<1>6. CASE m = VEC_LEFT
  <2>1. m.x = -1 /\ m.y = 0
    BY <1>6, NormalsDiffer
  <2>2. PlayerOnCollision(v, m) = IF x > 0 THEN Vector(0, y) ELSE v
    BY <1>1, <1>4, <2>1
  <2>3. Faces(fx, fy, m) <=> fx > 0
    BY <1>3, <2>1 DEF Faces
  <2>4. ~Faces(0, fy, m)
    BY <1>3, <2>1 DEF Faces
  <2>5. Faces(fx, fy, m) =>
           /\ PlayerOnCollision(v, m) = Vector(0 * s, fy * s)
           /\ 0 # fx
    BY <1>1, <2>2, <2>3 DEF y, Signs
  <2> QED BY <1>1, <1>3, <2>1, <2>2, <2>3, <2>4, <2>5 DEF v, Signs
<1>7. CASE m = VEC_UP
  <2>1. m.x = 0 /\ m.y = 1
    BY <1>7, NormalsDiffer
  <2>2. PlayerOnCollision(v, m) = IF y < 0 THEN Vector(x, 0) ELSE v
    BY <1>1, <1>4, <2>1
  <2>3. Faces(fx, fy, m) <=> fy < 0
    BY <1>3, <2>1 DEF Faces
  <2>4. ~Faces(fx, 0, m)
    BY <1>3, <2>1 DEF Faces
  <2>5. Faces(fx, fy, m) =>
           /\ PlayerOnCollision(v, m) = Vector(fx * s, 0 * s)
           /\ 0 # fy
    BY <1>1, <2>2, <2>3 DEF x, Signs
  <2> QED BY <1>1, <1>3, <2>1, <2>2, <2>3, <2>4, <2>5 DEF v, Signs
<1>8. CASE m = VEC_DOWN
  <2>1. m.x = 0 /\ m.y = -1
    BY <1>8, NormalsDiffer
  <2>2. PlayerOnCollision(v, m) = IF y > 0 THEN Vector(x, 0) ELSE v
    BY <1>1, <1>4, <2>1
  <2>3. Faces(fx, fy, m) <=> fy > 0
    BY <1>3, <2>1 DEF Faces
  <2>4. ~Faces(fx, 0, m)
    BY <1>3, <2>1 DEF Faces
  <2>5. Faces(fx, fy, m) =>
           /\ PlayerOnCollision(v, m) = Vector(fx * s, 0 * s)
           /\ 0 # fy
    BY <1>1, <2>2, <2>3 DEF x, Signs
  <2> QED BY <1>1, <1>3, <2>1, <2>2, <2>3, <2>4, <2>5 DEF v, Signs
<1> QED BY <1>5, <1>6, <1>7, <1>8 DEF Normals, v

Founds == [vel : Vectors, toi : Ratios, normals : Seq(Normals)]

\* The first toi found is at step n of D: none so far, or one within the movement
\* with the normals the player faced.
FoundAt(found, sx, sy, D, n) ==
  /\ found.toi = [n |-> n, d |-> D] /\ n \in 1 .. D
  /\ found.normals \in Seq(FacingNormals(sx, sy)) /\ found.normals # << >>

\* Started at the speed s in the directions sx, sy, the player still goes in the
\* directions fx, fy.
ScanInv(found, s, sx, sy, D, fx, fy) ==
  /\ found \in Founds
  /\ fx \in {sx, 0} /\ fy \in {sy, 0}
  /\ found.vel = Vector(fx * s, fy * s)
  /\ \/ found.toi = Never /\ found.normals = << >>
     \/ \E n \in 1 .. D : FoundAt(found, sx, sy, D, n)

\* From now on, if the player still goes against m, it gets no further than gap.
Held(found, D, fx, fy, m, gap) ==
  Faces(fx, fy, m) => \E n \in 1 .. D : found.toi = [n |-> n, d |-> D] /\ n <= gap

\* How a scan goes on: no direction gets back its speed, and no toi gets later.
GoesOn(found, next, D, fx, fy, gx, gy) ==
  /\ gx \in {fx, 0} /\ gy \in {fy, 0}
  /\ \A n \in 1 .. D : found.toi = [n |-> n, d |-> D] =>
       \E n2 \in 1 .. n : next.toi = [n |-> n2, d |-> D]

\* The three things that can come of a wall.
Passed(found, next) == next = found
Touched(found, next, m) == next = [found EXCEPT !.vel = PlayerOnCollision(@, m)]
Found(found, next, D, m, n) ==
  \/ next = [found EXCEPT !.normals = Append(@, m)] /\ SameAs([n |-> n, d |-> D], found.toi)
  \/ next = [found EXCEPT !.normals = <<m>>, !.toi = [n |-> n, d |-> D]]
       /\ Before([n |-> n, d |-> D], found.toi)
  \/ next = found /\ ~SameAs([n |-> n, d |-> D], found.toi)
       /\ ~Before([n |-> n, d |-> D], found.toi)

\* The toi that stands for none is not within a movement.
LEMMA NeverIs ==
  /\ Never = [n |-> 99, d |-> 1] /\ Never \in Ratios
  /\ ~Touches(Never) /\ ~IsValidToi(Never)
BY DEF Never, Ratio, Ratios, Touches, IsValidToi

\* One turn of the scan: a wall is passed, touched or found, and the side is one the
\* player faced at the start.
LEMMA WallCases ==
  ASSUME NEW found, NEW k, NEW time \in Nat, NEW D \in Nat \ {0},
         NEW s \in Nat \ {0}, NEW fx \in Signs, NEW fy \in Signs, D = s * time,
         found.vel = Vector(fx * s, fy * s), found.toi \in Ratios,
         IsBox(Player), IsBox(WallBounds(k))
  PROVE  LET next == CheckWall(found, k, time)
             step(m) == Step(Player, WallBounds(k), fx, fy, m)
             c == CheckAABBCollision(Player, WallBounds(k), Vector(fx * D, fy * D))
         IN /\ \/ Passed(found, next)
               \/ \E m \in Normals : FirstMet(Player, WallBounds(k), fx, fy, m) /\
                    \/ step(m) = 0 /\ Touched(found, next, m)
                    \/ step(m) \in 1 .. D /\ Found(found, next, D, m, step(m))
            /\ \A m \in Normals : c = [toi |-> [n |-> step(m), d |-> D], normal |-> m] =>
                 /\ step(m) = 0 => Touched(found, next, m)
                 /\ step(m) \in 1 .. D => Found(found, next, D, m, step(m))
<1> DEFINE next == CheckWall(found, k, time)
           step(m) == Step(Player, WallBounds(k), fx, fy, m)
           c == CheckAABBCollision(Player, WallBounds(k), Vector(fx * D, fy * D))
<1>1. Times(found.vel, time) = Vector(fx * D, fy * D)
  <2>1. (fx * s) * time = fx * D /\ (fy * s) * time = fy * D
    BY DEF Signs
  <2>2. found.vel.x = fx * s /\ found.vel.y = fy * s
    BY DEF Vector
  <2> QED BY <2>1, <2>2 DEF Times
<1>2. next = CASE Touches(c.toi) ->
                    [found EXCEPT !.vel = PlayerOnCollision(@, c.normal)]
               [] IsValidToi(c.toi) /\ SameAs(c.toi, found.toi) ->
                    [found EXCEPT !.normals = Append(@, c.normal)]
               [] IsValidToi(c.toi) /\ Before(c.toi, found.toi) ->
                    [found EXCEPT !.normals = <<c.normal>>, !.toi = c.toi]
               [] OTHER -> found
  BY <1>1 DEF CheckWall, Player
<1>3. \A m \in Normals : step(m) \in Int
  BY StepType
<1>4. \/ c.toi = Never
      \/ \E m \in Normals : /\ FirstMet(Player, WallBounds(k), fx, fy, m)
                            /\ c = [toi |-> [n |-> step(m), d |-> D], normal |-> m]
  BY SweepCases
<1> HIDE DEF next, c
<1>5. c.toi = Never => Passed(found, next)
  BY <1>2, NeverIs DEF Passed
<1>6. ASSUME NEW m \in Normals, c = [toi |-> [n |-> step(m), d |-> D], normal |-> m]
      PROVE  /\ step(m) = 0 => Touched(found, next, m)
             /\ step(m) \in 1 .. D => Found(found, next, D, m, step(m))
             /\ step(m) # 0 /\ step(m) \notin 1 .. D => Passed(found, next)
  <2> DEFINE n == step(m)
             toi == [n |-> n, d |-> D]
  <2>1. n \in Int /\ c.toi = toi /\ c.normal = m
    BY <1>3, <1>6
  <2>2. /\ Touches(toi) <=> n = 0
        /\ IsValidToi(toi) <=> 0 < n /\ n <= D
    BY DEF Touches, IsValidToi
  <2> HIDE DEF n
  <2>3. IsValidToi(toi) <=> n \in 1 .. D
    BY <2>1, <2>2
  <2>4. ~(SameAs(toi, found.toi) /\ Before(toi, found.toi) /\ n \in 1 .. D)
        => /\ n = 0 => Touched(found, next, m)
           /\ n \in 1 .. D => Found(found, next, D, m, n)
           /\ n # 0 /\ n \notin 1 .. D => Passed(found, next)
    <3> HIDE DEF toi
    <3>1. n = 0 => Touched(found, next, m)
      <4> SUFFICES ASSUME n = 0 PROVE Touched(found, next, m)
        OBVIOUS
      <4>1. Touches(toi) /\ ~IsValidToi(toi)
        BY <2>1, <2>2, <2>3
      <4> QED BY <1>2, <2>1, <4>1 DEF Touched
    <3>2. n # 0 /\ n \notin 1 .. D => Passed(found, next)
      BY <1>2, <2>1, <2>2, <2>3 DEF Passed
    <3>3. n \in 1 .. D /\ ~(SameAs(toi, found.toi) /\ Before(toi, found.toi))
            => Found(found, next, D, m, n)
      <4> SUFFICES ASSUME n \in 1 .. D, ~(SameAs(toi, found.toi) /\ Before(toi, found.toi))
                   PROVE  Found(found, next, D, m, n)
        OBVIOUS
      <4>1. ~Touches(toi) /\ IsValidToi(toi)
        BY <2>2, <2>3
      <4>2. CASE SameAs(toi, found.toi)
        <5>1. next = [found EXCEPT !.normals = Append(@, m)]
          BY <1>2, <2>1, <4>1, <4>2
        <5> QED BY <4>2, <5>1 DEF Found, toi
      <4>3. CASE ~SameAs(toi, found.toi) /\ Before(toi, found.toi)
        <5>1. next = [found EXCEPT !.normals = <<m>>, !.toi = toi]
          BY <1>2, <2>1, <4>1, <4>3
        <5> QED BY <4>3, <5>1 DEF Found, toi
      <4>4. CASE ~SameAs(toi, found.toi) /\ ~Before(toi, found.toi)
        <5>1. next = found
          BY <1>2, <2>1, <4>1, <4>4
        <5> QED BY <4>4, <5>1 DEF Found, toi
      <4> QED BY <4>2, <4>3, <4>4
    <3> QED BY <3>1, <3>2, <3>3
  <2>5. ~(SameAs(toi, found.toi) /\ Before(toi, found.toi) /\ n \in 1 .. D)
    <3>1. n * found.toi.d \in Int /\ found.toi.n * D \in Int
      BY <2>1 DEF Ratios
    <3> QED BY <3>1 DEF SameAs, Before
  <2> QED BY <2>4, <2>5 DEF n
<1>7. CASE c.toi = Never
  <2>1. \A m \in Normals : c = [toi |-> [n |-> step(m), d |-> D], normal |-> m] =>
          Passed(found, next)
    BY <1>5, <1>7
  <2> QED BY <1>5, <1>6, <1>7 DEF next, c
<1>8. ASSUME NEW m \in Normals, FirstMet(Player, WallBounds(k), fx, fy, m),
             c = [toi |-> [n |-> step(m), d |-> D], normal |-> m]
      PROVE  \/ Passed(found, next)
             \/ step(m) = 0 /\ Touched(found, next, m)
             \/ step(m) \in 1 .. D /\ Found(found, next, D, m, step(m))
  BY <1>6, <1>8
<1> HIDE DEF step
<1>9. \/ Passed(found, next)
      \/ \E m \in Normals : FirstMet(Player, WallBounds(k), fx, fy, m) /\
           \/ step(m) = 0 /\ Touched(found, next, m)
           \/ step(m) \in 1 .. D /\ Found(found, next, D, m, step(m))
  BY <1>4, <1>5, <1>8
<1> QED BY <1>6, <1>9 DEF next, c, step

\* What faces a normal did so before it was slowed down.
LEMMA FacedBefore ==
  ASSUME NEW sx \in Signs, NEW sy \in Signs, NEW fx \in {sx, 0}, NEW fy \in {sy, 0},
         NEW m \in Normals, Faces(fx, fy, m)
  PROVE  Faces(sx, sy, m)
<1>1. \/ m.x \in {1, -1} /\ m.y = 0
      \/ m.x = 0 /\ m.y \in {1, -1}
  BY NormalsDiffer DEF Normals
<1> QED BY <1>1 DEF Faces, Signs

\* The order of what is found within one scan.
LEMMA FoundOrder ==
  ASSUME NEW D \in Nat \ {0}, NEW n \in 1 .. D, NEW k \in Int
  PROVE  /\ ~SameAs([n |-> n, d |-> D], Never) /\ Before([n |-> n, d |-> D], Never)
         /\ SameAs([n |-> n, d |-> D], [n |-> k, d |-> D]) <=> n = k
         /\ Before([n |-> n, d |-> D], [n |-> k, d |-> D]) <=> n < k
<1>1. /\ n * D = k * D <=> n = k
      /\ n * D < k * D <=> n < k
  BY Cancel
<1>2. n * 1 # 99 * D /\ n * 1 < 99 * D
  OBVIOUS
<1> QED BY <1>1, <1>2, NeverIs DEF SameAs, Before

\* The directions are what the speed says.
LEMMA SameDirections ==
  ASSUME NEW s \in Nat \ {0}, NEW fx \in Signs, NEW fy \in Signs,
         NEW gx \in Signs, NEW gy \in Signs,
         Vector(fx * s, fy * s) = Vector(gx * s, gy * s)
  PROVE  fx = gx /\ fy = gy
<1>1. fx * s = gx * s /\ fy * s = gy * s
  BY DEF Vector
<1>2. fx \in Int /\ fy \in Int /\ gx \in Int /\ gy \in Int
  BY DEF Signs
<1> QED BY <1>1, <1>2, Cancel

\* One wall: a touch ends the speed that faces it, what is found is on a side that
\* was faced, and a wall that lies ahead is not overlooked.
LEMMA WallScanned ==
  ASSUME InRoom(pos), NEW k \in Walls, NEW found, NEW time \in Nat, NEW D \in Nat \ {0},
         NEW s \in Nat \ {0}, D = s * time, NEW sx \in Signs, NEW sy \in Signs,
         sx # 0 /\ sy # 0 => D < PlayerSize,
         NEW fx, NEW fy, ScanInv(found, s, sx, sy, D, fx, fy)
  PROVE  LET next == CheckWall(found, k, time) IN
         \E gx, gy :
           /\ ScanInv(next, s, sx, sy, D, gx, gy)
           /\ GoesOn(found, next, D, fx, fy, gx, gy)
           /\ \A m \in Normals : Ahead(k, sx, sy, m) /\ Gap(m) \in Nat /\ Gap(m) <= D =>
                Held(next, D, gx, gy, m, Gap(m))
<1> DEFINE next == CheckWall(found, k, time)
           w == WallBounds(k)
           step(m) == Step(Player, w, fx, fy, m)
           c == CheckAABBCollision(Player, w, Vector(fx * D, fy * D))
<1>1. IsBox(Player) /\ IsBox(w)
  BY PlayerBox, TileBox DEF InRoom, Walls
<1>2. /\ found \in Founds /\ fx \in {sx, 0} /\ fy \in {sy, 0}
      /\ found.vel = Vector(fx * s, fy * s) /\ found.toi \in Ratios
      /\ \/ found.toi = Never /\ found.normals = << >>
         \/ \E n \in 1 .. D : FoundAt(found, sx, sy, D, n)
  BY DEF ScanInv, Founds
<1>3. fx \in Signs /\ fy \in Signs
  BY <1>2 DEF Signs
<1>4. /\ \/ Passed(found, next)
         \/ \E m \in Normals : FirstMet(Player, w, fx, fy, m) /\
              \/ step(m) = 0 /\ Touched(found, next, m)
              \/ step(m) \in 1 .. D /\ Found(found, next, D, m, step(m))
      /\ \A m \in Normals : c = [toi |-> [n |-> step(m), d |-> D], normal |-> m] =>
           /\ step(m) = 0 => Touched(found, next, m)
           /\ step(m) \in 1 .. D => Found(found, next, D, m, step(m))
  BY <1>1, <1>2, <1>3, WallCases
<1> DEFINE Kept(gx, gy) == ScanInv(next, s, sx, sy, D, gx, gy)
                           /\ GoesOn(found, next, D, fx, fy, gx, gy)
<1>5. found = [vel |-> found.vel, toi |-> found.toi, normals |-> found.normals]
  BY <1>2 DEF Founds
<1> HIDE DEF next
<1>6. ASSUME Passed(found, next) PROVE \E gx, gy : Kept(gx, gy)
  <2>1. next = found
    BY <1>6 DEF Passed
  <2>2. ScanInv(next, s, sx, sy, D, fx, fy)
    BY <2>1
  <2>3. GoesOn(found, next, D, fx, fy, fx, fy)
    BY <2>1 DEF GoesOn
  <2> QED BY <2>2, <2>3
<1>7. ASSUME NEW m \in Normals, Touched(found, next, m) PROVE \E gx, gy : Kept(gx, gy)
  <2> DEFINE turned == PlayerOnCollision(found.vel, m)
  <2>1. next = [vel |-> turned, toi |-> found.toi, normals |-> found.normals]
    BY <1>5, <1>7 DEF Touched
  <2>2. PICK gx \in {fx, 0}, gy \in {fy, 0} : turned = Vector(gx * s, gy * s)
    BY <1>2, <1>3, Turned
  <2> HIDE DEF turned
  <2>3. turned \in Vectors
    <3>1. gx * s \in Int /\ gy * s \in Int
      BY <1>3 DEF Signs
    <3> QED BY <2>2, <3>1 DEF Vector, Vectors
  <2>4. next \in Founds
    BY <1>2, <2>1, <2>3 DEF Founds
  <2>5. \A n \in 1 .. D : FoundAt(found, sx, sy, D, n) => FoundAt(next, sx, sy, D, n)
    BY <2>1 DEF FoundAt
  <2>6. ScanInv(next, s, sx, sy, D, gx, gy)
    BY <1>2, <2>1, <2>2, <2>4, <2>5 DEF ScanInv
  <2>7. GoesOn(found, next, D, fx, fy, gx, gy)
    BY <2>1, <2>2 DEF GoesOn
  <2> QED BY <2>6, <2>7
<1>8. ASSUME NEW m \in Normals, FirstMet(Player, w, fx, fy, m), step(m) \in 1 .. D,
             Found(found, next, D, m, step(m))
      PROVE  \E gx, gy : Kept(gx, gy)
  <2> DEFINE n == step(m)
  <2>1. m \in FacingNormals(sx, sy)
    <3>1. ~(XOver(Player, w, fx, 0) /\ YOver(Player, w, fy, 0))
      BY <1>3, Apart
    <3>2. fx # 0 /\ fy # 0 => D < Player.right - Player.left /\ D < Player.up - Player.down
      BY <1>2, PlayerBox, Sizes DEF InRoom
    <3>3. step(m) > 0 /\ step(m) <= D
      BY <1>8
    <3>4. m.x * fx + m.y * fy < 0
      BY <1>1, <1>3, <1>8, <3>1, <3>2, <3>3, FirstIsNear
    <3>5. Faces(fx, fy, m)
      BY <3>4 DEF Faces
    <3>6. Faces(sx, sy, m)
      BY <1>2, <3>5, FacedBefore
    <3> QED BY <3>6 DEF FacingNormals
  <2>2. n \in 1 .. D /\ Found(found, next, D, m, n)
    BY <1>8
  <2>3. found.normals \in Seq(Normals)
    BY <1>2 DEF Founds
  <2> HIDE DEF n
  <2>4. CASE next = [found EXCEPT !.normals = Append(@, m)]
             /\ SameAs([n |-> n, d |-> D], found.toi)
    <3>1. next = [vel |-> found.vel, toi |-> found.toi, normals |-> Append(found.normals, m)]
      BY <1>5, <2>4
    <3>2. PICK k2 \in 1 .. D : FoundAt(found, sx, sy, D, k2)
      BY <1>2, <2>2, <2>4, FoundOrder
    <3>3. FoundAt(next, sx, sy, D, k2)
      BY <2>1, <3>1, <3>2 DEF FoundAt
    <3>4. next \in Founds
      BY <1>2, <2>3, <3>1 DEF Founds
    <3>5. ScanInv(next, s, sx, sy, D, fx, fy)
      BY <1>2, <3>1, <3>3, <3>4 DEF ScanInv
    <3>6. GoesOn(found, next, D, fx, fy, fx, fy)
      BY <3>1 DEF GoesOn
    <3> QED BY <3>5, <3>6
  <2>5. CASE next = [found EXCEPT !.normals = <<m>>, !.toi = [n |-> n, d |-> D]]
             /\ Before([n |-> n, d |-> D], found.toi)
    <3>1. next = [vel |-> found.vel, toi |-> [n |-> n, d |-> D], normals |-> <<m>>]
      BY <1>5, <2>5
    <3>2. <<m>> \in Seq(FacingNormals(sx, sy)) /\ <<m>> # << >>
      BY <2>1
    <3>3. FoundAt(next, sx, sy, D, n)
      BY <2>2, <3>1, <3>2 DEF FoundAt
    <3>4. next \in Founds
      <4>1. [n |-> n, d |-> D] \in Ratios
        BY <2>2 DEF Ratios
      <4>2. <<m>> \in Seq(Normals)
        OBVIOUS
      <4> QED BY <1>2, <3>1, <4>1, <4>2 DEF Founds
    <3>5. ScanInv(next, s, sx, sy, D, fx, fy)
      BY <1>2, <2>2, <3>1, <3>3, <3>4 DEF ScanInv
    <3>6. GoesOn(found, next, D, fx, fy, fx, fy)
      <4>1. ASSUME NEW n1 \in 1 .. D, found.toi = [n |-> n1, d |-> D]
            PROVE  n \in 1 .. n1 /\ next.toi = [n |-> n, d |-> D]
        <5>1. n < n1
          BY <2>2, <2>5, <4>1, FoundOrder
        <5> QED BY <2>2, <3>1, <5>1
      <4> QED BY <4>1 DEF GoesOn
    <3> QED BY <3>5, <3>6
  <2>6. CASE next = found
    BY <1>6, <2>6 DEF Passed
  <2> QED BY <2>2, <2>4, <2>5, <2>6 DEF Found
<1>9. PICK gx, gy : Kept(gx, gy)
  BY <1>4, <1>6, <1>7, <1>8
<1>10. ASSUME NEW m \in Normals, Ahead(k, sx, sy, m), Gap(m) \in Nat, Gap(m) <= D,
              Faces(gx, gy, m)
       PROVE  \E n \in 1 .. D : next.toi = [n |-> n, d |-> D] /\ n <= Gap(m)
  <2>1. /\ gx \in {fx, 0} /\ gy \in {fy, 0} /\ gx \in Signs /\ gy \in Signs
        /\ next.vel = Vector(gx * s, gy * s)
    BY <1>3, <1>9 DEF ScanInv, GoesOn, Signs
  <2>2. Faces(fx, fy, m)
    BY <1>3, <1>10, <2>1, FacedBefore
  <2>3. m.x * fx + m.y * fy < 0
    BY <2>2 DEF Faces
  <2>4. Meets(Player, w, fx, fy, m) /\ step(m) = Gap(m)
    BY <1>2, <1>10, <2>3 DEF Ahead
  <2>5. c = [toi |-> [n |-> step(m), d |-> D], normal |-> m]
    <3>1. Step(Player, w, fx, fy, m) <= D
      BY <1>10, <2>4
    <3> QED BY <1>1, <1>3, <2>3, <2>4, <3>1, NearSide
  <2> DEFINE n == step(m)
  <2>6. /\ n = 0 => Touched(found, next, m)
        /\ n \in 1 .. D => Found(found, next, D, m, n)
    BY <1>4, <2>5
  <2>7. n \in 0 .. D /\ n = Gap(m)
    BY <1>10, <2>4
  <2> HIDE DEF n, step, c
  <2>8. n # 0
    <3> SUFFICES ASSUME n = 0 PROVE FALSE
      OBVIOUS
    <3>1. next.vel = PlayerOnCollision(found.vel, m)
      BY <1>5, <2>6 DEF Touched
    <3>2. PICK hx \in {fx, 0}, hy \in {fy, 0} :
            /\ PlayerOnCollision(found.vel, m) = Vector(hx * s, hy * s)
            /\ ~Faces(hx, hy, m)
      BY <1>2, <1>3, <2>2, Turned
    <3>3. hx \in Signs /\ hy \in Signs
      BY <1>3 DEF Signs
    <3>4. Vector(hx * s, hy * s) = Vector(gx * s, gy * s)
      BY <2>1, <3>1, <3>2
    <3>5. hx = gx /\ hy = gy
      BY <2>1, <3>3, <3>4, SameDirections
    <3> QED BY <1>10, <3>2, <3>5
  <2>9. n \in 1 .. D /\ Found(found, next, D, m, n)
    BY <2>6, <2>7, <2>8
  <2>10. CASE next = [found EXCEPT !.normals = Append(@, m)]
              /\ SameAs([n |-> n, d |-> D], found.toi)
    <3>1. next.toi = found.toi
      BY <1>5, <2>10
    <3>4. ~SameAs([n |-> n, d |-> D], Never)
      BY <2>9, FoundOrder
    <3>2. PICK k2 \in 1 .. D : found.toi = [n |-> k2, d |-> D]
      BY <1>2, <2>10, <3>4 DEF FoundAt
    <3>3. k2 = n
      BY <2>9, <2>10, <3>2, FoundOrder
    <3> QED BY <2>7, <3>1, <3>2, <3>3
  <2>11. CASE next = [found EXCEPT !.normals = <<m>>, !.toi = [n |-> n, d |-> D]]
    <3>1. next.toi = [n |-> n, d |-> D]
      BY <1>5, <2>11
    <3> QED BY <2>7, <2>9, <3>1
  <2>12. CASE next = found /\ ~SameAs([n |-> n, d |-> D], found.toi)
              /\ ~Before([n |-> n, d |-> D], found.toi)
    <3>3. Before([n |-> n, d |-> D], Never)
      BY <2>9, FoundOrder
    <3>1. PICK k2 \in 1 .. D : found.toi = [n |-> k2, d |-> D]
      BY <1>2, <2>12, <3>3 DEF FoundAt
    <3>2. ~(n < k2)
      BY <2>9, <2>12, <3>1, FoundOrder
    <3> QED BY <2>7, <2>12, <3>1, <3>2
  <2> QED BY <2>9, <2>10, <2>11, <2>12 DEF Found
<1> QED BY <1>9, <1>10 DEF Held, next

\* Without time nothing is met.
LEMMA NoTime ==
  ASSUME InRoom(pos), NEW k \in Walls, NEW found, found.vel \in Vectors
  PROVE  CheckWall(found, k, 0) = found
<1> DEFINE w == WallBounds(k)
           c == CheckAABBCollision(Player, w, Vector(0 * 1, 0 * 1))
<1>1. IsBox(Player) /\ IsBox(w)
  BY PlayerBox, TileBox DEF InRoom, Walls
<1>2. \A m : ~Meets(Player, w, 0, 0, m)
  BY DEF Meets
<1>3. 0 \in Signs /\ 1 \in Nat \ {0}
  BY DEF Signs
<1>4. c.toi = Never
  <2> HIDE DEF w
  <2>1. \A m : ~FirstMet(Player, w, 0, 0, m)
    BY <1>2 DEF FirstMet
  <2> QED BY <1>1, <1>3, <2>1, SweepCases
<1>5. Times(found.vel, 0) = Vector(0 * 1, 0 * 1)
  BY DEF Times, Vector, Vectors
<1> HIDE DEF c
<1>6. CheckWall(found, k, 0) =
        CASE Touches(c.toi) ->
               [found EXCEPT !.vel = PlayerOnCollision(@, c.normal)]
          [] IsValidToi(c.toi) /\ SameAs(c.toi, found.toi) ->
               [found EXCEPT !.normals = Append(@, c.normal)]
          [] IsValidToi(c.toi) /\ Before(c.toi, found.toi) ->
               [found EXCEPT !.normals = <<c.normal>>, !.toi = c.toi]
          [] OTHER -> found
  BY <1>5 DEF CheckWall, Player, c
<1> QED BY <1>4, <1>6, NeverIs

\* What holds the player keeps holding it in the rest of the scan.
LEMMA HeldOn ==
  ASSUME NEW D \in Nat \ {0}, NEW found, NEW next,
         NEW fx \in Signs, NEW fy \in Signs, NEW gx, NEW gy, NEW m \in Normals, NEW gap \in Nat,
         GoesOn(found, next, D, fx, fy, gx, gy), Held(found, D, fx, fy, m, gap)
  PROVE  Held(next, D, gx, gy, m, gap)
<1> SUFFICES ASSUME Faces(gx, gy, m)
             PROVE  \E n \in 1 .. D : next.toi = [n |-> n, d |-> D] /\ n <= gap
  BY DEF Held
<1>1. Faces(fx, fy, m)
  BY FacedBefore DEF GoesOn
<1>2. PICK n \in 1 .. D : found.toi = [n |-> n, d |-> D] /\ n <= gap
  BY <1>1 DEF Held
<1>3. PICK n2 \in 1 .. n : next.toi = [n |-> n2, d |-> D]
  BY <1>2 DEF GoesOn
<1> QED BY <1>2, <1>3

\* The room is around the player on all sides.
LEMMA GapType ==
  ASSUME InRoom(pos), NEW m \in Normals
  PROVE  Gap(m) \in Nat
BY PlayerBox, Sizes, NormalsDiffer DEF InRoom, Gap, Normals

\* What calc_first_toi_collisions returns: the player gets n of the D it would go,
\* and no further than the room reaches.
Scanned(found, s, sx, sy, D, fx, fy, n) ==
  /\ fx \in {sx, 0} /\ fy \in {sy, 0} /\ n \in 0 .. D
  /\ found.vel = Vector(fx * s, fy * s)
  /\ \/ found.toi = [n |-> 1, d |-> 1] /\ n = D /\ found.normals = << >>
     \/ FoundAt(found, sx, sy, D, n)
  /\ \A m \in Normals : Faces(fx, fy, m) => n <= Gap(m)

\* calc_first_toi_collisions stops the player where the room ends, or earlier, in every
\* direction that it is left with.
LEMMA ScanResult ==
  ASSUME InRoom(pos), NEW time \in Nat, NEW s \in Nat \ {0},
         NEW sx \in Signs, NEW sy \in Signs, vel = Vector(sx * s, sy * s),
         sx # 0 /\ sy # 0 => s * time < PlayerSize
  PROVE  \E fx, fy, n : Scanned(FirstCollisions(time), s, sx, sy, s * time, fx, fy, n)
<1> DEFINE D == s * time
<1>1. D \in Nat /\ (D = 0 <=> time = 0)
  <2>1. time # 0 => s * time > 0
    OBVIOUS
  <2> QED BY <2>1
<1>2. PICK f : /\ Scans(f, time)
               /\ FirstCollisions(time) =
                    IF IsValidToi(f[CellCount].toi) THEN f[CellCount]
                    ELSE [f[CellCount] EXCEPT !.toi = Ratio(1, 1)]
  BY ScanOf
<1>3. /\ f[0] = Unscanned /\ CellCount \in Nat
      /\ \A k \in 0 .. CellCount - 1 :
           f[k + 1] = IF k \in Walls THEN CheckWall(f[k], k, time) ELSE f[k]
  BY <1>2, RoomNumbers DEF Scans
<1>4. vel \in Vectors
  BY DEF Vectors, Vector, Signs
<1>5. Ratio(1, 1) = [n |-> 1, d |-> 1]
  BY DEF Ratio
<1>6. \A m \in Normals : Gap(m) \in Nat
  BY GapType
<1> HIDE DEF D
<1>7. CASE D = 0
  <2>1. time = 0
    BY <1>1, <1>7
  <2> DEFINE S == {k \in 0 .. CellCount : f[k] = Unscanned}
  <2>2. 0 \in S
    BY <1>3
  <2>3. ASSUME NEW k \in Nat, k < CellCount, k \in S PROVE k + 1 \in S
    <3>1. f[k] = Unscanned /\ Unscanned.vel \in Vectors
      BY <1>4, <2>3 DEF Unscanned
    <3>2. k \in Walls => CheckWall(f[k], k, 0) = f[k]
      BY <3>1, NoTime
    <3>3. f[k + 1] = f[k]
      BY <1>3, <2>1, <2>3, <3>2
    <3> QED BY <1>3, <2>3, <3>1, <3>3
  <2> HIDE DEF S
  <2>4. CellCount \in S
    BY <1>3, <2>2, <2>3, InductionUpTo
  <2>5. FirstCollisions(time) = [vel |-> vel, toi |-> [n |-> 1, d |-> 1], normals |-> << >>]
    BY <1>2, <1>5, <2>4, NeverIs DEF S, Unscanned
  <2>6. Scanned(FirstCollisions(time), s, sx, sy, D, sx, sy, 0)
    BY <1>6, <1>7, <2>5 DEF Scanned
  <2> QED BY <2>6 DEF D
<1>8. CASE D # 0
  <2> DEFINE Upto(k, fx, fy) ==
               /\ ScanInv(f[k], s, sx, sy, D, fx, fy)
               /\ \A k0 \in Walls, m \in Normals :
                    k0 < k /\ Ahead(k0, sx, sy, m) /\ Gap(m) <= D =>
                      Held(f[k], D, fx, fy, m, Gap(m))
             S == {k \in 0 .. CellCount : \E fx, fy : Upto(k, fx, fy)}
  <2>1. D \in Nat \ {0} /\ Walls \subseteq Nat /\ (sx # 0 /\ sy # 0 => D < PlayerSize)
    BY <1>1, <1>8 DEF Walls, D
  <2>2. 0 \in S
    <3>1. Unscanned \in Founds
      BY <1>4, NeverIs DEF Unscanned, Founds
    <3>2. ScanInv(f[0], s, sx, sy, D, sx, sy)
      BY <1>3, <3>1 DEF ScanInv, Unscanned
    <3>3. Upto(0, sx, sy)
      BY <2>1, <3>2
    <3> HIDE DEF Upto
    <3> QED BY <1>3, <3>3
  <2>3. ASSUME NEW k \in Nat, k < CellCount, k \in S PROVE k + 1 \in S
    <3>1. PICK fx, fy : Upto(k, fx, fy)
      BY <2>3
    <3>2. fx \in Signs /\ fy \in Signs
      BY <3>1 DEF ScanInv, Signs
    <3>3. CASE k \notin Walls
      <4>1. f[k + 1] = f[k]
        BY <1>3, <2>3, <3>3
      <4>2. \A k0 \in Walls : k0 < k + 1 => k0 < k
        BY <2>1, <2>3, <3>3
      <4>3. Upto(k + 1, fx, fy)
        BY <3>1, <4>1, <4>2
      <4> HIDE DEF Upto
      <4> QED BY <1>3, <2>3, <4>3
    <3>4. CASE k \in Walls
      <4>1. f[k + 1] = CheckWall(f[k], k, time)
        BY <1>3, <2>3, <3>4
      <4>2. PICK gx, gy :
              /\ ScanInv(f[k + 1], s, sx, sy, D, gx, gy)
              /\ GoesOn(f[k], f[k + 1], D, fx, fy, gx, gy)
              /\ \A m \in Normals : Ahead(k, sx, sy, m) /\ Gap(m) \in Nat /\ Gap(m) <= D =>
                   Held(f[k + 1], D, gx, gy, m, Gap(m))
        <5>1. ScanInv(f[k], s, sx, sy, D, fx, fy) /\ D = s * time
          BY <3>1 DEF D
        <5> QED BY <2>1, <3>4, <4>1, <5>1, WallScanned
      <4>3. ASSUME NEW k0 \in Walls, NEW m \in Normals,
                   k0 < k + 1, Ahead(k0, sx, sy, m), Gap(m) <= D
            PROVE  Held(f[k + 1], D, gx, gy, m, Gap(m))
        <5>1. CASE k0 = k
          BY <1>6, <4>2, <4>3, <5>1
        <5>2. CASE k0 # k
          <6>1. k0 < k
            BY <2>1, <4>3, <5>2
          <6>2. Held(f[k], D, fx, fy, m, Gap(m))
            BY <3>1, <4>3, <6>1
          <6> QED BY <1>6, <2>1, <3>2, <4>2, <6>2, HeldOn
        <5> QED BY <5>1, <5>2
      <4>4. Upto(k + 1, gx, gy)
        BY <4>2, <4>3
      <4> HIDE DEF Upto
      <4> QED BY <1>3, <2>3, <4>4
    <3> QED BY <3>3, <3>4
  <2> HIDE DEF S
  <2>4. CellCount \in S
    BY <1>3, <2>2, <2>3, InductionUpTo
  <2>5. PICK fx, fy : Upto(CellCount, fx, fy)
    BY <2>4 DEF S
  <2> DEFINE found == f[CellCount]
  <2>6. /\ found \in Founds /\ fx \in {sx, 0} /\ fy \in {sy, 0}
        /\ found.vel = Vector(fx * s, fy * s)
        /\ \/ found.toi = Never /\ found.normals = << >>
           \/ \E n \in 1 .. D : FoundAt(found, sx, sy, D, n)
    BY <2>5 DEF ScanInv
  <2>7. ASSUME NEW m \in Normals, Faces(fx, fy, m), Gap(m) <= D
        PROVE  \E n \in 1 .. D : found.toi = [n |-> n, d |-> D] /\ n <= Gap(m)
    <3>1. Faces(sx, sy, m) /\ m.x * sx + m.y * sy < 0
      <4>1. Faces(sx, sy, m)
        BY <2>6, <2>7, FacedBefore
      <4> QED BY <4>1 DEF Faces
    <3>2. sx # 0 /\ sy # 0 => Gap(m) < PlayerSize
      BY <1>6, <2>1, <2>7, RoomNumbers
    <3>3. PICK k0 : Ahead(k0, sx, sy, m)
      BY <3>1, <3>2, WallAhead
    <3>4. k0 \in Walls /\ k0 < CellCount
      BY <1>3, <3>3 DEF Ahead, Walls
    <3>5. Held(found, D, fx, fy, m, Gap(m))
      BY <2>5, <2>7, <3>3, <3>4
    <3> QED BY <2>7, <3>5 DEF Held
  <2> HIDE DEF found, Upto
  <2>8. CASE found.toi = Never /\ found.normals = << >>
    <3>1. FirstCollisions(time) =
            [vel |-> found.vel, toi |-> [n |-> 1, d |-> 1], normals |-> << >>]
      <4>1. FirstCollisions(time) = [found EXCEPT !.toi = [n |-> 1, d |-> 1]]
        BY <1>2, <1>5, <2>8, NeverIs DEF found
      <4> QED BY <2>6, <2>8, <4>1 DEF Founds
    <3>2. ASSUME NEW m \in Normals, Faces(fx, fy, m) PROVE D <= Gap(m)
      <4> SUFFICES ASSUME Gap(m) <= D PROVE FALSE
        BY <1>6, <2>1
      <4>1. PICK n \in 1 .. D : found.toi = [n |-> n, d |-> D]
        BY <2>7, <3>2
      <4>2. found.toi.n = n /\ found.toi.d = D /\ Never.n = 99 /\ Never.d = 1
        BY <4>1, NeverIs
      <4> QED BY <2>1, <2>8, <4>2
    <3>3. Scanned(FirstCollisions(time), s, sx, sy, D, fx, fy, D)
      BY <2>1, <2>6, <3>1, <3>2 DEF Scanned
    <3> QED BY <3>3 DEF D
  <2>9. ASSUME NEW n \in 1 .. D, FoundAt(found, sx, sy, D, n)
        PROVE  \E fx1, fy1, n1 : Scanned(FirstCollisions(time), s, sx, sy, D, fx1, fy1, n1)
    <3>1. found.toi = [n |-> n, d |-> D]
      BY <2>9 DEF FoundAt
    <3>2. IsValidToi(found.toi)
      BY <2>1, <3>1 DEF IsValidToi
    <3>3. FirstCollisions(time) = found
      BY <1>2, <3>2 DEF found
    <3>4. ASSUME NEW m \in Normals, Faces(fx, fy, m) PROVE n <= Gap(m)
      <4>1. CASE Gap(m) <= D
        <5>1. PICK n1 \in 1 .. D : found.toi = [n |-> n1, d |-> D] /\ n1 <= Gap(m)
          BY <2>7, <3>4, <4>1
        <5>2. n1 = n
          BY <3>1, <5>1
        <5> QED BY <5>1, <5>2
      <4>2. CASE ~(Gap(m) <= D)
        BY <1>6, <2>1, <4>2
      <4> QED BY <4>1, <4>2
    <3>5. Scanned(FirstCollisions(time), s, sx, sy, D, fx, fy, n)
      BY <2>1, <2>6, <2>9, <3>3, <3>4 DEF Scanned
    <3> QED BY <3>5
  <2> QED BY <2>6, <2>8, <2>9 DEF D
<1> QED BY <1>7, <1>8

-----------------------------------------------------------------------------
(***************************************************************************)
(* A round of physics_step.                                                *)
(***************************************************************************)

\* After the callbacks the player faces nothing it hit.
LEMMA ResolvedIs ==
  ASSUME NEW s \in Nat \ {0}, NEW fx \in Signs, NEW fy \in Signs,
         NEW normals \in Seq(Normals)
  PROVE  \E gx \in {fx, 0}, gy \in {fy, 0} :
           /\ Resolved(Vector(fx * s, fy * s), normals) = Vector(gx * s, gy * s)
           /\ \A i \in 1 .. Len(normals) : ~Faces(gx, gy, normals[i])
<1> DEFINE v == Vector(fx * s, fy * s)
           N == Len(normals)
<1>1. N \in Nat /\ \A i \in 1 .. N : normals[i] \in Normals
  OBVIOUS
<1>2. PICK f : Turns(f, v, normals) /\ Resolved(v, normals) = f[N]
  BY <1>1, TurnsOf
<1> DEFINE Turned1(i, gx, gy) ==
             /\ gx \in {fx, 0} /\ gy \in {fy, 0} /\ f[i] = Vector(gx * s, gy * s)
             /\ \A j \in 1 .. i : ~Faces(gx, gy, normals[j])
           S == {i \in 0 .. N : \E gx, gy : Turned1(i, gx, gy)}
<1>3. 0 \in S
  <2>1. Turned1(0, fx, fy)
    BY <1>2 DEF Turns
  <2> HIDE DEF Turned1
  <2> QED BY <1>1, <2>1
<1>4. ASSUME NEW i \in Nat, i < N, i \in S PROVE i + 1 \in S
  <2>1. PICK gx, gy : Turned1(i, gx, gy)
    BY <1>4
  <2>2. gx \in Signs /\ gy \in Signs
    BY <2>1 DEF Signs
  <2>3. i + 1 \in 1 .. N /\ normals[i + 1] \in Normals
    BY <1>1, <1>4
  <2> DEFINE m == normals[i + 1]
  <2>4. f[i + 1] = PlayerOnCollision(Vector(gx * s, gy * s), m)
    <3>1. f[i + 1] = PlayerOnCollision(f[i + 1 - 1], m)
      BY <1>2, <2>3 DEF Turns
    <3>2. i + 1 - 1 = i
      OBVIOUS
    <3> QED BY <2>1, <3>1, <3>2
  <2> HIDE DEF m
  <2>5. m \in Normals
    BY <2>3 DEF m
  <2>6. \E hx \in {gx, 0}, hy \in {gy, 0} :
          f[i + 1] = Vector(hx * s, hy * s) /\ ~Faces(hx, hy, m)
    <3>1. CASE Faces(gx, gy, m)
      BY <2>2, <2>4, <2>5, <3>1, Turned
    <3>2. CASE ~Faces(gx, gy, m)
      BY <2>2, <2>4, <2>5, <3>2, Turned
    <3> QED BY <3>1, <3>2
  <2>7. PICK hx \in {gx, 0}, hy \in {gy, 0} :
          f[i + 1] = Vector(hx * s, hy * s) /\ ~Faces(hx, hy, m)
    BY <2>6
  <2>8. ASSUME NEW j \in 1 .. i + 1 PROVE ~Faces(hx, hy, normals[j])
    <3>1. CASE j = i + 1
      BY <2>7, <3>1 DEF m
    <3>2. CASE j # i + 1
      <4>1. j \in 1 .. i /\ normals[j] \in Normals
        BY <1>1, <1>4, <3>2
      <4>2. ~Faces(gx, gy, normals[j])
        BY <2>1, <4>1
      <4> QED BY <2>2, <2>7, <4>1, <4>2, FacedBefore
    <3> QED BY <3>1, <3>2
  <2>9. Turned1(i + 1, hx, hy)
    BY <2>1, <2>7, <2>8
  <2> HIDE DEF Turned1
  <2> QED BY <2>3, <2>9
<1> HIDE DEF S
<1>5. N \in S
  <2> HIDE DEF N
  <2>1. 0 .. N \subseteq S
    BY <1>1, <1>3, <1>4, InductionUpTo
  <2> QED BY <1>1, <2>1
<1>6. PICK gx, gy : Turned1(N, gx, gy)
  BY <1>5 DEF S
<1> QED BY <1>2, <1>6

\* The velocities of the player.
Velocities == {InputVelocity(k[1], k[2]) : k \in Keys}
              \cup [x : {0, DiagonalSpeed, -DiagonalSpeed},
                    y : {0, DiagonalSpeed, -DiagonalSpeed}]

\* The player is as fast on one axis as on the other, or stands still on it.
Goes(v, s, sx, sy) ==
  /\ s \in Nat \ {0} /\ sx \in Signs /\ sy \in Signs
  /\ v = Vector(sx * s, sy * s)
  /\ sx # 0 /\ sy # 0 => s = DiagonalSpeed

\* Every velocity of the player is of this kind.
LEMMA Directions ==
  ASSUME NEW v \in Velocities
  PROVE  \E s, sx, sy : Goes(v, s, sx, sy)
<1>1. ASSUME NEW k \in Keys, v = InputVelocity(k[1], k[2])
      PROVE  \E s, sx, sy : Goes(v, s, sx, sy)
  <2>1. k[1] \in Signs /\ k[2] \in Signs
    BY DEF Keys, Signs
  <2> DEFINE s == IF k[1] # 0 /\ k[2] # 0 THEN DiagonalSpeed ELSE Speed
  <2>2. s \in Nat \ {0}
    BY RoomNumbers
  <2>3. v = Vector(k[1] * s, k[2] * s)
    BY <1>1 DEF InputVelocity, Times, Vector
  <2>4. Goes(v, s, k[1], k[2])
    BY <2>1, <2>2, <2>3 DEF Goes
  <2> QED BY <2>4
<1>2. CASE v \in [x : {0, DiagonalSpeed, -DiagonalSpeed}, y : {0, DiagonalSpeed, -DiagonalSpeed}]
  <2>1. \A a \in {0, DiagonalSpeed, -DiagonalSpeed} : \E e \in Signs : a = e * DiagonalSpeed
    BY RoomNumbers DEF Signs
  <2>2. PICK sx \in Signs : v.x = sx * DiagonalSpeed
    BY <1>2, <2>1
  <2>3. PICK sy \in Signs : v.y = sy * DiagonalSpeed
    BY <1>2, <2>1
  <2>4. v = Vector(v.x, v.y)
    BY <1>2 DEF Vector
  <2>5. Goes(v, DiagonalSpeed, sx, sy)
    BY <2>2, <2>3, <2>4, RoomNumbers DEF Goes
  <2> QED BY <2>5
<1> QED BY <1>1, <1>2 DEF Velocities

\* And a velocity that has lost an axis is another velocity of the player.
LEMMA Slowed ==
  ASSUME NEW v \in Velocities, NEW s, NEW sx, NEW sy, Goes(v, s, sx, sy),
         NEW gx \in {sx, 0}, NEW gy \in {sy, 0}
  PROVE  Vector(gx * s, gy * s) \in Velocities
<1>1. s \in Nat \ {0} /\ sx \in Signs /\ sy \in Signs
  BY DEF Goes
<1>2. CASE gx = sx /\ gy = sy
  BY <1>2 DEF Goes
<1>3. CASE gx = 0 /\ gy = 0
  <2>1. Vector(gx * s, gy * s) = [x |-> 0, y |-> 0]
    BY <1>1, <1>3 DEF Vector
  <2> QED BY <2>1 DEF Velocities
<1>4. CASE sx # 0 /\ sy # 0
  <2>1. s = DiagonalSpeed
    BY <1>4 DEF Goes
  <2>2. \A e \in Signs : e * DiagonalSpeed \in {0, DiagonalSpeed, -DiagonalSpeed}
    BY RoomNumbers DEF Signs
  <2>3. gx \in Signs /\ gy \in Signs
    BY <1>1 DEF Signs
  <2>4. gx * s \in {0, DiagonalSpeed, -DiagonalSpeed} /\ gy * s \in {0, DiagonalSpeed, -DiagonalSpeed}
    BY <2>1, <2>2, <2>3
  <2> QED BY <2>4 DEF Velocities, Vector
<1> QED BY <1>2, <1>3, <1>4

\* A multiple divides exactly.
LEMMA DivExact ==
  ASSUME NEW k \in Int, NEW r \in Nat \ {0}
  PROVE  (k * r) \div r = k
<1> DEFINE a == r * k + 0
           q == a \div r
<1>1. a \in Int /\ a = k * r
  OBVIOUS
<1>2. a % r = 0
  <2>1. 0 \in 0 .. r - 1
    OBVIOUS
  <2> QED BY <2>1, ModUnique
<1>3. q \in Int /\ a = r * q + (a % r)
  BY <1>1, DivMod
<1> HIDE DEF q
<1>4. q * r = k * r
  BY <1>1, <1>2, <1>3
<1>5. q = k
  BY <1>3, <1>4, Cancel
<1> QED BY <1>1, <1>5 DEF q

\* objects_move takes the player n far in the directions it still goes.
LEMMA RoundMoves ==
  ASSUME NEW found, NEW time \in Nat, NEW s \in Nat \ {0}, NEW sx \in Signs, NEW sy \in Signs,
         NEW fx, NEW fy, NEW n, Scanned(found, s, sx, sy, s * time, fx, fy, n)
  PROVE  LET way == Times(found.vel, time * found.toi.n) IN
         Vector(way.x \div found.toi.d, way.y \div found.toi.d) = Vector(fx * n, fy * n)
<1> DEFINE D == s * time
           way == Times(found.vel, time * found.toi.n)
<1>1. /\ fx \in Int /\ fy \in Int /\ n \in 0 .. D /\ D \in Nat
      /\ found.vel.x = fx * s /\ found.vel.y = fy * s
  BY DEF Scanned, Signs, Vector
<1>2. /\ way.x = (fx * s) * (time * found.toi.n)
      /\ way.y = (fy * s) * (time * found.toi.n)
  BY <1>1 DEF Times, Vector
<1>3. CASE found.toi = [n |-> 1, d |-> 1] /\ n = D
  <2>1. ASSUME NEW e \in Int PROVE ((e * s) * (time * 1)) \div 1 = e * n
    <3>1. (e * s) * (time * 1) = (e * n) * 1 /\ e * n \in Int
      BY <1>3
    <3> QED BY <3>1, DivExact
  <2> QED BY <1>1, <1>2, <1>3, <2>1
<1>4. CASE FoundAt(found, sx, sy, D, n)
  <2>1. found.toi.n = n /\ found.toi.d = D /\ D \in Nat \ {0} /\ n \in Int
    BY <1>1, <1>4 DEF FoundAt
  <2>2. ASSUME NEW e \in Int PROVE ((e * s) * (time * n)) \div D = e * n
    <3>1. (e * s) * (time * n) = (e * n) * D /\ e * n \in Int
      BY <2>1
    <3> HIDE DEF D
    <3> QED BY <2>1, <3>1, DivExact
  <2> QED BY <1>1, <1>2, <2>1, <2>2
<1> QED BY <1>3, <1>4 DEF Scanned

\* And that stays in the room.
LEMMA RoundStays ==
  ASSUME InRoom(pos), NEW found, NEW D \in Nat, NEW s \in Nat \ {0},
         NEW sx \in Signs, NEW sy \in Signs,
         NEW fx, NEW fy, NEW n, Scanned(found, s, sx, sy, D, fx, fy, n)
  PROVE  InRoom(Plus(pos, Vector(fx * n, fy * n)))
<1>1. fx \in Signs /\ fy \in Signs /\ n \in Nat
  BY DEF Scanned, Signs
<1>2. pos.x \in Int /\ pos.y \in Int /\ pos \in Vectors
  BY DEF InRoom, Vectors
<1>3. /\ fx = 1 => n <= Far - HalfTile - Player.right
      /\ fx = -1 => n <= Player.left - HalfTile
      /\ fy = 1 => n <= Far - HalfTile - Player.up
      /\ fy = -1 => n <= Player.down - HalfTile
  <2>1. /\ VEC_RIGHT \in Normals /\ VEC_LEFT \in Normals
        /\ VEC_UP \in Normals /\ VEC_DOWN \in Normals
    BY DEF Normals
  <2>2. \A m \in Normals : Faces(fx, fy, m) => n <= Gap(m)
    BY DEF Scanned
  <2>3. /\ fx = 1 => Faces(fx, fy, VEC_LEFT)
        /\ fx = -1 => Faces(fx, fy, VEC_RIGHT)
        /\ fy = 1 => Faces(fx, fy, VEC_DOWN)
        /\ fy = -1 => Faces(fx, fy, VEC_UP)
    BY <1>1, NormalsDiffer DEF Faces, Signs
  <2>4. /\ Gap(VEC_LEFT) = Far - HalfTile - Player.right
        /\ Gap(VEC_RIGHT) = Player.left - HalfTile
        /\ Gap(VEC_DOWN) = Far - HalfTile - Player.up
        /\ Gap(VEC_UP) = Player.down - HalfTile
    BY NormalsDiffer DEF Gap
  <2> QED BY <2>1, <2>2, <2>3, <2>4
<1>4. /\ fx * n \in Int /\ fy * n \in Int
      /\ fx * n <= Far - HalfTile - Player.right /\ -(fx * n) <= Player.left - HalfTile
      /\ fy * n <= Far - HalfTile - Player.up /\ -(fy * n) <= Player.down - HalfTile
  BY <1>1, <1>2, <1>3, PlayerBox, Sizes DEF Signs, InRoom
<1> DEFINE p == Plus(pos, Vector(fx * n, fy * n))
<1>5. p = [x |-> pos.x + fx * n, y |-> pos.y + fy * n]
  BY DEF Plus, Vector
<1>6. p.x = pos.x + fx * n /\ p.y = pos.y + fy * n /\ p \in Vectors
  BY <1>2, <1>4, <1>5 DEF Vectors
<1> HIDE DEF p
<1>7. InRoom(p)
  BY <1>2, <1>4, <1>6, PlayerBox, Sizes DEF InRoom
<1> QED BY <1>7 DEF p

-----------------------------------------------------------------------------
(***************************************************************************)
(* The time that a round takes.                                            *)
(***************************************************************************)

\* A round of nt / td of the whole milliseconds in rem / pd, on an axis where the
\* player moved M in the pn / pd before, at the speed a.
LEMMA RoundTime ==
  ASSUME NEW a \in Nat, NEW M \in Nat, NEW pn \in Nat, NEW pd \in Nat \ {0}, NEW rem \in Nat,
         NEW time \in Nat, NEW nt \in Nat, NEW td \in Nat \ {0}, NEW mu \in Nat,
         nt <= td, M * pd <= a * pn, time * pd <= rem
  PROVE  LET pn2 == pn * td + rem * nt
             pd2 == pd * td
         IN /\ pn2 \in Nat /\ pd2 \in Nat \ {0}
            /\ M * pd2 <= a * pn2
            /\ mu * td = (a * time) * nt =>
                 /\ (M + mu) * pd2 <= a * pn2
                 /\ \A it \in Nat \ {0} :
                      M * pd >= a * pn - (a * pd) * (it - 1) /\ rem <= time * pd + pd =>
                        (M + mu) * pd2 >= a * pn2 - (a * pd2) * it
                 /\ M * pd >= a * pn /\ rem = time * pd => (M + mu) * pd2 >= a * pn2
<1> DEFINE pn2 == pn * td + rem * nt
           pd2 == pd * td
           A == (M * pd) * td
           B == (a * pn) * td
           C == (a * rem) * nt
           E == (a * (time * pd)) * nt
<1>1. pn2 \in Nat /\ pd2 \in Nat \ {0} /\ A \in Int /\ B \in Int /\ C \in Nat /\ E \in Int
  OBVIOUS
<1>2. M * pd2 = A
  OBVIOUS
<1>3. a * pn2 = B + C
  <2>1. a * pn2 = a * (pn * td) + a * (rem * nt)
    OBVIOUS
  <2> QED BY <2>1
<1>4. A <= B
  <2> DEFINE u == M * pd
             v == a * pn
  <2>1. u \in Nat /\ v \in Nat /\ u <= v
    OBVIOUS
  <2> HIDE DEF u, v
  <2>2. u * td <= v * td
    BY <2>1
  <2> QED BY <2>2 DEF u, v
<1>5. \A i, j \in Int : i <= j => a * i <= a * j /\ i * nt <= j * nt /\ i * td <= j * td
  OBVIOUS
<1>6. E <= C
  <2>1. time * pd \in Int /\ rem \in Int
    OBVIOUS
  <2>2. a * (time * pd) <= a * rem
    BY <1>5, <2>1
  <2>3. a * (time * pd) \in Int /\ a * rem \in Int
    OBVIOUS
  <2> QED BY <1>5, <2>2, <2>3
<1>7. ASSUME mu * td = (a * time) * nt PROVE (M + mu) * pd2 = A + E
  <2>1. (M + mu) * pd2 = M * pd2 + mu * pd2
    OBVIOUS
  <2>2. mu * pd2 = (mu * td) * pd
    OBVIOUS
  <2>3. ((a * time) * nt) * pd = E
    OBVIOUS
  <2> HIDE DEF E, pd2, A
  <2> QED BY <1>2, <1>7, <2>1, <2>2, <2>3
<1>8. ASSUME NEW it \in Nat \ {0}, M * pd >= a * pn - (a * pd) * (it - 1),
             rem <= time * pd + pd
      PROVE  A + E >= (B + C) - (a * pd2) * it
  <2> DEFINE F == ((a * pd) * (it - 1)) * td
             G == (a * pd) * nt
             L == (a * pd) * td
  <2>1. F \in Int /\ G \in Int /\ L \in Int
    OBVIOUS
  <2>2. A >= B - F
    <3> DEFINE u == a * pn - (a * pd) * (it - 1)
    <3>1. u \in Int /\ M * pd \in Int
      OBVIOUS
    <3>2. u * td = B - F
      OBVIOUS
    <3>3. u <= M * pd
      BY <1>8
    <3> HIDE DEF u
    <3>4. u * td <= (M * pd) * td
      BY <1>5, <3>1, <3>3
    <3> HIDE DEF F
    <3> QED BY <1>1, <2>1, <3>2, <3>4
  <2>3. C <= E + G
    <3> DEFINE u == time * pd + pd
    <3>1. u \in Int /\ a * u = a * (time * pd) + a * pd
      OBVIOUS
    <3>2. a * rem <= a * u
      <4> HIDE DEF u
      <4>1. rem <= u
        BY <1>8 DEF u
      <4> QED BY <1>5, <3>1, <4>1
    <3>3. a * rem \in Int /\ a * u \in Int
      BY <3>1
    <3>4. (a * rem) * nt <= (a * u) * nt
      <4> HIDE DEF u
      <4> QED BY <1>5, <3>2, <3>3
    <3>5. (a * (time * pd) + a * pd) * nt = E + G
      OBVIOUS
    <3> HIDE DEF E, G, u
    <3> QED BY <3>1, <3>4, <3>5
  <2>4. G <= L
    <3>1. a * pd \in Nat
      OBVIOUS
    <3> DEFINE u == a * pd
    <3> HIDE DEF u
    <3>2. u * nt <= u * td
      BY <3>1 DEF u
    <3> QED BY <3>2 DEF u
  <2>5. (a * pd2) * it = F + L
    <3> DEFINE u == a * pd
    <3>1. u \in Int /\ (a * pd2) * it = (u * td) * it
      OBVIOUS
    <3>2. ((u * (it - 1)) * td) = (u * td) * it - u * td
      <4> HIDE DEF u
      <4> QED BY <3>1
    <3>3. F = (u * (it - 1)) * td /\ L = u * td
      OBVIOUS
    <3>4. (u * td) * it \in Int
      <4> HIDE DEF u
      <4> QED BY <3>1
    <3> HIDE DEF F, L
    <3> QED BY <2>1, <3>1, <3>2, <3>3, <3>4
  <2> HIDE DEF A, B, C, E, F, G, L, pd2
  <2> QED BY <1>1, <2>1, <2>2, <2>3, <2>4, <2>5
<1>9. ASSUME M * pd >= a * pn, rem = time * pd PROVE A + E >= B + C
  <2>1. E = C
    BY <1>9
  <2>2. a * pn \in Int /\ M * pd \in Int
    OBVIOUS
  <2>3. B <= A
    BY <1>5, <1>9, <2>2
  <2> HIDE DEF A, B, C, E
  <2> QED BY <1>1, <2>1, <2>3
<1> HIDE DEF pn2, pd2, A, B, C, E
<1>10. M * pd2 <= a * pn2
  BY <1>1, <1>2, <1>3, <1>4
<1>11. ASSUME mu * td = (a * time) * nt
       PROVE  /\ (M + mu) * pd2 <= a * pn2
              /\ \A it \in Nat \ {0} :
                   M * pd >= a * pn - (a * pd) * (it - 1) /\ rem <= time * pd + pd =>
                     (M + mu) * pd2 >= a * pn2 - (a * pd2) * it
              /\ M * pd >= a * pn /\ rem = time * pd => (M + mu) * pd2 >= a * pn2
  <2>1. (M + mu) * pd2 = A + E
    BY <1>7, <1>11
  <2>2. (M + mu) * pd2 <= a * pn2
    BY <1>1, <1>3, <1>4, <1>6, <2>1
  <2>3. ASSUME NEW it \in Nat \ {0}, M * pd >= a * pn - (a * pd) * (it - 1),
               rem <= time * pd + pd
        PROVE  (M + mu) * pd2 >= a * pn2 - (a * pd2) * it
    BY <1>3, <1>8, <2>1, <2>3
  <2>4. ASSUME M * pd >= a * pn, rem = time * pd PROVE (M + mu) * pd2 >= a * pn2
    BY <1>3, <1>9, <2>1, <2>4
  <2> QED BY <2>2, <2>3, <2>4
<1> QED BY <1>1, <1>10, <1>11 DEF pn2, pd2

\* One axis: position, where it was at the start of the frame, the velocity asked
\* for and the one it has, after pn / pd ms and some rounds.
AxisInv(p, f, a, v, pn, pd, rounds) ==
  LET M == Abs(p - f) IN
  /\ p \in Int /\ f \in Int /\ a \in Int /\ v \in {a, 0}
  /\ (a >= 0 /\ p >= f) \/ (a <= 0 /\ p <= f)
  /\ rounds = 0 => p = f
  /\ M * pd <= Abs(a) * pn
  /\ v # 0 /\ rounds > 0 => M * pd >= Abs(a) * pn - (Abs(a) * pd) * (rounds - 1)

\* A round, seen on one axis.
AxisStep(v, v2, pd, s, e, n, rem, time, nt, td) ==
  /\ rem \in Nat /\ time \in Nat /\ time * pd <= rem /\ rem < time * pd + pd
  /\ s \in Nat \ {0} /\ e \in Signs /\ e * s \in {v, 0} /\ v2 \in {e * s, 0}
  /\ n \in Nat /\ nt \in Nat /\ td \in Nat \ {0} /\ nt <= td /\ n * td = (s * time) * nt

\* A round preserves the invariant of an axis.
LEMMA AxisRound ==
  ASSUME NEW p, NEW f, NEW a, NEW v, NEW pn \in Nat, NEW pd \in Nat \ {0}, NEW rounds \in Nat,
         AxisInv(p, f, a, v, pn, pd, rounds), rounds = 0 => pn = 0 /\ pd = 1,
         NEW v2, NEW s, NEW e, NEW n, NEW rem, NEW time, NEW nt, NEW td,
         AxisStep(v, v2, pd, s, e, n, rem, time, nt, td)
  PROVE  AxisInv(p + e * n, f, a, v2, pn * td + rem * nt, pd * td, rounds + 1)
<1> USE DEF AxisStep
<1> DEFINE M == Abs(p - f)
           pn2 == pn * td + rem * nt
           pd2 == pd * td
<1>1. /\ p \in Int /\ f \in Int /\ a \in Int /\ v \in {a, 0}
      /\ (a >= 0 /\ p >= f) \/ (a <= 0 /\ p <= f)
      /\ rounds = 0 => p = f
      /\ M * pd <= Abs(a) * pn
      /\ v # 0 /\ rounds > 0 => M * pd >= Abs(a) * pn - (Abs(a) * pd) * (rounds - 1)
  BY DEF AxisInv
<1>2. M \in Nat /\ Abs(a) \in Nat
  BY <1>1 DEF Abs
<1>3. rounds + 1 # 0 /\ (rounds + 1) - 1 = rounds
  OBVIOUS
<1>4. CASE e = 0
  <2>1. p + e * n = p /\ e * s = 0 /\ v2 = 0
    BY <1>1, <1>4
  <2> HIDE DEF M
  <2>2. M * (pd * td) <= Abs(a) * (pn * td + rem * nt)
    BY <1>1, <1>2, RoundTime
  <2> QED BY <1>1, <1>3, <2>1, <2>2 DEF AxisInv, M
<1>5. CASE e # 0
  <2>1. e * s = a /\ v = a /\ Abs(a) = s /\ v # 0
    BY <1>1, <1>5 DEF Signs, Abs
  <2>2. (e = 1 /\ a > 0) \/ (e = -1 /\ a < 0)
    BY <1>5, <2>1 DEF Signs
  <2> DEFINE q == p + e * n
             r == rounds + 1
  <2>3. /\ Abs(q - f) = M + n /\ q \in Int
        /\ (a >= 0 /\ q >= f) \/ (a <= 0 /\ q <= f)
    BY <1>1, <2>2 DEF Abs
  <2> HIDE DEF M
  <2>4. /\ (M + n) * (pd * td) <= s * (pn * td + rem * nt)
        /\ \A it \in Nat \ {0} :
             M * pd >= s * pn - (s * pd) * (it - 1) /\ rem <= time * pd + pd =>
               (M + n) * (pd * td) >= s * (pn * td + rem * nt) - (s * (pd * td)) * it
        /\ M * pd >= s * pn /\ rem = time * pd =>
             (M + n) * (pd * td) >= s * (pn * td + rem * nt)
    BY <1>1, <1>2, <2>1, RoundTime
  <2>5. (M + n) * (pd * td) >= s * (pn * td + rem * nt) - (s * (pd * td)) * rounds
    <3>1. CASE rounds = 0
      <4>1. M = 0 /\ pn = 0 /\ pd = 1
        BY <1>1, <3>1 DEF M, Abs
      <4>2. rem = time * pd /\ M * pd >= s * pn
        BY <4>1
      <4>3. (s * (pd * td)) * rounds = 0 /\ s * (pn * td + rem * nt) \in Int
        BY <3>1
      <4> QED BY <2>4, <4>2, <4>3
    <3>2. CASE rounds # 0
      <4>1. M * pd >= s * pn - (s * pd) * (rounds - 1)
        BY <1>1, <2>1, <3>2
      <4>2. rem <= time * pd + pd
        OBVIOUS
      <4> QED BY <2>4, <3>2, <4>1, <4>2
    <3> QED BY <3>1, <3>2
  <2>6. v2 \in {a, 0}
    BY <2>1
  <2>7. (M + n) * pd2 <= s * pn2
    BY <2>4
  <2>8. (M + n) * pd2 >= s * pn2 - (s * pd2) * rounds
    BY <2>5
  <2>9. r - 1 = rounds /\ r # 0
    BY <1>3
  <2>10. /\ q \in Int /\ f \in Int /\ a \in Int /\ Abs(q - f) = M + n
         /\ (a >= 0 /\ q >= f) \/ (a <= 0 /\ q <= f)
    <3>1. f \in Int /\ a \in Int
      BY <1>1
    <3> HIDE DEF q
    <3> QED BY <2>3, <3>1
  <2> HIDE DEF q, r, pn2, pd2
  <2>12. Abs(q - f) * pd2 <= Abs(a) * pn2
    BY <2>1, <2>7, <2>10
  <2>13. Abs(q - f) * pd2 >= Abs(a) * pn2 - (Abs(a) * pd2) * (r - 1)
    BY <2>1, <2>8, <2>9, <2>10
  <2>11. AxisInv(q, f, a, v2, pn2, pd2, r)
    BY <2>6, <2>9, <2>10, <2>12, <2>13 DEF AxisInv
  <2> QED BY <2>11 DEF q, r, pn2, pd2
<1> QED BY <1>4, <1>5

-----------------------------------------------------------------------------
(***************************************************************************)
(* The invariant.                                                          *)
(***************************************************************************)

\* The axes on which the player moves.
Moving(v) == (IF v.x # 0 THEN 1 ELSE 0) + (IF v.y # 0 THEN 1 ELSE 0)

\* The player is in the room and where the time that passed took it; and as long as
\* there is time, each round has cost it the speed on an axis.
PhysicsInv ==
  /\ InRoom(pos) /\ InRoom(from)
  /\ vel \in Velocities /\ asked \in Velocities
  /\ deltaTime \in FrameTimes \cup {0}
  /\ passedTime \in [n : Nat, d : Nat \ {0}]
  /\ iterations \in 0 .. 3
  /\ stepping \in BOOLEAN
  /\ AxisInv(pos.x, from.x, asked.x, vel.x, passedTime.n, passedTime.d, iterations)
  /\ AxisInv(pos.y, from.y, asked.y, vel.y, passedTime.n, passedTime.d, iterations)
  /\ iterations = 0 => passedTime.n = 0 /\ passedTime.d = 1
  /\ passedTime.n < deltaTime * passedTime.d => iterations + Moving(vel) <= 2

\* Velocities are integers.
LEMMA VelocityType ==
  ASSUME NEW v \in Velocities
  PROVE  v.x \in Int /\ v.y \in Int /\ Moving(v) \in 0 .. 2
<1>1. PICK s, sx, sy : Goes(v, s, sx, sy)
  BY Directions
<1>2. v.x = sx * s /\ v.y = sy * s /\ sx * s \in Int /\ sy * s \in Int
  BY <1>1 DEF Goes, Vector, Signs
<1> QED BY <1>2 DEF Moving

\* A frame, or a room, that begins with the player where it is.
LEMMA AxisStart ==
  ASSUME NEW p \in Int, NEW a \in Int
  PROVE  AxisInv(p, p, a, a, 0, 1, 0)
<1>1. Abs(p - p) = 0 /\ Abs(a) \in Nat
  BY DEF Abs
<1>2. 0 * 1 <= Abs(a) * 0
  BY <1>1
<1> QED BY <1>1, <1>2 DEF AxisInv

\* The invariant holds when the room has been made.
LEMMA InitPhysicsInv ==
  Init => PhysicsInv
<1> SUFFICES ASSUME Init PROVE PhysicsInv
  OBVIOUS
<1> USE DEF Init
<1> DEFINE last == (Side - 2) * TileSize
<1>1. pos = Start /\ from = pos /\ passedTime = [n |-> 0, d |-> 1]
  BY DEF Ratio
<1>2. /\ last \in Int /\ last = Far - TileSize
      /\ pos \in Vectors /\ pos.x \in TileSize .. last /\ pos.y \in TileSize .. last
  <2>1. last \in Int /\ last = Far - TileSize
    BY RoomNumbers DEF Far
  <2>2. Start \in [x : TileSize .. last, y : TileSize .. last]
    BY PhysicsAssumption
  <2> HIDE DEF last
  <2> QED BY <1>1, <2>1, <2>2, RoomNumbers DEF Vectors
<1> HIDE DEF last
<1>3. InRoom(pos)
  BY <1>2, RoomNumbers, Sizes DEF InRoom
<1>4. vel = [x |-> 0, y |-> 0] /\ asked = vel
  BY DEF VEC_ZERO, Vector
<1>5. vel \in Velocities
  BY <1>4 DEF Velocities
<1>6. /\ AxisInv(pos.x, pos.x, 0, 0, 0, 1, 0)
      /\ AxisInv(pos.y, pos.y, 0, 0, 0, 1, 0)
  BY <1>2, AxisStart, RoomNumbers
<1>7. ~(passedTime.n < deltaTime * passedTime.d)
  BY <1>1
<1>8. /\ AxisInv(pos.x, from.x, asked.x, vel.x, passedTime.n, passedTime.d, iterations)
      /\ AxisInv(pos.y, from.y, asked.y, vel.y, passedTime.n, passedTime.d, iterations)
  BY <1>1, <1>4, <1>6
<1>9. InRoom(from) /\ asked \in Velocities
  BY <1>1, <1>3, <1>4, <1>5
<1>10. passedTime \in [n : Nat, d : Nat \ {0}] /\ passedTime.n = 0 /\ passedTime.d = 1
  BY <1>1
<1>11. deltaTime \in FrameTimes \cup {0} /\ iterations \in 0 .. 3 /\ stepping \in BOOLEAN
  <2>1. deltaTime = 0 /\ iterations = 0
    OBVIOUS
  <2>2. stepping = FALSE
    OBVIOUS
  <2>3. stepping \in BOOLEAN
    BY <2>2
  <2> QED BY <2>1, <2>3
<1> QED BY <1>3, <1>5, <1>7, <1>8, <1>9, <1>10, <1>11 DEF PhysicsInv

\* player_update and the call of physics_step preserve it: a new frame starts with no
\* time passed and no way made.
LEMMA BeginFramePreserves ==
  ASSUME PhysicsInv, BeginFrame
  PROVE  PhysicsInv'
<1> USE DEF BeginFrame
<1>1. pos' = pos /\ from' = pos /\ asked' = vel' /\ passedTime' = [n |-> 0, d |-> 1]
  BY DEF Ratio
<1>2. vel' \in Velocities
  BY DEF Velocities
<1>3. vel'.x \in Int /\ vel'.y \in Int /\ Moving(vel') \in 0 .. 2
  BY <1>2, VelocityType
<1>4. pos.x \in Int /\ pos.y \in Int
  BY DEF PhysicsInv, InRoom, Vectors
<1>5. /\ AxisInv(pos.x, pos.x, vel'.x, vel'.x, 0, 1, 0)
      /\ AxisInv(pos.y, pos.y, vel'.y, vel'.y, 0, 1, 0)
  BY <1>3, <1>4, AxisStart
<1>6. iterations' = 0 /\ stepping' = TRUE /\ deltaTime' \in FrameTimes \cup {0}
  OBVIOUS
<1>7. InRoom(pos') /\ InRoom(from')
  BY <1>1 DEF PhysicsInv, InRoom
<1>8. (passedTime.n < deltaTime * passedTime.d => iterations + Moving(vel) <= 2)'
  BY <1>3, <1>6 DEF Moving
<1>9. /\ AxisInv(pos.x, from.x, asked.x, vel.x, passedTime.n, passedTime.d, iterations)'
      /\ AxisInv(pos.y, from.y, asked.y, vel.y, passedTime.n, passedTime.d, iterations)'
  BY <1>1, <1>5, <1>6 DEF AxisInv
<1> QED BY <1>1, <1>2, <1>6, <1>7, <1>8, <1>9 DEF PhysicsInv

\* The return of physics_step preserves it, as does any step that leaves the player
\* alone.
LEMMA EndFramePreserves ==
  ASSUME PhysicsInv, UNCHANGED <<pos, vel, deltaTime, passedTime, iterations, from, asked>>,
         stepping' \in BOOLEAN
  PROVE  PhysicsInv'
BY DEF PhysicsInv, InRoom, AxisInv, Moving

\* The whole milliseconds that are left.
LEMMA TimeOfRound ==
  ASSUME PhysicsInv, TimeLeft
  PROVE  LET rem == deltaTime * passedTime.d - passedTime.n
             time == rem \div passedTime.d
         IN /\ Ratio(rem, passedTime.d) = [n |-> rem, d |-> passedTime.d]
            /\ rem \in Nat /\ time \in Nat
            /\ time * passedTime.d <= rem /\ rem < time * passedTime.d + passedTime.d
            /\ time <= deltaTime /\ deltaTime \in FrameTimes /\ deltaTime \in Nat
<1> DEFINE pn == passedTime.n
           pd == passedTime.d
           rem == deltaTime * pd - pn
           time == rem \div pd
<1>1. pn \in Nat /\ pd \in Nat \ {0} /\ deltaTime \in FrameTimes \cup {0}
  BY DEF PhysicsInv
<1>2. deltaTime \in Nat
  BY <1>1, PhysicsAssumption
<1>3. pn < deltaTime * pd
  BY DEF TimeLeft
<1> HIDE DEF pn, pd
<1>4. deltaTime # 0
  BY <1>1, <1>3
<1>5. rem \in Nat /\ rem <= deltaTime * pd
  BY <1>1, <1>2, <1>3
<1> DEFINE all == deltaTime * pd
<1>6. all \in Nat /\ rem \in Nat /\ rem <= all
  BY <1>1, <1>2, <1>5
<1>7. Ratio(rem, pd) = [n |-> rem, d |-> pd]
  BY <1>1 DEF Ratio
<1> HIDE DEF rem
<1>8. time \in Int /\ rem % pd \in 0 .. pd - 1 /\ rem = pd * time + (rem % pd)
  <2>1. rem \in Int
    BY <1>6
  <2> QED BY <1>1, <2>1, DivMod
<1> HIDE DEF time
<1>9. pd * time = time * pd /\ time * pd \in Int
  BY <1>1, <1>8
<1>10. time * pd <= rem /\ rem < time * pd + pd
  <2> DEFINE t == time * pd
  <2> HIDE DEF t
  <2>1. rem = t + (rem % pd) /\ t \in Int
    BY <1>8, <1>9 DEF t
  <2>2. t <= rem /\ rem < t + pd
    BY <1>1, <1>6, <1>8, <2>1
  <2> QED BY <2>2 DEF t
<1>11. time >= 0
  <2> SUFFICES ASSUME time < 0 PROVE FALSE
    BY <1>8
  <2>1. time + 1 <= 0 /\ time + 1 \in Int
    BY <1>8
  <2>2. (time + 1) * pd <= 0
    BY <1>1, <2>1
  <2>3. (time + 1) * pd = time * pd + pd
    BY <1>1, <1>8
  <2> QED BY <1>1, <1>6, <1>9, <1>10, <2>2, <2>3
<1>12. time <= deltaTime
  <2> SUFFICES ASSUME deltaTime < time PROVE FALSE
    BY <1>2, <1>8
  <2>1. deltaTime * pd < time * pd
    BY <1>1, <1>2, <1>8, Cancel
  <2> QED BY <1>6, <1>9, <1>10, <2>1
<1>13. time \in Nat /\ deltaTime \in FrameTimes
  BY <1>1, <1>4, <1>8, <1>11
<1> QED BY <1>2, <1>6, <1>7, <1>10, <1>12, <1>13 DEF time, rem, pd, pn

\* What a round comes to: n is how far it moves the player in the directions fx, fy,
\* and it takes nt / td of the whole milliseconds in rem / pd.
RoundIs(s, sx, sy, fx, fy, gx, gy, n, rem, time, nt, td) ==
  /\ Goes(vel, s, sx, sy)
  /\ fx \in {sx, 0} /\ fy \in {sy, 0} /\ gx \in {fx, 0} /\ gy \in {fy, 0}
  /\ n \in Nat /\ rem \in Nat /\ time \in Nat /\ nt \in Nat /\ td \in Nat \ {0} /\ nt <= td
  /\ time * passedTime.d <= rem /\ rem < time * passedTime.d + passedTime.d
  /\ rem = deltaTime * passedTime.d - passedTime.n
  /\ n * td = (s * time) * nt
  /\ pos' = Plus(pos, Vector(fx * n, fy * n)) /\ InRoom(pos')
  /\ vel' = Vector(gx * s, gy * s)
  /\ passedTime' = [n |-> passedTime.n * td + rem * nt, d |-> passedTime.d * td]
  /\ nt = td \/ \E m \in FacingNormals(sx, sy) : ~Faces(gx, gy, m)

\* A round finds, moves, resolves and counts the time like that.
LEMMA RoundComesTo ==
  ASSUME PhysicsInv, Round
  PROVE  \E s, sx, sy, fx, fy, gx, gy, n, rem, time, nt, td :
           RoundIs(s, sx, sy, fx, fy, gx, gy, n, rem, time, nt, td)
<1> DEFINE pn == passedTime.n
           pd == passedTime.d
           rem == deltaTime * pd - pn
           time == rem \div pd
           remaining == Ratio(rem, pd)
           found == FirstCollisions(time)
<1>1. /\ remaining = [n |-> rem, d |-> pd]
      /\ rem \in Nat /\ time \in Nat
      /\ time * pd <= rem /\ rem < time * pd + pd
      /\ time <= deltaTime /\ deltaTime \in FrameTimes /\ deltaTime \in Nat
  BY TimeOfRound DEF Round
<1>2. pn \in Nat /\ pd \in Nat \ {0}
  BY DEF PhysicsInv
<1>3. Truncated(remaining) = time
  BY <1>1 DEF Truncated
<1> DEFINE way == Times(found.vel, time * found.toi.n)
<1>4. /\ pos' = Plus(pos, Vector(way.x \div found.toi.d, way.y \div found.toi.d))
      /\ vel' = Resolved(found.vel, found.normals)
      /\ passedTime' = Sum(remaining, found.toi)
  BY <1>3 DEF Round
<1>5. PICK s, sx, sy : Goes(vel, s, sx, sy)
  BY Directions DEF PhysicsInv
<1>6. s \in Nat \ {0} /\ sx \in Signs /\ sy \in Signs /\ vel = Vector(sx * s, sy * s)
  BY <1>5 DEF Goes
<1> DEFINE D == s * time
<1> HIDE DEF pn, pd, rem, time, remaining, found
<1>7. D \in Nat
  BY <1>1, <1>6
<1>8. sx # 0 /\ sy # 0 => D < PlayerSize
  <2> SUFFICES ASSUME sx # 0, sy # 0 PROVE D < PlayerSize
    OBVIOUS
  <2>1. s = DiagonalSpeed
    BY <1>5 DEF Goes
  <2>2. s * deltaTime < PlayerSize
    BY <1>1, <2>1, PhysicsAssumption
  <2>3. s * time <= s * deltaTime
    BY <1>1, <1>6
  <2>4. s * deltaTime \in Int
    BY <1>1, <1>6
  <2> HIDE DEF D
  <2>5. D <= s * deltaTime
    BY <2>3 DEF D
  <2> QED BY <1>7, <2>2, <2>4, <2>5, RoomNumbers
<1>9. InRoom(pos)
  BY DEF PhysicsInv
<1>10. PICK fx, fy, n : Scanned(found, s, sx, sy, D, fx, fy, n)
  BY <1>1, <1>6, <1>8, <1>9, ScanResult DEF found
<1>11. fx \in {sx, 0} /\ fy \in {sy, 0} /\ fx \in Signs /\ fy \in Signs /\ n \in 0 .. D
  BY <1>6, <1>10 DEF Scanned, Signs
<1>12. pos' = Plus(pos, Vector(fx * n, fy * n))
  BY <1>1, <1>4, <1>6, <1>10, RoundMoves
<1>13. InRoom(Plus(pos, Vector(fx * n, fy * n)))
  <2> HIDE DEF D
  <2> QED BY <1>6, <1>7, <1>9, <1>10, RoundStays
<1>14. InRoom(pos')
  BY <1>12, <1>13
<1>15. found.vel = Vector(fx * s, fy * s) /\ found.normals \in Seq(Normals)
  <2>1. << >> \in Seq(Normals)
    OBVIOUS
  <2>2. Seq(FacingNormals(sx, sy)) \subseteq Seq(Normals)
    BY DEF FacingNormals
  <2> QED BY <1>10, <2>1, <2>2 DEF Scanned, FoundAt
<1>16. PICK gx \in {fx, 0}, gy \in {fy, 0} :
         /\ vel' = Vector(gx * s, gy * s)
         /\ \A i \in 1 .. Len(found.normals) : ~Faces(gx, gy, found.normals[i])
  BY <1>4, <1>6, <1>11, <1>15, ResolvedIs
<1>17. ASSUME NEW nt \in Nat, NEW td \in Nat \ {0}, found.toi = [n |-> nt, d |-> td]
       PROVE  passedTime' = [n |-> pn * td + rem * nt, d |-> pd * td]
  <2>1. passedTime' = Ratio(pn * td + rem * nt, pd * td)
    BY <1>1, <1>4, <1>17 DEF Sum, pn, pd
  <2>2. pd * td > 0
    BY <1>2
  <2> QED BY <2>1, <2>2 DEF Ratio
<1>18. CASE found.toi = [n |-> 1, d |-> 1] /\ n = D
  <2>1. passedTime' = [n |-> pn * 1 + rem * 1, d |-> pd * 1]
    BY <1>17, <1>18
  <2>2. n * 1 = (s * time) * 1 /\ n \in Nat
    BY <1>7, <1>18
  <2>3. RoundIs(s, sx, sy, fx, fy, gx, gy, n, rem, time, 1, 1)
    BY <1>1, <1>5, <1>11, <1>12, <1>14, <1>16, <2>1, <2>2 DEF RoundIs, pn, pd, rem
  <2> QED BY <2>3
<1>19. CASE FoundAt(found, sx, sy, D, n)
  <2>1. /\ found.toi = [n |-> n, d |-> D] /\ n \in 1 .. D
        /\ found.normals \in Seq(FacingNormals(sx, sy)) /\ found.normals # << >>
    BY <1>19 DEF FoundAt
  <2>2. n \in Nat /\ n <= D /\ D \in Nat \ {0}
    BY <1>7, <2>1
  <2>3. passedTime' = [n |-> pn * D + rem * n, d |-> pd * D]
    <3> HIDE DEF D
    <3> QED BY <1>17, <2>1, <2>2
  <2>4. n * D = (s * time) * n
    <3>1. n * D = D * n
      <4> HIDE DEF D
      <4> QED BY <2>2
    <3> QED BY <3>1
  <2>5. \E m \in FacingNormals(sx, sy) : ~Faces(gx, gy, m)
    <3>1. 1 \in 1 .. Len(found.normals) /\ found.normals[1] \in FacingNormals(sx, sy)
      BY <2>1
    <3> QED BY <1>16, <3>1
  <2> HIDE DEF D
  <2>6. n * D = (s * time) * n
    BY <2>4
  <2>7. RoundIs(s, sx, sy, fx, fy, gx, gy, n, rem, time, n, D)
    BY <1>1, <1>5, <1>11, <1>12, <1>14, <1>16, <2>2, <2>3, <2>5, <2>6 DEF RoundIs, pn, pd, rem
  <2> QED BY <2>7
<1> QED BY <1>10, <1>18, <1>19 DEF Scanned

\* A speed that faced what was hit is lost.
LEMMA LostSpeed ==
  ASSUME NEW s, NEW sx, NEW sy, NEW v, Goes(v, s, sx, sy),
         NEW gx \in {sx, 0}, NEW gy \in {sy, 0}
  PROVE  /\ Moving(Vector(gx * s, gy * s)) \in 0 .. 2 /\ Moving(v) \in 0 .. 2
         /\ (\E m \in FacingNormals(sx, sy) : ~Faces(gx, gy, m)) =>
              Moving(Vector(gx * s, gy * s)) + 1 <= Moving(v)
<1> DEFINE M(ex, ey) == (IF ex # 0 THEN 1 ELSE 0) + (IF ey # 0 THEN 1 ELSE 0)
<1>1. s \in Nat \ {0} /\ sx \in Signs /\ sy \in Signs /\ v = Vector(sx * s, sy * s)
  BY DEF Goes
<1>2. gx \in Signs /\ gy \in Signs
  BY <1>1 DEF Signs
<1>3. ASSUME NEW ex \in Signs, NEW ey \in Signs
      PROVE  Moving(Vector(ex * s, ey * s)) = M(ex, ey)
  <2>1. (ex * s # 0 <=> ex # 0) /\ (ey * s # 0 <=> ey # 0)
    BY <1>1 DEF Signs
  <2> QED BY <2>1 DEF Moving, Vector
<1>4. Moving(Vector(gx * s, gy * s)) = M(gx, gy) /\ Moving(v) = M(sx, sy)
  BY <1>1, <1>2, <1>3
<1>5. ASSUME NEW m \in FacingNormals(sx, sy), ~Faces(gx, gy, m)
      PROVE  M(gx, gy) + 1 <= M(sx, sy)
  <2>1. m \in Normals /\ m.x * sx + m.y * sy < 0 /\ ~(m.x * gx + m.y * gy < 0)
    BY <1>5 DEF FacingNormals, Faces
  <2>2. ~(gx = sx /\ gy = sy)
    BY <2>1
  <2> QED BY <2>2
<1> QED BY <1>4, <1>5

\* So it preserves the invariant: the player stays within the gap, the way it made is
\* within a millisecond of its time, and if time is left it lost the speed on an axis.
LEMMA RoundPreserves ==
  ASSUME PhysicsInv, Round
  PROVE  PhysicsInv'
<1>1. PICK s, sx, sy, fx, fy, gx, gy, n, rem, time, nt, td :
        RoundIs(s, sx, sy, fx, fy, gx, gy, n, rem, time, nt, td)
  BY RoundComesTo
<1> DEFINE pn == passedTime.n
           pd == passedTime.d
           pn2 == pn * td + rem * nt
           pd2 == pd * td
<1>2. /\ deltaTime' = deltaTime /\ from' = from /\ asked' = asked
      /\ iterations' = iterations + 1 /\ stepping' \in BOOLEAN
  BY DEF Round, PhysicsInv
<1>3. pn \in Nat /\ pd \in Nat \ {0} /\ iterations \in 0 .. 3
  BY DEF PhysicsInv
<1>4. /\ Goes(vel, s, sx, sy)
      /\ fx \in {sx, 0} /\ fy \in {sy, 0} /\ gx \in {fx, 0} /\ gy \in {fy, 0}
      /\ n \in Nat /\ rem \in Nat /\ time \in Nat /\ nt \in Nat /\ td \in Nat \ {0} /\ nt <= td
      /\ time * pd <= rem /\ rem < time * pd + pd
      /\ rem = deltaTime * pd - pn
      /\ n * td = (s * time) * nt
      /\ pos' = Plus(pos, Vector(fx * n, fy * n)) /\ InRoom(pos')
      /\ vel' = Vector(gx * s, gy * s)
      /\ passedTime' = [n |-> pn2, d |-> pd2]
      /\ nt = td \/ \E m \in FacingNormals(sx, sy) : ~Faces(gx, gy, m)
  BY <1>1 DEF RoundIs
<1>5. s \in Nat \ {0} /\ sx \in Signs /\ sy \in Signs /\ vel = Vector(sx * s, sy * s)
  BY <1>4 DEF Goes
<1>6. fx \in Signs /\ fy \in Signs /\ gx \in {sx, 0} /\ gy \in {sy, 0}
  BY <1>4, <1>5 DEF Signs
<1>7. pn2 \in Nat /\ pd2 \in Nat \ {0}
  BY <1>3, <1>4
<1>8. vel' \in Velocities /\ Moving(vel') \in 0 .. 2 /\ Moving(vel) \in 0 .. 2
  BY <1>4, <1>6, Slowed, LostSpeed DEF PhysicsInv
<1>9. pn < deltaTime * pd
  BY DEF Round, TimeLeft
<1>10. iterations + Moving(vel) <= 2
  BY <1>9 DEF PhysicsInv
<1>11. iterations' \in 0 .. 3
  BY <1>2, <1>3, <1>8, <1>10
<1>12. pn2 < deltaTime * pd2 => iterations' + Moving(vel') <= 2
  <2>1. CASE nt = td
    <3>1. deltaTime \in Nat
      BY PhysicsAssumption DEF PhysicsInv
    <3> DEFINE all == deltaTime * pd
    <3>2. all \in Nat /\ rem = all - pn /\ deltaTime * pd2 = all * td
      BY <1>3, <1>4, <3>1
    <3> HIDE DEF all, pn, pd
    <3>3. (pn + rem) * td = pn * td + rem * td
      BY <1>3, <1>4
    <3>4. pn + rem = all
      BY <1>3, <3>2
    <3>5. pn2 = all * td /\ all * td \in Int
      BY <1>4, <2>1, <3>2, <3>3, <3>4
    <3> HIDE DEF pn2, pd2
    <3> QED BY <3>2, <3>5
  <2>2. CASE \E m \in FacingNormals(sx, sy) : ~Faces(gx, gy, m)
    <3>1. Moving(vel') + 1 <= Moving(vel)
      BY <1>4, <1>6, <2>2, LostSpeed
    <3> QED BY <1>2, <1>3, <1>8, <1>10, <3>1
  <2> QED BY <1>4, <2>1, <2>2
<1>13. /\ AxisInv(pos.x, from.x, asked.x, vel.x, pn, pd, iterations)
       /\ AxisInv(pos.y, from.y, asked.y, vel.y, pn, pd, iterations)
       /\ iterations = 0 => pn = 0 /\ pd = 1
  BY DEF PhysicsInv
<1>14. /\ pos'.x = pos.x + fx * n /\ pos'.y = pos.y + fy * n
       /\ vel'.x = gx * s /\ vel'.y = gy * s
       /\ vel.x = sx * s /\ vel.y = sy * s
       /\ passedTime'.n = pn2 /\ passedTime'.d = pd2
  BY <1>4, <1>5 DEF Plus, Vector
<1>15. 0 * s = 0
  BY <1>5
<1>16. /\ fx * s \in {vel.x, 0} /\ fy * s \in {vel.y, 0}
       /\ gx * s \in {fx * s, 0} /\ gy * s \in {fy * s, 0}
  BY <1>4, <1>14, <1>15
<1>17. iterations \in Nat
  BY <1>3
<1>18. AxisInv(pos.x + fx * n, from.x, asked.x, gx * s, pn2, pd2, iterations + 1)
  <2> HIDE DEF pn, pd
  <2>1. AxisStep(vel.x, gx * s, pd, s, fx, n, rem, time, nt, td)
    BY <1>4, <1>5, <1>6, <1>16 DEF AxisStep
  <2> QED BY <1>3, <1>13, <1>17, <2>1, AxisRound
<1>19. AxisInv(pos.y + fy * n, from.y, asked.y, gy * s, pn2, pd2, iterations + 1)
  <2> HIDE DEF pn, pd
  <2>1. AxisStep(vel.y, gy * s, pd, s, fy, n, rem, time, nt, td)
    BY <1>4, <1>5, <1>6, <1>16 DEF AxisStep
  <2> QED BY <1>3, <1>13, <1>17, <2>1, AxisRound
<1> HIDE DEF pn2, pd2, pn, pd
<1>20. /\ AxisInv(pos'.x, from'.x, asked'.x, vel'.x, passedTime'.n, passedTime'.d, iterations')
       /\ AxisInv(pos'.y, from'.y, asked'.y, vel'.y, passedTime'.n, passedTime'.d, iterations')
  BY <1>2, <1>14, <1>18, <1>19
<1>21. passedTime' \in [n : Nat, d : Nat \ {0}]
  BY <1>4, <1>7
<1>22. InRoom(from') /\ asked' \in Velocities /\ deltaTime' \in FrameTimes \cup {0}
  BY <1>2 DEF PhysicsInv, InRoom
<1>23. iterations' # 0
  BY <1>2, <1>3
<1>24. passedTime'.n < deltaTime' * passedTime'.d => iterations' + Moving(vel') <= 2
  BY <1>2, <1>12, <1>14
<1>25. stepping' \in BOOLEAN
  BY <1>2
<1>26. InRoom(pos') /\ InRoom(pos)' /\ InRoom(from)' /\ (Moving(vel))' = Moving(vel')
  BY <1>4, <1>22 DEF InRoom, Moving
<1>27. /\ AxisInv(pos.x, from.x, asked.x, vel.x, passedTime.n, passedTime.d, iterations)'
       /\ AxisInv(pos.y, from.y, asked.y, vel.y, passedTime.n, passedTime.d, iterations)'
  BY <1>20 DEF AxisInv
<1> QED BY <1>8, <1>11, <1>21, <1>22, <1>23, <1>24, <1>25, <1>26, <1>27 DEF PhysicsInv

\* Every step preserves the invariant.
LEMMA NextPreserves ==
  PhysicsInv /\ [Next]_vars => PhysicsInv'
<1> SUFFICES ASSUME PhysicsInv, [Next]_vars PROVE PhysicsInv'
  OBVIOUS
<1>1. CASE BeginFrame
  BY <1>1, BeginFramePreserves
<1>2. CASE Round
  BY <1>2, RoundPreserves
<1>3. CASE EndFrame
  <2>1. stepping' \in BOOLEAN
    BY <1>3 DEF EndFrame
  <2> QED BY <1>3, <2>1, EndFramePreserves DEF EndFrame
<1>4. CASE UNCHANGED vars
  <2>1. stepping' \in BOOLEAN
    BY <1>4 DEF vars, PhysicsInv
  <2> QED BY <1>4, <2>1, EndFramePreserves DEF vars
<1> QED BY <1>1, <1>2, <1>3, <1>4 DEF Next

\* So it holds in every frame.
LEMMA SpecPhysicsInv ==
  Spec => []PhysicsInv
<1>1. Init => PhysicsInv
  BY InitPhysicsInv
<1>2. PhysicsInv /\ [Next]_vars => PhysicsInv'
  BY NextPreserves
<1> QED BY <1>1, <1>2, PTL DEF Spec

\* The variables have their types, and a frame never takes more than three rounds of
\* physics_step, far from the cap of its loop: each round that does not use up the time
\* costs the player its speed on an axis.
THEOREM SpecTypeOK ==
  Spec => []TypeOK
<1>1. PhysicsInv => TypeOK
  <2> SUFFICES ASSUME PhysicsInv PROVE TypeOK
    OBVIOUS
  <2>1. /\ pos.x \in Int /\ pos.y \in Int /\ from.x \in Int /\ from.y \in Int
        /\ InRoom(pos) /\ InRoom(from)
    BY DEF PhysicsInv, InRoom, Vectors
  <2>2. Room.left = HalfTile /\ Room.right = Far - HalfTile
    BY DEF Room, HalfTile, Far
  <2>3. \A i \in Int : HalfTile <= i - HalfPlayer /\ i + HalfPlayer <= Far - HalfTile
          => i \in Room.left .. Room.right
    BY <2>2, Sizes
  <2>4. {pos.x, pos.y, from.x, from.y} \subseteq Room.left .. Room.right
    BY <2>1, <2>3 DEF InRoom
  <2>5. {vel, asked} \subseteq Velocities
    BY DEF PhysicsInv
  <2>6. passedTime.n \in Nat /\ passedTime.d \in Nat \ {0}
    BY DEF PhysicsInv
  <2> QED BY <2>4, <2>5, <2>6 DEF TypeOK, PhysicsInv, Velocities
<1> QED BY <1>1, SpecPhysicsInv, PTL

\* physics_step never takes the player into a wall or out of the room, in a corner or
\* along a wall, whatever keys are held and however long the frames are.
THEOREM SpecStaysInRoom ==
  Spec => []StaysInRoom
<1>1. PhysicsInv => StaysInRoom
  <2> SUFFICES ASSUME PhysicsInv PROVE StaysInRoom
    OBVIOUS
  <2>1. InRoom(pos)
    BY DEF PhysicsInv
  <2>2. /\ Room.left = HalfTile /\ Room.right = Far - HalfTile
        /\ Room.down = HalfTile /\ Room.up = Far - HalfTile
    BY DEF Room, HalfTile, Far
  <2>3. StaysInRoom <=> /\ Room.left <= Player.left /\ Player.right <= Room.right
                        /\ Room.down <= Player.down /\ Player.up <= Room.up
    BY DEF StaysInRoom, Player
  <2> QED BY <2>1, <2>2, <2>3, PlayerBox, Sizes DEF InRoom
<1> QED BY <1>1, SpecPhysicsInv, PTL

\* physics_step never takes the player further than its speed allows, and where it still
\* moves not less than a millisecond behind for each round after the first.
THEOREM SpecKeepsTime ==
  Spec => []KeepsTime
<1>1. PhysicsInv => KeepsTime
  <2> SUFFICES ASSUME PhysicsInv, NEW axis \in {"x", "y"}
               PROVE  LET moved == Abs(pos[axis] - from[axis]) * passedTime.d
                          due == Abs(asked[axis]) * passedTime.n
                          cut == Abs(asked[axis]) * passedTime.d * (iterations - 1)
                      IN /\ moved <= due
                         /\ vel[axis] # 0 /\ iterations > 0 => moved >= due - cut
    BY DEF KeepsTime
  <2>1. CASE axis = "x"
    <3>1. AxisInv(pos.x, from.x, asked.x, vel.x, passedTime.n, passedTime.d, iterations)
      BY DEF PhysicsInv
    <3> QED BY <2>1, <3>1 DEF AxisInv
  <2>2. CASE axis = "y"
    <3>1. AxisInv(pos.y, from.y, asked.y, vel.y, passedTime.n, passedTime.d, iterations)
      BY DEF PhysicsInv
    <3> QED BY <2>2, <3>1 DEF AxisInv
  <2> QED BY <2>1, <2>2
<1> QED BY <1>1, SpecPhysicsInv, PTL

-----------------------------------------------------------------------------
(***************************************************************************)
(* Shots.                                                                  *)
(***************************************************************************)

HalfBullet == BulletSize \div 2
Bullet == Bounds(pos, BulletSize)

\* A bullet starts in the middle of the player, whose box is the larger one.
LEMMA BulletBox ==
  ASSUME pos \in Vectors
  PROVE  /\ IsBox(Bullet) /\ HalfBullet \in Nat \ {0} /\ HalfBullet < HalfPlayer
         /\ BulletSize = 2 * HalfBullet
         /\ Bullet.left = pos.x - HalfBullet /\ Bullet.right = pos.x + HalfBullet
         /\ Bullet.down = pos.y - HalfBullet /\ Bullet.up = pos.y + HalfBullet
<1>1. pos.x \in Int /\ pos.y \in Int
  BY DEF Vectors
<1>2. Bullet = [up   |-> pos.y + HalfBullet, down  |-> pos.y - HalfBullet,
                left |-> pos.x - HalfBullet, right |-> pos.x + HalfBullet]
  BY DEF Bullet, Bounds, HalfBullet
<1>3. BulletSize \in Nat \ {0} /\ BulletSize % 2 = 0 /\ BulletSize < PlayerSize
  BY PhysicsAssumption
<1>4. HalfBullet \in Nat \ {0} /\ BulletSize = 2 * HalfBullet /\ HalfBullet < HalfPlayer
  BY <1>3, Sizes DEF HalfBullet
<1> QED BY <1>1, <1>2, <1>4 DEF IsBox

\* The player is around its bullet, so that for each side it meets there is one that
\* it met as long ago.
LEMMA Mirrored ==
  ASSUME pos \in Vectors, NEW rel \in Vectors, NEW s \in Contacts(Player, Bullet, rel)
  PROVE  /\ s.toi.n \in Int /\ s.toi.d \in Nat \ {0} /\ s.toi.n # 0
         /\ \E u \in Contacts(Player, Bullet, rel) : u.toi = [n |-> -s.toi.n, d |-> s.toi.d]
<1> DEFINE g == HalfPlayer + HalfBullet
           n == s.toi.n
           d == s.toi.d
           back == [n |-> -n, d |-> d]
<1>1. /\ g \in Nat \ {0} /\ rel.x \in Int /\ rel.y \in Int
      /\ Bullet.right - Player.left = g /\ Bullet.left - Player.right = -g
      /\ Bullet.up - Player.down = g /\ Bullet.down - Player.up = -g
  BY PlayerBox, BulletBox, Sizes DEF Vectors
<1> HIDE DEF g
<1>2. /\ Right(Player, Bullet, rel).toi = Ratio(g, rel.x)
      /\ Left(Player, Bullet, rel).toi = Ratio(-g, rel.x)
      /\ Upper(Player, Bullet, rel).toi = Ratio(g, rel.y)
      /\ Lower(Player, Bullet, rel).toi = Ratio(-g, rel.y)
  BY <1>1 DEF Right, Left, Upper, Lower
<1>3. ASSUME NEW q \in Int, q # 0
      PROVE  /\ Ratio(g, q).n \in Int /\ Ratio(g, q).d \in Nat \ {0} /\ Ratio(g, q).n # 0
             /\ Ratio(-g, q).n \in Int /\ Ratio(-g, q).d \in Nat \ {0} /\ Ratio(-g, q).n # 0
             /\ Ratio(-g, q) = [n |-> -Ratio(g, q).n, d |-> Ratio(g, q).d]
             /\ Ratio(g, q) = [n |-> -Ratio(-g, q).n, d |-> Ratio(-g, q).d]
  BY <1>1, <1>3 DEF Ratio
<1>4. ASSUME n \in Int, d \in Nat \ {0}
      PROVE  /\ YOverlapsAt(Player, Bullet, rel, s.toi) => YOverlapsAt(Player, Bullet, rel, back)
             /\ XOverlapsAt(Player, Bullet, rel, s.toi) => XOverlapsAt(Player, Bullet, rel, back)
  <2>1. ASSUME NEW lo \in Int, NEW hi \in Int, NEW lo2 \in Int, NEW hi2 \in Int, NEW r \in Int,
               lo2 - hi = -g, hi2 - lo = g,
               lo * d + n * r < hi2 * d, hi * d + n * r > lo2 * d
        PROVE  lo * d + (-n) * r < hi2 * d /\ hi * d + (-n) * r > lo2 * d
    <3>1. hi2 * d = lo * d + g * d /\ lo2 * d = hi * d - g * d
      <4>1. hi2 = lo + g /\ lo2 = hi - g
        BY <1>1, <2>1
      <4> QED BY <1>1, <1>4, <4>1
    <3>2. (-n) * r = -(n * r)
      BY <1>4
    <3>3. lo * d \in Int /\ hi * d \in Int /\ g * d \in Int /\ n * r \in Int
      BY <1>1, <1>4
    <3> DEFINE a == lo * d
               b == hi * d
               e == g * d
               m == n * r
    <3>4. a + m < a + e /\ b + m > b - e
      BY <2>1, <3>1
    <3>5. a \in Int /\ b \in Int /\ e \in Int /\ m \in Int
      BY <3>3
    <3>6. hi2 * d = a + e /\ lo2 * d = b - e /\ (-n) * r = -m
      BY <3>1, <3>2
    <3> HIDE DEF a, b, e, m
    <3>7. a + (-m) < a + e /\ b + (-m) > b - e
      BY <3>4, <3>5
    <3> QED BY <3>6, <3>7 DEF a, b
  <2>2. /\ Player.left \in Int /\ Player.right \in Int /\ Player.up \in Int /\ Player.down \in Int
        /\ Bullet.left \in Int /\ Bullet.right \in Int /\ Bullet.up \in Int /\ Bullet.down \in Int
    BY PlayerBox, BulletBox, BoxFacts
  <2> HIDE DEF n, d
  <2>3. back.n = -n /\ back.d = d
    OBVIOUS
  <2>4. YOverlapsAt(Player, Bullet, rel, s.toi) => YOverlapsAt(Player, Bullet, rel, back)
    <3> SUFFICES ASSUME YOverlapsAt(Player, Bullet, rel, s.toi)
                 PROVE  YOverlapsAt(Player, Bullet, rel, back)
      OBVIOUS
    <3>1. /\ Player.down * d + n * rel.y < Bullet.up * d
          /\ Player.up * d + n * rel.y > Bullet.down * d
      BY DEF YOverlapsAt, n, d
    <3>2. /\ Player.down * d + (-n) * rel.y < Bullet.up * d
          /\ Player.up * d + (-n) * rel.y > Bullet.down * d
      BY <1>1, <2>1, <2>2, <3>1
    <3> QED BY <2>3, <3>2 DEF YOverlapsAt
  <2>5. XOverlapsAt(Player, Bullet, rel, s.toi) => XOverlapsAt(Player, Bullet, rel, back)
    <3> SUFFICES ASSUME XOverlapsAt(Player, Bullet, rel, s.toi)
                 PROVE  XOverlapsAt(Player, Bullet, rel, back)
      OBVIOUS
    <3>1. /\ Player.left * d + n * rel.x < Bullet.right * d
          /\ Player.right * d + n * rel.x > Bullet.left * d
      BY DEF XOverlapsAt, n, d
    <3>2. /\ Player.left * d + (-n) * rel.x < Bullet.right * d
          /\ Player.right * d + (-n) * rel.x > Bullet.left * d
      BY <1>1, <2>1, <2>2, <3>1
    <3> QED BY <2>3, <3>2 DEF XOverlapsAt
  <2> QED BY <2>4, <2>5
<1>5. CASE /\ rel.x # 0 /\ s \in {Right(Player, Bullet, rel), Left(Player, Bullet, rel)}
           /\ YOverlapsAt(Player, Bullet, rel, s.toi)
  <2>1. n \in Int /\ d \in Nat \ {0} /\ n # 0
    <3>1. s.toi = Ratio(g, rel.x) \/ s.toi = Ratio(-g, rel.x)
      BY <1>2, <1>5
    <3> QED BY <1>1, <1>3, <1>5, <3>1
  <2>2. \E u \in {Right(Player, Bullet, rel), Left(Player, Bullet, rel)} : u.toi = back
    BY <1>1, <1>2, <1>3, <1>5
  <2>3. PICK u \in {Right(Player, Bullet, rel), Left(Player, Bullet, rel)} : u.toi = back
    BY <2>2
  <2>4. YOverlapsAt(Player, Bullet, rel, u.toi)
    BY <1>4, <1>5, <2>1, <2>3
  <2>5. u \in Contacts(Player, Bullet, rel)
    BY <1>5, <2>3, <2>4, SidesMeet
  <2> QED BY <2>1, <2>3, <2>5
<1>6. CASE /\ rel.y # 0 /\ s \in {Upper(Player, Bullet, rel), Lower(Player, Bullet, rel)}
           /\ XOverlapsAt(Player, Bullet, rel, s.toi)
  <2>1. n \in Int /\ d \in Nat \ {0} /\ n # 0
    <3>1. s.toi = Ratio(g, rel.y) \/ s.toi = Ratio(-g, rel.y)
      BY <1>2, <1>6
    <3> QED BY <1>1, <1>3, <1>6, <3>1
  <2>2. \E u \in {Upper(Player, Bullet, rel), Lower(Player, Bullet, rel)} : u.toi = back
    BY <1>1, <1>2, <1>3, <1>6
  <2>3. PICK u \in {Upper(Player, Bullet, rel), Lower(Player, Bullet, rel)} : u.toi = back
    BY <2>2
  <2>4. XOverlapsAt(Player, Bullet, rel, u.toi)
    BY <1>4, <1>6, <2>1, <2>3
  <2>5. u \in Contacts(Player, Bullet, rel)
    BY <1>6, <2>3, <2>4, SidesMeet
  <2> QED BY <2>1, <2>3, <2>5
<1> QED BY <1>5, <1>6, ContactsAre

\* So the first contact is in the past, and none comes of it.
LEMMA PassesPlayer ==
  ASSUME pos \in Vectors, NEW rel \in Vectors
  PROVE  LET c == CheckAABBCollision(Player, Bullet, rel) IN
         ~IsValidToi(c.toi) /\ ~Touches(c.toi)
<1> DEFINE C == Contacts(Player, Bullet, rel)
           f == First(C)
<1>1. CheckAABBCollision(Player, Bullet, rel).toi = f
  BY DEF CheckAABBCollision
<1>2. /\ f = Never \/ \E s \in C : f = s.toi
      /\ \A s \in C : ~Before(s.toi, f)
  BY PlayerBox, BulletBox, FirstIsLeast
<1>3. ASSUME NEW s \in C, f = s.toi PROVE ~IsValidToi(f) /\ ~Touches(f)
  <2>1. /\ s.toi.n \in Int /\ s.toi.d \in Nat \ {0} /\ s.toi.n # 0
        /\ \E u \in C : u.toi = [n |-> -s.toi.n, d |-> s.toi.d]
    BY Mirrored
  <2>2. PICK u \in C : u.toi = [n |-> -s.toi.n, d |-> s.toi.d]
    BY <2>1
  <2> DEFINE n == s.toi.n
             d == s.toi.d
  <2>3. ~((-n) * d < n * d)
    BY <1>2, <1>3, <2>2 DEF Before
  <2>4. n \in Int /\ d \in Nat \ {0} /\ n # 0
    BY <2>1
  <2>5. f.n = n
    BY <1>3
  <2> HIDE DEF n, d, f
  <2>6. -n \in Int
    BY <2>4
  <2>7. ~(-n < n)
    BY <2>3, <2>4, <2>6, Cancel
  <2> QED BY <2>4, <2>5, <2>7 DEF IsValidToi, Touches
<1> QED BY <1>1, <1>2, <1>3, NeverIs

\* What is not after u is before what u is before.
LEMMA OrderTrans ==
  ASSUME NEW s \in Ratios, NEW t \in Ratios, NEW u \in Ratios, ~Before(u, s), Before(u, t)
  PROVE  Before(s, t)
<1>1. /\ s.n \in Int /\ t.n \in Int /\ u.n \in Int
      /\ s.d \in Nat \ {0} /\ t.d \in Nat \ {0} /\ u.d \in Nat \ {0}
  BY DEF Ratios
<1> DEFINE a == s.n * t.d
           b == t.n * s.d
           c == s.n * u.d
           e == u.n * s.d
           f == u.n * t.d
           h == t.n * u.d
<1>2. /\ a \in Int /\ b \in Int /\ c \in Int /\ e \in Int /\ f \in Int /\ h \in Int
      /\ a * u.d = c * t.d /\ e * t.d = f * s.d /\ b * u.d = h * s.d
  BY <1>1
<1>3. c <= e /\ f < h
  <2>1. ~(e < c) /\ f < h
    BY DEF Before
  <2> HIDE DEF a, b, c, e, f, h
  <2> QED BY <1>2, <2>1
<1> HIDE DEF a, b, c, e, f, h
<1>4. c * t.d <= e * t.d
  BY <1>1, <1>2, <1>3
<1>5. f * s.d < h * s.d
  BY <1>1, <1>2, <1>3, Cancel
<1>6. c * t.d \in Int /\ e * t.d \in Int /\ h * s.d \in Int
  BY <1>1, <1>2
<1>7. a * u.d < b * u.d
  BY <1>2, <1>4, <1>5, <1>6
<1>8. a < b
  BY <1>1, <1>2, <1>7, Cancel
<1> QED BY <1>8 DEF Before, a, b

\* A toi of g / q, before t.
LEMMA EarlyToi ==
  ASSUME NEW u \in Ratios, NEW t \in Ratios, t.n <= t.d, NEW g \in Nat \ {0}, NEW q \in Nat \ {0},
         SameAs(u, [n |-> g, d |-> q]), g * t.d < t.n * q
  PROVE  g < q /\ IsValidToi(u) /\ Before(u, t)
<1>1. u.n \in Int /\ u.d \in Nat \ {0} /\ t.n \in Int /\ t.d \in Nat \ {0}
  BY DEF Ratios
<1>2. u.n * q = g * u.d
  BY DEF SameAs
<1>3. g < q
  <2>1. t.n * q <= t.d * q
    BY <1>1
  <2>2. g * t.d \in Int /\ t.n * q \in Int /\ t.d * q = q * t.d /\ q * t.d \in Int
    BY <1>1
  <2>3. g * t.d < q * t.d
    BY <2>1, <2>2
  <2> QED BY <1>1, <2>3, Cancel
<1>4. 0 < u.n
  <2>1. g * u.d > 0
    BY <1>1
  <2>2. 0 * q < u.n * q
    BY <1>1, <1>2, <2>1
  <2> QED BY <1>1, <2>2, Cancel
<1>5. u.n <= u.d
  <2>1. g * u.d < q * u.d
    BY <1>1, <1>3, Cancel
  <2>2. u.n * q < u.d * q
    BY <1>1, <1>2, <2>1
  <2> QED BY <1>1, <2>2, Cancel
<1>6. Before(u, t)
  <2>1. (g * t.d) * u.d < (t.n * q) * u.d
    BY <1>1, Cancel
  <2>2. (g * t.d) * u.d = (g * u.d) * t.d /\ (u.n * q) * t.d = (u.n * t.d) * q
        /\ (t.n * q) * u.d = (t.n * u.d) * q
    BY <1>1
  <2>3. (u.n * t.d) * q < (t.n * u.d) * q
    BY <1>2, <2>1, <2>2
  <2>4. u.n * t.d \in Int /\ t.n * u.d \in Int
    BY <1>1
  <2>5. u.n * t.d < t.n * u.d
    BY <2>3, <2>4, Cancel
  <2> QED BY <2>5 DEF Before
<1> QED BY <1>3, <1>4, <1>5, <1>6 DEF IsValidToi

\* A row of tiles level with a bullet that is in the room, at a time of which d is the
\* denominator; low is d times the bullet's lower end.
LEMMA LevelTileAt ==
  ASSUME NEW low \in Int, NEW high \in Int, NEW d \in Nat \ {0},
         low < high, HalfTile * d <= low, high <= (Far - HalfTile) * d
  PROVE  \E r \in 0 .. Side - 1 :
           /\ r * TileSize \in Int
           /\ low < (r * TileSize + HalfTile) * d /\ high > (r * TileSize - HalfTile) * d
<1> DEFINE h == HalfTile * d
           td == TileSize * d
           a == low + h
           r == a \div td
           m == a % td
<1>1. h \in Nat /\ td \in Nat \ {0} /\ td = 2 * h /\ a \in Int
  BY Sizes, RoomNumbers
<1>2. r \in Int /\ m \in 0 .. td - 1 /\ a = td * r + m
  <2> HIDE DEF a, td
  <2> QED BY <1>1, DivMod
<1> HIDE DEF td, r, m
<1>3. td * r \in Int /\ td * r - h <= low /\ low < td * r + h
  <2> DEFINE p == td * r
  <2>1. p \in Int
    BY <1>1, <1>2
  <2>2. low + h = p + m
    BY <1>2
  <2> HIDE DEF p, h
  <2>3. p - h <= low /\ low < p + h
    BY <1>1, <1>2, <2>1, <2>2
  <2> QED BY <2>1, <2>3 DEF p
<1>4. r * TileSize \in Int /\ (r * TileSize) * d = td * r
  BY <1>2, RoomNumbers DEF td
<1>5. /\ (r * TileSize + HalfTile) * d = td * r + h
      /\ (r * TileSize - HalfTile) * d = td * r - h
  <2> DEFINE p == r * TileSize
  <2>1. p \in Int /\ HalfTile \in Int
    BY <1>4, Sizes
  <2> HIDE DEF p
  <2>2. (p + HalfTile) * d = p * d + HalfTile * d /\ (p - HalfTile) * d = p * d - HalfTile * d
    BY <2>1
  <2> QED BY <1>4, <2>2 DEF p
<1>6. r >= 0
  <2> SUFFICES ASSUME r < 0 PROVE FALSE
    BY <1>2
  <2>1. td * r <= -td
    BY <1>1, <1>2
  <2> DEFINE p == td * r
  <2>2. p <= -td /\ p \in Int /\ low < p + h /\ h <= low
    BY <1>3, <2>1
  <2> HIDE DEF p, h
  <2> QED BY <1>1, <2>2
<1>7. r <= Side - 1
  <2> SUFFICES ASSUME r >= Side PROVE FALSE
    BY <1>2, RoomNumbers
  <2>1. td * r >= td * Side
    BY <1>1, <1>2, RoomNumbers
  <2>2. td * Side = Far * d + td
    BY RoomNumbers DEF td, Far
  <2>3. (Far - HalfTile) * d = Far * d - h
    BY Sizes
  <2> DEFINE p == td * r
             f == Far * d
  <2>4. f \in Int /\ p \in Int /\ p >= f + td /\ high <= f - h /\ p - h <= low
    <3>1. f \in Int
      BY Sizes
    <3> QED BY <1>3, <2>1, <2>2, <2>3, <3>1
  <2> HIDE DEF p, f, h
  <2> QED BY <1>1, <2>4
<1>8. r \in 0 .. Side - 1
  BY <1>2, <1>6, <1>7, RoomNumbers
<1>9. low < td * r + h /\ high > td * r - h
  <2> DEFINE p == td * r
  <2>1. p \in Int /\ p - h <= low /\ low < p + h
    BY <1>3
  <2> HIDE DEF p, h
  <2>2. low < p + h /\ high > p - h
    BY <1>1, <2>1
  <2> QED BY <2>2 DEF p
<1> QED BY <1>4, <1>5, <1>8, <1>9

\* How far the room reaches from a bullet that starts, and how fast it gets there, in
\* the direction against a normal.
Reach(m) ==
  CASE m = VEC_RIGHT -> Bullet.left - HalfTile
    [] m = VEC_LEFT  -> Far - HalfTile - Bullet.right
    [] m = VEC_UP    -> Bullet.down - HalfTile
    [] m = VEC_DOWN  -> Far - HalfTile - Bullet.up
Towards(way, m) ==
  CASE m = VEC_RIGHT -> -way.x
    [] m = VEC_LEFT  -> way.x
    [] m = VEC_UP    -> -way.y
    [] m = VEC_DOWN  -> way.y

\* They are positive numbers, and integers.
LEMMA ReachIs ==
  ASSUME InRoom(pos), NEW way \in Vectors
  PROVE  /\ Reach(VEC_RIGHT) = Bullet.left - HalfTile
         /\ Reach(VEC_LEFT) = Far - HalfTile - Bullet.right
         /\ Reach(VEC_UP) = Bullet.down - HalfTile
         /\ Reach(VEC_DOWN) = Far - HalfTile - Bullet.up
         /\ Towards(way, VEC_RIGHT) = -way.x /\ Towards(way, VEC_LEFT) = way.x
         /\ Towards(way, VEC_UP) = -way.y /\ Towards(way, VEC_DOWN) = way.y
         /\ way.x \in Int /\ way.y \in Int
         /\ \A m \in Normals : Reach(m) \in Nat \ {0} /\ Towards(way, m) \in Int
<1>1. /\ Reach(VEC_RIGHT) = Bullet.left - HalfTile
      /\ Reach(VEC_LEFT) = Far - HalfTile - Bullet.right
      /\ Reach(VEC_UP) = Bullet.down - HalfTile
      /\ Reach(VEC_DOWN) = Far - HalfTile - Bullet.up
  BY NormalsDiffer DEF Reach
<1>2. /\ Towards(way, VEC_RIGHT) = -way.x /\ Towards(way, VEC_LEFT) = way.x
      /\ Towards(way, VEC_UP) = -way.y /\ Towards(way, VEC_DOWN) = way.y
  BY NormalsDiffer DEF Towards
<1>3. way.x \in Int /\ way.y \in Int /\ pos.x \in Int /\ pos.y \in Int /\ pos \in Vectors
  BY DEF InRoom, Vectors
<1>4. /\ Reach(VEC_RIGHT) \in Nat \ {0} /\ Reach(VEC_LEFT) \in Nat \ {0}
      /\ Reach(VEC_UP) \in Nat \ {0} /\ Reach(VEC_DOWN) \in Nat \ {0}
  BY <1>1, <1>3, BulletBox, Sizes DEF InRoom
<1> QED BY <1>1, <1>2, <1>3, <1>4 DEF Normals

\* The toi of a bullet on a wall.
WallToi(way, k) == CheckAABBCollision(Bullet, WallBounds(k), way).toi

\* A bullet hits the first side of the room that it gets to, then.
LEMMA HitsFirstSide ==
  ASSUME InRoom(pos), NEW way \in Vectors, NEW t \in Ratios, t.n <= t.d,
         NEW m \in Normals, Towards(way, m) > 0,
         Reach(m) * t.d < t.n * Towards(way, m),
         \A o \in Normals : Reach(m) * Towards(way, o) <= Reach(o) * Towards(way, m)
  PROVE  \E k \in Walls : /\ WallToi(way, k) \in Ratios
                          /\ IsValidToi(WallToi(way, k)) /\ Before(WallToi(way, k), t)
<1> DEFINE g == Reach(m)
           q == Towards(way, m)
<1>1. g \in Nat \ {0} /\ q \in Nat \ {0} /\ way.x \in Int /\ way.y \in Int
  BY ReachIs
<1>2. /\ VEC_RIGHT \in Normals /\ VEC_LEFT \in Normals /\ VEC_UP \in Normals /\ VEC_DOWN \in Normals
  BY DEF Normals
<1>3. g < q
  <2>1. t.n \in Int /\ t.d \in Nat \ {0}
    BY DEF Ratios
  <2>2. g * t.d < t.n * q
    OBVIOUS
  <2> HIDE DEF g, q
  <2>3. t.n * q <= t.d * q
    BY <1>1, <2>1
  <2>4. g * t.d \in Int /\ t.n * q \in Int /\ t.d * q = q * t.d /\ q * t.d \in Int
    BY <1>1, <2>1
  <2>5. g * t.d < q * t.d
    BY <2>2, <2>3, <2>4
  <2> QED BY <1>1, <2>1, <2>5, Cancel
<1>4. ASSUME NEW k \in Walls, NEW u, u = WallToi(way, k), u \in Ratios,
             SameAs(u, [n |-> g, d |-> q])
      PROVE  IsValidToi(u) /\ Before(u, t)
  <2>1. g * t.d < t.n * q
    OBVIOUS
  <2> HIDE DEF g, q
  <2> QED BY <1>1, <1>4, <2>1, EarlyToi
<1>5. \A k : WallToi(way, k) = First(Contacts(Bullet, WallBounds(k), way))
  BY DEF WallToi, CheckAABBCollision
<1>6. 0 \in 0 .. Side - 1 /\ Side - 1 \in 0 .. Side - 1 /\ 0 \in Edge /\ Side - 1 \in Edge
  BY RoomNumbers DEF Edge
<1>7. 0 * TileSize = 0 /\ (Side - 1) * TileSize = Far
  BY RoomNumbers DEF Far
<1>8. /\ pos \in Vectors /\ IsBox(Bullet)
      /\ Bullet.left \in Int /\ Bullet.right \in Int /\ Bullet.up \in Int /\ Bullet.down \in Int
      /\ Bullet.left < Bullet.right /\ Bullet.down < Bullet.up
  BY BulletBox, BoxFacts DEF InRoom
<1>9. CASE m = VEC_RIGHT
  <2> DEFINE low == Bullet.down * q + g * way.y
             high == Bullet.up * q + g * way.y
  <2>1. q = -way.x /\ g * (-way.y) <= (Bullet.down - HalfTile) * q
        /\ g * way.y <= (Far - HalfTile - Bullet.up) * q
    <3>1. q = -way.x
      BY <1>9, ReachIs
    <3>2. g * Towards(way, VEC_UP) <= Reach(VEC_UP) * q
      BY <1>2
    <3>3. g * Towards(way, VEC_DOWN) <= Reach(VEC_DOWN) * q
      BY <1>2
    <3> HIDE DEF g, q
    <3> QED BY <3>1, <3>2, <3>3, ReachIs
  <2> HIDE DEF g, q
  <2>2. /\ low \in Int /\ high \in Int /\ low < high
        /\ HalfTile * q <= low /\ high <= (Far - HalfTile) * q
    <3> DEFINE a == Bullet.down * q
               b == Bullet.up * q
               e == g * way.y
               h == HalfTile * q
               f == (Far - HalfTile) * q
    <3>1. a \in Int /\ b \in Int /\ e \in Int /\ h \in Int /\ f \in Int
      BY <1>1, <1>8, Sizes
    <3>2. a < b
      BY <1>1, <1>8, Cancel
    <3>3. (Bullet.down - HalfTile) * q = a - h /\ g * (-way.y) = -e
      BY <1>1, <1>8, Sizes
    <3>4. (Far - HalfTile - Bullet.up) * q = f - b
      BY <1>1, <1>8, Sizes
    <3>5. -e <= a - h /\ e <= f - b
      BY <2>1, <3>3, <3>4
    <3> HIDE DEF a, b, e, h, f
    <3>6. a + e \in Int /\ b + e \in Int /\ a + e < b + e /\ h <= a + e /\ b + e <= f
      BY <3>1, <3>2, <3>5
    <3> QED BY <3>6 DEF a, b, e, h, f
  <2> HIDE DEF low, high
  <2>3. PICK r \in 0 .. Side - 1 :
          /\ r * TileSize \in Int
          /\ low < (r * TileSize + HalfTile) * q /\ high > (r * TileSize - HalfTile) * q
    BY <1>1, <2>2, LevelTileAt
  <2>4. PICK k \in 0 .. CellCount - 1 : Cell(k) = Vector(0, r)
    BY <1>6, CellAt
  <2>5. Cell(k).x = 0 /\ Cell(k).y = r /\ k \in Walls
    <3>1. Cell(k).x = 0 /\ Cell(k).y = r
      BY <2>4 DEF Vector
    <3> QED BY <1>6, <3>1 DEF Walls
  <2> DEFINE w == WallBounds(k)
  <2>6. /\ IsBox(w)
        /\ w.right = HalfTile
        /\ w.down = r * TileSize - HalfTile /\ w.up = r * TileSize + HalfTile
    BY <1>7, <2>5, TileBox, Sizes, RoomNumbers
  <2> HIDE DEF w
  <2>7. Bullet.left - w.right = g
    <3>1. g = Reach(VEC_RIGHT)
      BY <1>9 DEF g
    <3> QED BY <1>8, <2>6, <3>1, ReachIs, Sizes
  <2>8. YOverlapsAt(Bullet, w, way, [n |-> g, d |-> q])
    BY <2>3, <2>6 DEF YOverlapsAt, low, high
  <2>9. LET first == First(Contacts(Bullet, w, way)) IN
        first \in Ratios /\ SameAs(first, [n |-> g, d |-> q])
    <3>1. way.x < 0 /\ Bullet.left - w.right <= -way.x
      BY <1>1, <1>3, <2>1, <2>7
    <3>2. YOverlapsAt(Bullet, w, way, [n |-> Bullet.left - w.right, d |-> -way.x])
      BY <2>1, <2>7, <2>8
    <3>3. LET first == First(Contacts(Bullet, w, way)) IN
          first \in Ratios /\ SameAs(first, [n |-> Bullet.left - w.right, d |-> -way.x])
      BY <1>8, <2>6, <3>1, <3>2, MeetsLeft
    <3> QED BY <2>1, <2>7, <3>3
  <2>10. WallToi(way, k) \in Ratios /\ SameAs(WallToi(way, k), [n |-> g, d |-> q])
    BY <1>5, <2>9 DEF w
  <2> QED BY <1>4, <2>5, <2>10 DEF g, q
<1>10. CASE m = VEC_LEFT
  <2> DEFINE low == Bullet.down * q + g * way.y
             high == Bullet.up * q + g * way.y
  <2>1. q = way.x /\ g * (-way.y) <= (Bullet.down - HalfTile) * q
        /\ g * way.y <= (Far - HalfTile - Bullet.up) * q
    <3>1. q = way.x
      BY <1>10, ReachIs
    <3>2. g * Towards(way, VEC_UP) <= Reach(VEC_UP) * q
      BY <1>2
    <3>3. g * Towards(way, VEC_DOWN) <= Reach(VEC_DOWN) * q
      BY <1>2
    <3> HIDE DEF g, q
    <3> QED BY <3>1, <3>2, <3>3, ReachIs
  <2> HIDE DEF g, q
  <2>2. /\ low \in Int /\ high \in Int /\ low < high
        /\ HalfTile * q <= low /\ high <= (Far - HalfTile) * q
    <3> DEFINE a == Bullet.down * q
               b == Bullet.up * q
               e == g * way.y
               h == HalfTile * q
               f == (Far - HalfTile) * q
    <3>1. a \in Int /\ b \in Int /\ e \in Int /\ h \in Int /\ f \in Int
      BY <1>1, <1>8, Sizes
    <3>2. a < b
      BY <1>1, <1>8, Cancel
    <3>3. (Bullet.down - HalfTile) * q = a - h /\ g * (-way.y) = -e
      BY <1>1, <1>8, Sizes
    <3>4. (Far - HalfTile - Bullet.up) * q = f - b
      BY <1>1, <1>8, Sizes
    <3>5. -e <= a - h /\ e <= f - b
      BY <2>1, <3>3, <3>4
    <3> HIDE DEF a, b, e, h, f
    <3>6. a + e \in Int /\ b + e \in Int /\ a + e < b + e /\ h <= a + e /\ b + e <= f
      BY <3>1, <3>2, <3>5
    <3> QED BY <3>6 DEF a, b, e, h, f
  <2> HIDE DEF low, high
  <2>3. PICK r \in 0 .. Side - 1 :
          /\ r * TileSize \in Int
          /\ low < (r * TileSize + HalfTile) * q /\ high > (r * TileSize - HalfTile) * q
    BY <1>1, <2>2, LevelTileAt
  <2>4. PICK k \in 0 .. CellCount - 1 : Cell(k) = Vector(Side - 1, r)
    BY <1>6, CellAt
  <2>5. Cell(k).x = Side - 1 /\ Cell(k).y = r /\ k \in Walls
    <3>1. Cell(k).x = Side - 1 /\ Cell(k).y = r
      BY <2>4 DEF Vector
    <3> QED BY <1>6, <3>1 DEF Walls
  <2> DEFINE w == WallBounds(k)
  <2>6. /\ IsBox(w)
        /\ w.left = Far - HalfTile
        /\ w.down = r * TileSize - HalfTile /\ w.up = r * TileSize + HalfTile
    BY <1>7, <2>5, TileBox, Sizes, RoomNumbers
  <2> HIDE DEF w
  <2>7. w.left - Bullet.right = g
    <3>1. g = Reach(VEC_LEFT)
      BY <1>10 DEF g
    <3> QED BY <1>8, <2>6, <3>1, ReachIs, Sizes
  <2>8. YOverlapsAt(Bullet, w, way, [n |-> g, d |-> q])
    BY <2>3, <2>6 DEF YOverlapsAt, low, high
  <2>9. LET first == First(Contacts(Bullet, w, way)) IN
        first \in Ratios /\ SameAs(first, [n |-> g, d |-> q])
    <3>1. way.x > 0 /\ w.left - Bullet.right <= way.x
      BY <1>1, <1>3, <2>1, <2>7
    <3>2. YOverlapsAt(Bullet, w, way, [n |-> w.left - Bullet.right, d |-> way.x])
      BY <2>1, <2>7, <2>8
    <3>3. LET first == First(Contacts(Bullet, w, way)) IN
          first \in Ratios /\ SameAs(first, [n |-> w.left - Bullet.right, d |-> way.x])
      BY <1>8, <2>6, <3>1, <3>2, MeetsRight
    <3> QED BY <2>1, <2>7, <3>3
  <2>10. WallToi(way, k) \in Ratios /\ SameAs(WallToi(way, k), [n |-> g, d |-> q])
    BY <1>5, <2>9 DEF w
  <2> QED BY <1>4, <2>5, <2>10 DEF g, q
<1>11. CASE m = VEC_UP
  <2> DEFINE low == Bullet.left * q + g * way.x
             high == Bullet.right * q + g * way.x
  <2>1. q = -way.y /\ g * (-way.x) <= (Bullet.left - HalfTile) * q
        /\ g * way.x <= (Far - HalfTile - Bullet.right) * q
    <3>1. q = -way.y
      BY <1>11, ReachIs
    <3>2. g * Towards(way, VEC_RIGHT) <= Reach(VEC_RIGHT) * q
      BY <1>2
    <3>3. g * Towards(way, VEC_LEFT) <= Reach(VEC_LEFT) * q
      BY <1>2
    <3> HIDE DEF g, q
    <3> QED BY <3>1, <3>2, <3>3, ReachIs
  <2> HIDE DEF g, q
  <2>2. /\ low \in Int /\ high \in Int /\ low < high
        /\ HalfTile * q <= low /\ high <= (Far - HalfTile) * q
    <3> DEFINE a == Bullet.left * q
               b == Bullet.right * q
               e == g * way.x
               h == HalfTile * q
               f == (Far - HalfTile) * q
    <3>1. a \in Int /\ b \in Int /\ e \in Int /\ h \in Int /\ f \in Int
      BY <1>1, <1>8, Sizes
    <3>2. a < b
      BY <1>1, <1>8, Cancel
    <3>3. (Bullet.left - HalfTile) * q = a - h /\ g * (-way.x) = -e
      BY <1>1, <1>8, Sizes
    <3>4. (Far - HalfTile - Bullet.right) * q = f - b
      BY <1>1, <1>8, Sizes
    <3>5. -e <= a - h /\ e <= f - b
      BY <2>1, <3>3, <3>4
    <3> HIDE DEF a, b, e, h, f
    <3>6. a + e \in Int /\ b + e \in Int /\ a + e < b + e /\ h <= a + e /\ b + e <= f
      BY <3>1, <3>2, <3>5
    <3> QED BY <3>6 DEF a, b, e, h, f
  <2> HIDE DEF low, high
  <2>3. PICK r \in 0 .. Side - 1 :
          /\ r * TileSize \in Int
          /\ low < (r * TileSize + HalfTile) * q /\ high > (r * TileSize - HalfTile) * q
    BY <1>1, <2>2, LevelTileAt
  <2>4. PICK k \in 0 .. CellCount - 1 : Cell(k) = Vector(r, 0)
    BY <1>6, CellAt
  <2>5. Cell(k).y = 0 /\ Cell(k).x = r /\ k \in Walls
    <3>1. Cell(k).y = 0 /\ Cell(k).x = r
      BY <2>4 DEF Vector
    <3> QED BY <1>6, <3>1 DEF Walls
  <2> DEFINE w == WallBounds(k)
  <2>6. /\ IsBox(w)
        /\ w.up = HalfTile
        /\ w.left = r * TileSize - HalfTile /\ w.right = r * TileSize + HalfTile
    BY <1>7, <2>5, TileBox, Sizes, RoomNumbers
  <2> HIDE DEF w
  <2>7. Bullet.down - w.up = g
    <3>1. g = Reach(VEC_UP)
      BY <1>11 DEF g
    <3> QED BY <1>8, <2>6, <3>1, ReachIs, Sizes
  <2>8. XOverlapsAt(Bullet, w, way, [n |-> g, d |-> q])
    BY <2>3, <2>6 DEF XOverlapsAt, low, high
  <2>9. LET first == First(Contacts(Bullet, w, way)) IN
        first \in Ratios /\ SameAs(first, [n |-> g, d |-> q])
    <3>1. way.y < 0 /\ Bullet.down - w.up <= -way.y
      BY <1>1, <1>3, <2>1, <2>7
    <3>2. XOverlapsAt(Bullet, w, way, [n |-> Bullet.down - w.up, d |-> -way.y])
      BY <2>1, <2>7, <2>8
    <3>3. LET first == First(Contacts(Bullet, w, way)) IN
          first \in Ratios /\ SameAs(first, [n |-> Bullet.down - w.up, d |-> -way.y])
      BY <1>8, <2>6, <3>1, <3>2, MeetsDown
    <3> QED BY <2>1, <2>7, <3>3
  <2>10. WallToi(way, k) \in Ratios /\ SameAs(WallToi(way, k), [n |-> g, d |-> q])
    BY <1>5, <2>9 DEF w
  <2> QED BY <1>4, <2>5, <2>10 DEF g, q
<1>12. CASE m = VEC_DOWN
  <2> DEFINE low == Bullet.left * q + g * way.x
             high == Bullet.right * q + g * way.x
  <2>1. q = way.y /\ g * (-way.x) <= (Bullet.left - HalfTile) * q
        /\ g * way.x <= (Far - HalfTile - Bullet.right) * q
    <3>1. q = way.y
      BY <1>12, ReachIs
    <3>2. g * Towards(way, VEC_RIGHT) <= Reach(VEC_RIGHT) * q
      BY <1>2
    <3>3. g * Towards(way, VEC_LEFT) <= Reach(VEC_LEFT) * q
      BY <1>2
    <3> HIDE DEF g, q
    <3> QED BY <3>1, <3>2, <3>3, ReachIs
  <2> HIDE DEF g, q
  <2>2. /\ low \in Int /\ high \in Int /\ low < high
        /\ HalfTile * q <= low /\ high <= (Far - HalfTile) * q
    <3> DEFINE a == Bullet.left * q
               b == Bullet.right * q
               e == g * way.x
               h == HalfTile * q
               f == (Far - HalfTile) * q
    <3>1. a \in Int /\ b \in Int /\ e \in Int /\ h \in Int /\ f \in Int
      BY <1>1, <1>8, Sizes
    <3>2. a < b
      BY <1>1, <1>8, Cancel
    <3>3. (Bullet.left - HalfTile) * q = a - h /\ g * (-way.x) = -e
      BY <1>1, <1>8, Sizes
    <3>4. (Far - HalfTile - Bullet.right) * q = f - b
      BY <1>1, <1>8, Sizes
    <3>5. -e <= a - h /\ e <= f - b
      BY <2>1, <3>3, <3>4
    <3> HIDE DEF a, b, e, h, f
    <3>6. a + e \in Int /\ b + e \in Int /\ a + e < b + e /\ h <= a + e /\ b + e <= f
      BY <3>1, <3>2, <3>5
    <3> QED BY <3>6 DEF a, b, e, h, f
  <2> HIDE DEF low, high
  <2>3. PICK r \in 0 .. Side - 1 :
          /\ r * TileSize \in Int
          /\ low < (r * TileSize + HalfTile) * q /\ high > (r * TileSize - HalfTile) * q
    BY <1>1, <2>2, LevelTileAt
  <2>4. PICK k \in 0 .. CellCount - 1 : Cell(k) = Vector(r, Side - 1)
    BY <1>6, CellAt
  <2>5. Cell(k).y = Side - 1 /\ Cell(k).x = r /\ k \in Walls
    <3>1. Cell(k).y = Side - 1 /\ Cell(k).x = r
      BY <2>4 DEF Vector
    <3> QED BY <1>6, <3>1 DEF Walls
  <2> DEFINE w == WallBounds(k)
  <2>6. /\ IsBox(w)
        /\ w.down = Far - HalfTile
        /\ w.left = r * TileSize - HalfTile /\ w.right = r * TileSize + HalfTile
    BY <1>7, <2>5, TileBox, Sizes, RoomNumbers
  <2> HIDE DEF w
  <2>7. w.down - Bullet.up = g
    <3>1. g = Reach(VEC_DOWN)
      BY <1>12 DEF g
    <3> QED BY <1>8, <2>6, <3>1, ReachIs, Sizes
  <2>8. XOverlapsAt(Bullet, w, way, [n |-> g, d |-> q])
    BY <2>3, <2>6 DEF XOverlapsAt, low, high
  <2>9. LET first == First(Contacts(Bullet, w, way)) IN
        first \in Ratios /\ SameAs(first, [n |-> g, d |-> q])
    <3>1. way.y > 0 /\ w.down - Bullet.up <= way.y
      BY <1>1, <1>3, <2>1, <2>7
    <3>2. XOverlapsAt(Bullet, w, way, [n |-> w.down - Bullet.up, d |-> way.y])
      BY <2>1, <2>7, <2>8
    <3>3. LET first == First(Contacts(Bullet, w, way)) IN
          first \in Ratios /\ SameAs(first, [n |-> w.down - Bullet.up, d |-> way.y])
      BY <1>8, <2>6, <3>1, <3>2, MeetsUp
    <3> QED BY <2>1, <2>7, <3>3
  <2>10. WallToi(way, k) \in Ratios /\ SameAs(WallToi(way, k), [n |-> g, d |-> q])
    BY <1>5, <2>9 DEF w
  <2> QED BY <1>4, <2>5, <2>10 DEF g, q
<1> QED BY <1>9, <1>10, <1>11, <1>12 DEF Normals

\* A bullet that overlaps a wall has got past a side of the room.
LEMMA PastSide ==
  ASSUME InRoom(pos), NEW way \in Vectors, NEW t \in Ratios, NEW k \in Walls,
         XOverlapsAt(Bullet, WallBounds(k), way, t), YOverlapsAt(Bullet, WallBounds(k), way, t)
  PROVE  \E m \in Normals : Reach(m) * t.d < t.n * Towards(way, m)
<1> DEFINE w == WallBounds(k)
           n == t.n
           d == t.d
<1>1. k \in 0 .. CellCount - 1 /\ (Cell(k).x \in Edge \/ Cell(k).y \in Edge)
  BY DEF Walls
<1>2. /\ w.left = Cell(k).x * TileSize - HalfTile /\ w.right = Cell(k).x * TileSize + HalfTile
      /\ w.down = Cell(k).y * TileSize - HalfTile /\ w.up = Cell(k).y * TileSize + HalfTile
  BY <1>1, TileBox
<1>3. 0 * TileSize = 0 /\ (Side - 1) * TileSize = Far
  BY RoomNumbers DEF Far
<1>4. /\ VEC_RIGHT \in Normals /\ VEC_LEFT \in Normals /\ VEC_UP \in Normals /\ VEC_DOWN \in Normals
  BY DEF Normals
<1>5. /\ Bullet.left * d + n * way.x < w.right * d /\ Bullet.right * d + n * way.x > w.left * d
      /\ Bullet.down * d + n * way.y < w.up * d /\ Bullet.up * d + n * way.y > w.down * d
  BY DEF XOverlapsAt, YOverlapsAt
<1>6. /\ Bullet.left \in Int /\ Bullet.right \in Int /\ Bullet.up \in Int /\ Bullet.down \in Int
      /\ HalfTile \in Int /\ Far \in Int
  BY BulletBox, BoxFacts, Sizes DEF InRoom
<1>7. n \in Int /\ d \in Nat \ {0} /\ way.x \in Int /\ way.y \in Int
  BY ReachIs DEF Ratios
<1> HIDE DEF w, n, d
<1>8. ASSUME NEW b \in Int, NEW v \in Int, b * d + n * v < HalfTile * d
      PROVE  (b - HalfTile) * d < n * (-v)
  <2> DEFINE x == b * d
             y == HalfTile * d
             z == n * v
  <2>1. (b - HalfTile) * d = x - y /\ n * (-v) = -z
    BY <1>6, <1>7
  <2>2. x \in Int /\ y \in Int /\ z \in Int /\ x + z < y
    BY <1>6, <1>7, <1>8
  <2> HIDE DEF x, y, z
  <2>3. x - y < -z
    BY <2>2
  <2> QED BY <2>1, <2>3
<1>9. ASSUME NEW b \in Int, NEW v \in Int, b * d + n * v > (Far - HalfTile) * d
      PROVE  (Far - HalfTile - b) * d < n * v
  <2> DEFINE x == b * d
             y == (Far - HalfTile) * d
             z == n * v
  <2>1. (Far - HalfTile - b) * d = y - x
    BY <1>6, <1>7
  <2>2. x \in Int /\ y \in Int /\ z \in Int /\ x + z > y
    BY <1>6, <1>7, <1>9
  <2> HIDE DEF x, y, z
  <2>3. y - x < z
    BY <2>2
  <2> QED BY <2>1, <2>3 DEF z
<1>10. CASE Cell(k).x = 0
  <2>1. w.right = HalfTile
    BY <1>2, <1>3, <1>6, <1>10
  <2>2. (Bullet.left - HalfTile) * d < n * (-way.x)
    BY <1>5, <1>6, <1>7, <1>8, <2>1
  <2>3. Reach(VEC_RIGHT) * d < n * Towards(way, VEC_RIGHT)
    BY <2>2, ReachIs
  <2> QED BY <1>4, <2>3 DEF n, d
<1>11. CASE Cell(k).x = Side - 1
  <2>1. w.left = Far - HalfTile
    BY <1>2, <1>3, <1>6, <1>11
  <2>2. (Far - HalfTile - Bullet.right) * d < n * way.x
    BY <1>5, <1>6, <1>7, <1>9, <2>1
  <2>3. Reach(VEC_LEFT) * d < n * Towards(way, VEC_LEFT)
    BY <2>2, ReachIs
  <2> QED BY <1>4, <2>3 DEF n, d
<1>12. CASE Cell(k).y = 0
  <2>1. w.up = HalfTile
    BY <1>2, <1>3, <1>6, <1>12
  <2>2. (Bullet.down - HalfTile) * d < n * (-way.y)
    BY <1>5, <1>6, <1>7, <1>8, <2>1
  <2>3. Reach(VEC_UP) * d < n * Towards(way, VEC_UP)
    BY <2>2, ReachIs
  <2> QED BY <1>4, <2>3 DEF n, d
<1>13. CASE Cell(k).y = Side - 1
  <2>1. w.down = Far - HalfTile
    BY <1>2, <1>3, <1>6, <1>13
  <2>2. (Far - HalfTile - Bullet.up) * d < n * way.y
    BY <1>5, <1>6, <1>7, <1>9, <2>1
  <2>3. Reach(VEC_DOWN) * d < n * Towards(way, VEC_DOWN)
    BY <2>2, ReachIs
  <2> QED BY <1>4, <2>3 DEF n, d
<1> QED BY <1>1, <1>10, <1>11, <1>12, <1>13 DEF Edge

\* And past the first of them it has hit something.
LEMMA HitsBefore ==
  ASSUME InRoom(pos), NEW way \in Vectors, NEW t \in Ratios, 0 <= t.n, t.n <= t.d,
         NEW m \in Normals, Reach(m) * t.d < t.n * Towards(way, m)
  PROVE  \E k \in Walls : /\ WallToi(way, k) \in Ratios
                          /\ IsValidToi(WallToi(way, k)) /\ Before(WallToi(way, k), t)
<1> DEFINE G(o) == Reach(o)
           Q(o) == Towards(way, o)
<1>1. \A o \in Normals : G(o) \in Nat \ {0} /\ Q(o) \in Int
  BY ReachIs
<1>2. t.n \in Nat /\ t.d \in Nat \ {0}
  BY DEF Ratios
<1>3. G(m) * t.d < t.n * Q(m)
  OBVIOUS
<1>4. /\ Q(VEC_RIGHT) = -Q(VEC_LEFT) /\ Q(VEC_UP) = -Q(VEC_DOWN)
      /\ Q(VEC_LEFT) \in Int /\ Q(VEC_DOWN) \in Int
  BY ReachIs
<1> HIDE DEF G, Q
<1>5. Q(m) > 0
  <2> SUFFICES ASSUME Q(m) <= 0 PROVE FALSE
    BY <1>1
  <2>1. G(m) * t.d >= 0 /\ G(m) * t.d \in Int
    BY <1>1, <1>2
  <2>2. t.n * Q(m) <= 0 /\ t.n * Q(m) \in Int
    BY <1>1, <1>2
  <2> QED BY <1>3, <2>1, <2>2
<1>6. ASSUME NEW a \in Normals, Q(a) > 0, G(a) * t.d < t.n * Q(a),
             \A o \in Normals : G(a) * Q(o) <= G(o) * Q(a)
      PROVE  \E k \in Walls : /\ WallToi(way, k) \in Ratios
                              /\ IsValidToi(WallToi(way, k)) /\ Before(WallToi(way, k), t)
  <2>1. /\ Towards(way, a) > 0 /\ Reach(a) * t.d < t.n * Towards(way, a)
        /\ \A o \in Normals : Reach(a) * Towards(way, o) <= Reach(o) * Towards(way, a)
    BY <1>6 DEF G, Q
  <2> QED BY <2>1, HitsFirstSide
<1>7. CASE \A o \in Normals : G(m) * Q(o) <= G(o) * Q(m)
  BY <1>3, <1>5, <1>6, <1>7
<1>8. CASE ~\A o \in Normals : G(m) * Q(o) <= G(o) * Q(m)
  <2>1. PICK a \in Normals : ~(G(m) * Q(a) <= G(a) * Q(m))
    BY <1>8
  <2>2. G(m) * Q(a) \in Int /\ G(a) * Q(m) \in Int /\ G(a) * Q(m) < G(m) * Q(a)
    BY <1>1, <2>1
  <2>3. Q(a) > 0
    <3> SUFFICES ASSUME Q(a) <= 0 PROVE FALSE
      BY <1>1
    <3>1. G(m) * Q(a) <= 0
      BY <1>1
    <3>2. G(a) * Q(m) > 0
      BY <1>1, <1>5
    <3> QED BY <2>2, <3>1, <3>2
  <2>4. a # m
    BY <2>2
  <2>5. G(a) * t.d < t.n * Q(a)
    <3>1. (G(a) * Q(m)) * t.d < (G(m) * Q(a)) * t.d
      BY <1>2, <2>2, Cancel
    <3>2. (G(m) * t.d) * Q(a) < (t.n * Q(m)) * Q(a)
      <4>1. Q(a) \in Nat \ {0} /\ G(m) * t.d \in Int /\ t.n * Q(m) \in Int
        BY <1>1, <1>2, <2>3
      <4> QED BY <1>3, <4>1, Cancel
    <3>3. /\ (G(a) * Q(m)) * t.d = (G(a) * t.d) * Q(m)
          /\ (G(m) * Q(a)) * t.d = (G(m) * t.d) * Q(a)
          /\ (t.n * Q(m)) * Q(a) = (t.n * Q(a)) * Q(m)
      BY <1>1, <1>2
    <3>4. G(a) * t.d \in Int /\ t.n * Q(a) \in Int /\ Q(m) \in Nat \ {0}
      BY <1>1, <1>2, <1>5
    <3>5. /\ (G(a) * t.d) * Q(m) \in Int /\ (G(m) * t.d) * Q(a) \in Int
          /\ (t.n * Q(a)) * Q(m) \in Int
      BY <1>1, <1>2
    <3>6. (G(a) * t.d) * Q(m) < (t.n * Q(a)) * Q(m)
      BY <3>1, <3>2, <3>3, <3>5
    <3> QED BY <3>4, <3>6, Cancel
  <2>6. ASSUME NEW o \in Normals PROVE o = m \/ o = a \/ Q(o) < 0
    <3>1. /\ VEC_RIGHT \in Normals /\ VEC_LEFT \in Normals
          /\ VEC_UP \in Normals /\ VEC_DOWN \in Normals
      BY DEF Normals
    <3>2. CASE m \in {VEC_RIGHT, VEC_LEFT}
      <4>1. a \in {VEC_UP, VEC_DOWN}
        BY <1>4, <1>5, <2>3, <2>4, <3>2 DEF Normals
      <4> QED BY <1>4, <1>5, <2>3, <3>2, <4>1 DEF Normals
    <3>3. CASE m \in {VEC_UP, VEC_DOWN}
      <4>1. a \in {VEC_RIGHT, VEC_LEFT}
        BY <1>4, <1>5, <2>3, <2>4, <3>3 DEF Normals
      <4> QED BY <1>4, <1>5, <2>3, <3>3, <4>1 DEF Normals
    <3> QED BY <3>2, <3>3 DEF Normals
  <2>7. ASSUME NEW o \in Normals PROVE G(a) * Q(o) <= G(o) * Q(a)
    <3>1. CASE o = m
      BY <2>2, <3>1
    <3>2. CASE o = a
      <4>1. G(a) * Q(a) \in Int
        BY <1>1
      <4> QED BY <3>2, <4>1
    <3>3. CASE Q(o) < 0
      <4>1. G(a) * Q(o) <= 0 /\ G(a) * Q(o) \in Int
        BY <1>1, <3>3
      <4>2. G(o) * Q(a) >= 0 /\ G(o) * Q(a) \in Int
        BY <1>1, <2>3
      <4> QED BY <4>1, <4>2
    <3> QED BY <2>6, <3>1, <3>2, <3>3
  <2> QED BY <1>6, <2>3, <2>5, <2>7
<1> QED BY <1>7, <1>8

\* Twice as large, the box of something of the size 2 * h at p, after a movement by v in
\* the time n / d, and that of a tile of the size 2 * h in the cell c.
LEMMA TwiceAsLarge ==
  ASSUME NEW p \in Int, NEW v \in Int, NEW n \in Int, NEW d \in Int, NEW h \in Int, NEW c \in Int
  PROVE  /\ (p * d * 2 + v * n * 2) - (2 * h) * d = 2 * ((p - h) * d + n * v)
         /\ (p * d * 2 + v * n * 2) + (2 * h) * d = 2 * ((p + h) * d + n * v)
         /\ c * ((2 * h) * d * 2) - (2 * h) * d = 2 * ((c * (2 * h) - h) * d)
         /\ c * ((2 * h) * d * 2) + (2 * h) * d = 2 * ((c * (2 * h) + h) * d)
<1> DEFINE x == p * d
           y == n * v
           z == h * d
           w == c * z
<1>1. x \in Int /\ y \in Int /\ z \in Int /\ w \in Int
  OBVIOUS
<1>2. /\ p * d * 2 = 2 * x /\ v * n * 2 = 2 * y /\ (2 * h) * d = 2 * z
      /\ (p - h) * d = x - z /\ (p + h) * d = x + z
  OBVIOUS
<1>3. /\ c * ((2 * h) * d * 2) = 4 * w
      /\ (c * (2 * h) - h) * d = 2 * w - z /\ (c * (2 * h) + h) * d = 2 * w + z
  <2>1. (2 * h) * d * 2 = 4 * z
    OBVIOUS
  <2>2. c * (4 * z) = 4 * w
    <3>1. z \in Int
      BY <1>1
    <3> HIDE DEF z
    <3> QED BY <3>1
  <2> DEFINE u == c * (2 * h)
  <2>3. u \in Int /\ u * d = 2 * w
    OBVIOUS
  <2> HIDE DEF u, w, z
  <2>4. (u - h) * d = u * d - h * d /\ (u + h) * d = u * d + h * d
    BY <2>3
  <2> QED BY <2>1, <2>2, <2>3, <2>4 DEF u, z
<1> HIDE DEF x, y, z, w
<1>4. /\ (p * d * 2 + v * n * 2) - (2 * h) * d = 2 * (x - z + y)
      /\ (p * d * 2 + v * n * 2) + (2 * h) * d = 2 * (x + z + y)
      /\ 4 * w - 2 * z = 2 * (2 * w - z) /\ 4 * w + 2 * z = 2 * (2 * w + z)
  BY <1>1, <1>2
<1> QED BY <1>2, <1>3, <1>4 DEF y

\* The bullet and a wall at the time t, twice as large as they are times t's
\* denominator, so that they are boxes of integers.
BulletAt(way, t) ==
  Bounds(Vector(pos.x * t.d * 2 + way.x * t.n * 2, pos.y * t.d * 2 + way.y * t.n * 2),
         BulletSize * t.d * 2)
WallAt(k, t) == Bounds(Times(Cell(k), TileSize * t.d * 2), TileSize * t.d * 2)

\* They overlap if the bullet does so in the eyes of check_AABB_collision.
LEMMA OverlapsIs ==
  ASSUME InRoom(pos), NEW way \in Vectors, NEW t \in Ratios, NEW k \in Walls,
         Overlaps(BulletAt(way, t), WallAt(k, t))
  PROVE  /\ XOverlapsAt(Bullet, WallBounds(k), way, t)
         /\ YOverlapsAt(Bullet, WallBounds(k), way, t)
<1> DEFINE n == t.n
           d == t.d
           w == WallBounds(k)
<1>1. n \in Int /\ d \in Nat \ {0} /\ way.x \in Int /\ way.y \in Int
      /\ pos.x \in Int /\ pos.y \in Int /\ pos \in Vectors
  BY DEF Ratios, Vectors, InRoom
<1>2. /\ k \in 0 .. CellCount - 1 /\ Cell(k).x \in Int /\ Cell(k).y \in Int
      /\ w.left = Cell(k).x * TileSize - HalfTile /\ w.right = Cell(k).x * TileSize + HalfTile
      /\ w.down = Cell(k).y * TileSize - HalfTile /\ w.up = Cell(k).y * TileSize + HalfTile
  <2>1. k \in 0 .. CellCount - 1
    BY DEF Walls
  <2> QED BY <2>1, TileBox, CellType
<1>3. /\ BulletSize = 2 * HalfBullet /\ TileSize = 2 * HalfTile
      /\ HalfBullet \in Int /\ HalfTile \in Int
      /\ Bullet.left = pos.x - HalfBullet /\ Bullet.right = pos.x + HalfBullet
      /\ Bullet.down = pos.y - HalfBullet /\ Bullet.up = pos.y + HalfBullet
  BY <1>1, BulletBox, Sizes
<1> HIDE DEF n, d, w
<1> DEFINE a == pos.x * d * 2 + way.x * n * 2
           b == pos.y * d * 2 + way.y * n * 2
           s == (2 * HalfBullet) * d
           e == (2 * HalfTile) * d
           x == Cell(k).x * ((2 * HalfTile) * d * 2)
           y == Cell(k).y * ((2 * HalfTile) * d * 2)
<1>4. s \in Int /\ e \in Int /\ (s * 2) \div 2 = s /\ (e * 2) \div 2 = e
  <2>1. s \in Int /\ e \in Int
    BY <1>1, <1>3
  <2> HIDE DEF s, e
  <2> QED BY <2>1, DivExact
<1>5. /\ BulletAt(way, t).left = a - s /\ BulletAt(way, t).right = a + s
      /\ BulletAt(way, t).down = b - s /\ BulletAt(way, t).up = b + s
  <2>1. BulletAt(way, t) = Bounds(Vector(a, b), s * 2)
    BY <1>3 DEF BulletAt, n, d
  <2> HIDE DEF a, b, s
  <2> QED BY <1>4, <2>1 DEF Bounds, Vector
<1>6. /\ WallAt(k, t).left = x - e /\ WallAt(k, t).right = x + e
      /\ WallAt(k, t).down = y - e /\ WallAt(k, t).up = y + e
  <2>1. WallAt(k, t) = Bounds(Vector(x, y), e * 2)
    BY <1>3 DEF WallAt, Times, n, d
  <2> HIDE DEF x, y, e
  <2> QED BY <1>4, <2>1 DEF Bounds, Vector
<1>7. /\ a - s < x + e /\ x - e < a + s /\ b - s < y + e /\ y - e < b + s
  BY <1>5, <1>6 DEF Overlaps
<1>8. /\ a - s = 2 * (Bullet.left * d + n * way.x) /\ a + s = 2 * (Bullet.right * d + n * way.x)
      /\ b - s = 2 * (Bullet.down * d + n * way.y) /\ b + s = 2 * (Bullet.up * d + n * way.y)
  BY <1>1, <1>3, TwiceAsLarge
<1>9. /\ x - e = 2 * (w.left * d) /\ x + e = 2 * (w.right * d)
      /\ y - e = 2 * (w.down * d) /\ y + e = 2 * (w.up * d)
  BY <1>1, <1>2, <1>3, TwiceAsLarge
<1>10. ASSUME NEW i \in Int, NEW j \in Int, 2 * i < 2 * j PROVE i < j
  BY <1>10
<1>11. /\ w.left * d \in Int /\ w.right * d \in Int /\ w.down * d \in Int /\ w.up * d \in Int
       /\ Bullet.left * d + n * way.x \in Int /\ Bullet.right * d + n * way.x \in Int
       /\ Bullet.down * d + n * way.y \in Int /\ Bullet.up * d + n * way.y \in Int
  <2>1. /\ w.left \in Int /\ w.right \in Int /\ w.down \in Int /\ w.up \in Int
        /\ Bullet.left \in Int /\ Bullet.right \in Int /\ Bullet.down \in Int /\ Bullet.up \in Int
    <3>1. Cell(k).x * TileSize \in Int /\ Cell(k).y * TileSize \in Int
      BY <1>2, RoomNumbers
    <3> QED BY <1>1, <1>2, <1>3, <3>1
  <2> QED BY <1>1, <2>1
<1> HIDE DEF a, b, s, e, x, y
<1>12. /\ Bullet.left * d + n * way.x < w.right * d /\ w.left * d < Bullet.right * d + n * way.x
       /\ Bullet.down * d + n * way.y < w.up * d /\ w.down * d < Bullet.up * d + n * way.y
  BY <1>7, <1>8, <1>9, <1>10, <1>11
<1>13. /\ Bullet.right * d + n * way.x > w.left * d /\ Bullet.up * d + n * way.y > w.down * d
  BY <1>11, <1>12
<1> QED BY <1>12, <1>13 DEF XOverlapsAt, YOverlapsAt, n, d, w

\* A denominator that all times of a movement have in common.
AlongAxis(v) == IF v = 0 THEN 1 ELSE Abs(v)
Denominator(way) == AlongAxis(way.x) * AlongAxis(way.y)

\* The toi of a hit has it.
LEMMA HitWorth ==
  ASSUME InRoom(pos), NEW way \in Vectors, NEW k \in Walls, IsValidToi(WallToi(way, k))
  PROVE  /\ WallToi(way, k) \in Ratios /\ Denominator(way) \in Nat \ {0}
         /\ \E m \in Int : m >= 0 /\ Worth(WallToi(way, k), m, Denominator(way))
<1> DEFINE w == WallBounds(k)
           C == Contacts(Bullet, w, way)
           t == WallToi(way, k)
           dx == AlongAxis(way.x)
           dy == AlongAxis(way.y)
           d == Denominator(way)
<1>1. IsBox(Bullet) /\ IsBox(w) /\ way.x \in Int /\ way.y \in Int
  <2>1. pos \in Vectors /\ k \in 0 .. CellCount - 1
    BY DEF InRoom, Walls
  <2> QED BY <2>1, BulletBox, TileBox DEF Vectors
<1>2. dx \in Nat \ {0} /\ dy \in Nat \ {0}
  BY <1>1 DEF AlongAxis, Abs
<1>3. d \in Nat \ {0} /\ d = dx * dy /\ d = dy * dx
  <2>1. d = dx * dy
    BY DEF Denominator
  <2> HIDE DEF dx, dy, d
  <2> QED BY <1>2, <2>1
<1>4. t = First(C)
  BY DEF WallToi, CheckAABBCollision
<1>5. t \in Ratios /\ (t = Never \/ \E s \in C : t = s.toi)
  BY <1>1, <1>4, FirstIsLeast
<1>6. t # Never
  BY NeverIs DEF IsValidToi
<1>7. PICK s \in C : t = s.toi
  BY <1>5, <1>6
<1>8. /\ Bullet.left \in Int /\ Bullet.right \in Int /\ Bullet.up \in Int /\ Bullet.down \in Int
      /\ w.left \in Int /\ w.right \in Int /\ w.up \in Int /\ w.down \in Int
  BY <1>1, BoxFacts
<1> HIDE DEF w, t, d, dx, dy
<1>9. ASSUME way.x # 0, s \in {Right(Bullet, w, way), Left(Bullet, w, way)}
      PROVE  \E m \in Int : Worth(t, m, d)
  <2>1. PICK g \in Int : t = Ratio(g, way.x)
    <3>1. w.right - Bullet.left \in Int /\ w.left - Bullet.right \in Int
      BY <1>8
    <3> QED BY <1>7, <1>9, <3>1 DEF Right, Left
  <2>2. dx = Abs(way.x)
    BY <1>9 DEF dx, AlongAxis
  <2>3. \E m \in Int : Worth(Ratio(g, way.x), m, Abs(way.x) * dy)
    BY <1>1, <1>2, <1>9, RatioWorth
  <2> QED BY <1>3, <2>1, <2>2, <2>3
<1>10. ASSUME way.y # 0, s \in {Upper(Bullet, w, way), Lower(Bullet, w, way)}
       PROVE  \E m \in Int : Worth(t, m, d)
  <2>1. PICK g \in Int : t = Ratio(g, way.y)
    <3>1. w.up - Bullet.down \in Int /\ w.down - Bullet.up \in Int
      BY <1>8
    <3> QED BY <1>7, <1>10, <3>1 DEF Upper, Lower
  <2>2. dy = Abs(way.y)
    BY <1>10 DEF dy, AlongAxis
  <2>3. \E m \in Int : Worth(Ratio(g, way.y), m, Abs(way.y) * dx)
    BY <1>1, <1>2, <1>10, RatioWorth
  <2> QED BY <1>3, <2>1, <2>2, <2>3
<1>11. PICK m \in Int : Worth(t, m, d)
  <2>1. \/ way.x # 0 /\ s \in {Right(Bullet, w, way), Left(Bullet, w, way)}
        \/ way.y # 0 /\ s \in {Upper(Bullet, w, way), Lower(Bullet, w, way)}
    BY <1>7, ContactsAre
  <2> QED BY <1>9, <1>10, <2>1
<1>12. m >= 0
  <2>1. t.n \in Nat /\ t.d \in Nat \ {0}
    BY <1>5 DEF Ratios, IsValidToi, t
  <2>2. t.n * d = m * t.d
    BY <1>11 DEF Worth
  <2>3. t.n * d >= 0
    BY <1>3, <2>1
  <2> SUFFICES ASSUME m < 0 PROVE FALSE
    BY <1>11
  <2>4. m * t.d < 0
    BY <1>11, <2>1
  <2>5. t.n * d \in Int /\ m * t.d \in Int
    BY <1>3, <1>11, <2>1
  <2> QED BY <2>2, <2>3, <2>4, <2>5
<1> QED BY <1>3, <1>5, <1>11, <1>12 DEF t, d

\* In its first sweep a bullet meets no wall later than it gets into one.
LEMMA MeetsWall ==
  ASSUME InRoom(pos), NEW speed \in Vectors, deltaTime \in Nat
  PROVE  ShotMeetsWall(speed)
<1> DEFINE way == Times(speed, deltaTime)
           tois == {WallToi(way, k) : k \in Walls}
           hits == {t \in tois : IsValidToi(t)}
           stop == IF hits = {} THEN Ratio(1, 1)
                   ELSE CHOOSE t \in hits : \A u \in hits : ~Before(u, t)
           InWall(t) == \E k \in Walls : Overlaps(BulletAt(way, t), WallAt(k, t))
<1>1. ShotMeetsWall(speed) <=>
        \A i \in 0 .. Instants : ~Before(stop, Ratio(i, Instants)) => ~InWall(Ratio(i, Instants))
  BY DEF ShotMeetsWall, Bullet, WallToi, BulletAt, WallAt
<1>2. way \in Vectors
  <2>1. speed.x \in Int /\ speed.y \in Int
    BY DEF Vectors
  <2>2. speed.x * deltaTime \in Int /\ speed.y * deltaTime \in Int
    BY <2>1
  <2> QED BY <2>2 DEF Vectors, Times, Vector
<1> HIDE DEF way
<1>3. hits \subseteq Ratios /\ (hits # {} => stop \in hits /\ \A u \in hits : ~Before(u, stop))
  <2>1. ASSUME NEW t \in hits
        PROVE  /\ t \in Ratios /\ Denominator(way) \in Nat \ {0}
               /\ \E m \in Int : m >= 0 /\ Worth(t, m, Denominator(way))
    <3>1. PICK k \in Walls : t = WallToi(way, k)
      OBVIOUS
    <3>2. IsValidToi(WallToi(way, k))
      BY <3>1
    <3> QED BY <1>2, <3>1, <3>2, HitWorth
  <2>2. SUFFICES ASSUME hits # {} PROVE stop \in hits /\ \A u \in hits : ~Before(u, stop)
    BY <2>1
  <2>3. Denominator(way) \in Nat \ {0} /\ hits \subseteq Ratios
    BY <2>1, <2>2
  <2>4. PICK B \in Int :
          \A t \in hits : \E m \in Int : m >= B /\ Worth(t, m, Denominator(way))
    BY <2>1
  <2> DEFINE Least(t) == \A u \in hits : ~Before(u, t)
  <2>5. stop = CHOOSE t \in hits : Least(t)
    BY <2>2
  <2> HIDE DEF hits, stop
  <2>6. \E t \in hits : \A u \in hits : ~Before(u, t)
    BY <2>2, <2>3, <2>4, LeastRatio
  <2>7. \E t \in hits : Least(t)
    BY <2>6
  <2> HIDE DEF Least
  <2>8. stop \in hits /\ Least(stop)
    BY <2>5, <2>7
  <2> QED BY <2>8 DEF Least
<1>4. ASSUME NEW i \in 0 .. Instants, InWall(Ratio(i, Instants))
      PROVE  Before(stop, Ratio(i, Instants))
  <2> DEFINE t == Ratio(i, Instants)
  <2>1. t = [n |-> i, d |-> Instants] /\ t \in Ratios /\ 0 <= t.n /\ t.n <= t.d
    <3>1. Instants \in Nat \ {0}
      BY PhysicsAssumption
    <3> QED BY <3>1 DEF Ratio, Ratios
  <2>2. PICK k \in Walls : Overlaps(BulletAt(way, t), WallAt(k, t))
    BY <1>4
  <2> HIDE DEF t
  <2>3. XOverlapsAt(Bullet, WallBounds(k), way, t) /\ YOverlapsAt(Bullet, WallBounds(k), way, t)
    BY <1>2, <2>1, <2>2, OverlapsIs
  <2>4. PICK m \in Normals : Reach(m) * t.d < t.n * Towards(way, m)
    BY <1>2, <2>1, <2>3, PastSide
  <2>5. PICK k1 \in Walls : /\ WallToi(way, k1) \in Ratios
                            /\ IsValidToi(WallToi(way, k1)) /\ Before(WallToi(way, k1), t)
    BY <1>2, <2>1, <2>4, HitsBefore
  <2>6. WallToi(way, k1) \in hits
    BY <2>5
  <2> HIDE DEF hits, stop
  <2>7. stop \in Ratios /\ ~Before(WallToi(way, k1), stop)
    BY <1>3, <2>6
  <2>8. Before(stop, t)
    BY <2>1, <2>5, <2>7, OrderTrans
  <2> QED BY <2>8 DEF t
<1> QED BY <1>1, <1>4

\* Nor does it meet the player that fired it.
LEMMA PassesItsPlayer ==
  ASSUME InRoom(pos), vel \in Velocities, NEW speed \in Vectors,
         deltaTime \in FrameTimes \cup {0}
  PROVE  ShotPassesPlayer(speed)
<1> DEFINE player == FirstCollisions(deltaTime).vel
           rel == Times(Minus(player, speed), deltaTime)
<1>1. PICK s, sx, sy : Goes(vel, s, sx, sy)
  BY Directions
<1>2. /\ s \in Nat \ {0} /\ sx \in Signs /\ sy \in Signs /\ vel = Vector(sx * s, sy * s)
      /\ sx # 0 /\ sy # 0 => s = DiagonalSpeed
  BY <1>1 DEF Goes
<1>3. deltaTime \in Nat /\ DiagonalSpeed * deltaTime < PlayerSize
  <2>1. CASE deltaTime \in FrameTimes
    BY <2>1, PhysicsAssumption
  <2>2. CASE deltaTime = 0
    <3>1. DiagonalSpeed * 0 = 0
      BY RoomNumbers
    <3> QED BY <2>2, <3>1, RoomNumbers
  <2> QED BY <2>1, <2>2
<1>4. \E fx, fy, n : Scanned(FirstCollisions(deltaTime), s, sx, sy, s * deltaTime, fx, fy, n)
  BY <1>2, <1>3, ScanResult
<1>5. PICK fx, fy, n : Scanned(FirstCollisions(deltaTime), s, sx, sy, s * deltaTime, fx, fy, n)
  BY <1>4
<1>6. player = Vector(fx * s, fy * s) /\ fx \in Int /\ fy \in Int
  <2>1. fx \in {sx, 0} /\ fy \in {sy, 0} /\ player = Vector(fx * s, fy * s)
    BY <1>5 DEF Scanned
  <2> QED BY <1>2, <2>1 DEF Signs
<1>7. rel \in Vectors
  <2>1. player.x \in Int /\ player.y \in Int /\ speed.x \in Int /\ speed.y \in Int
    BY <1>2, <1>6 DEF Vector, Vectors
  <2> HIDE DEF player
  <2>2. (player.x - speed.x) * deltaTime \in Int /\ (player.y - speed.y) * deltaTime \in Int
    BY <1>3, <2>1
  <2> QED BY <2>2 DEF Vectors, Times, Minus, Vector
<1>8. pos \in Vectors
  BY DEF InRoom
<1> HIDE DEF rel
<1>9. LET c == CheckAABBCollision(Player, Bullet, rel) IN ~IsValidToi(c.toi) /\ ~Touches(c.toi)
  BY <1>7, <1>8, PassesPlayer
<1> QED BY <1>9 DEF ShotPassesPlayer, Player, Bullet, rel

\* In its first sweep by calc_first_toi_collisions a bullet that init_bullet puts in the
\* player hits the wall before it is in it, and never the player that fired it.
THEOREM SpecShotsHitWallsOnly ==
  Spec => []ShotsHitWallsOnly
<1>1. PhysicsInv => ShotsHitWallsOnly
  <2> SUFFICES ASSUME PhysicsInv, NEW speed \in BulletSpeeds
               PROVE  ShotPassesPlayer(speed) /\ ShotMeetsWall(speed)
    BY DEF ShotsHitWallsOnly
  <2>1. speed \in Vectors
    BY PhysicsAssumption DEF Vectors
  <2>2. InRoom(pos) /\ vel \in Velocities /\ deltaTime \in FrameTimes \cup {0}
    BY DEF PhysicsInv
  <2>3. deltaTime \in Nat
    BY <2>2, PhysicsAssumption
  <2> QED BY <2>1, <2>2, <2>3, MeetsWall, PassesItsPlayer
<1> QED BY <1>1, SpecPhysicsInv, PTL
=============================================================================
