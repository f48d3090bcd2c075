-------------------------------- MODULE Sweep --------------------------------
(***************************************************************************)
(* The arithmetic of lib/engine/physics.c and lib/engine/vector.c: two     *)
(* axis-aligned boxes, the first moving relative to the second, and the    *)
(* time of impact (toi) of the first on a side of the second, where 1 is   *)
(* the end of the movement.                                                *)
(*                                                                         *)
(* The code computes in floats.  Here a toi is an exact ratio and lengths  *)
(* are integers; a division by zero, which gives the code an infinity or   *)
(* a NaN that fails every comparison it then meets, gives no toi at all.   *)
(***************************************************************************)
EXTENDS Integers

Vector(x, y) == [x |-> x, y |-> y]

VEC_ZERO  == Vector(0, 0)
VEC_UP    == Vector(0, 1)
VEC_DOWN  == Vector(0, -1)
VEC_LEFT  == Vector(-1, 0)
VEC_RIGHT == Vector(1, 0)

Plus(u, v)   == Vector(u.x + v.x, u.y + v.y)
Minus(u, v)  == Vector(u.x - v.x, u.y - v.y)
Times(v, k)  == Vector(v.x * k, v.y * k)
Dot(u, v)    == u.x * v.x + u.y * v.y

\* A ratio of integers, with a positive denominator.
Ratio(n, d) == IF d > 0 THEN [n |-> n, d |-> d] ELSE [n |-> -n, d |-> -d]
Before(s, t) == s.n * t.d < t.n * s.d
SameAs(s, t) == s.n * t.d = t.n * s.d

\* The toi that stands for none.
Never == Ratio(99, 1)

\* is_valid_toi
IsValidToi(toi) == 0 < toi.n /\ toi.n <= toi.d

\* AABB_get_bounds
Bounds(pos, size) ==
  [up   |-> pos.y + size \div 2, down  |-> pos.y - size \div 2,
   left |-> pos.x - size \div 2, right |-> pos.x + size \div 2]

\* AABB_y_overlaps_at_toi and AABB_x_overlaps_at_toi: boxes that only touch do
\* not overlap.
YOverlapsAt(b1, b2, rel, toi) ==
  /\ b1.down * toi.d + toi.n * rel.y < b2.up * toi.d
  /\ b1.up * toi.d + toi.n * rel.y > b2.down * toi.d

XOverlapsAt(b1, b2, rel, toi) ==
  /\ b1.left * toi.d + toi.n * rel.x < b2.right * toi.d
  /\ b1.right * toi.d + toi.n * rel.x > b2.left * toi.d

\* The sides of b2 that a movement along each axis brings b1 to.
XSides(b1, b2, rel) ==
  IF rel.x = 0 THEN {}
  ELSE {[toi |-> Ratio(b2.right - b1.left, rel.x), normal |-> VEC_RIGHT],
        [toi |-> Ratio(b2.left - b1.right, rel.x), normal |-> VEC_LEFT]}

YSides(b1, b2, rel) ==
  IF rel.y = 0 THEN {}
  ELSE {[toi |-> Ratio(b2.up - b1.down, rel.y), normal |-> VEC_UP],
        [toi |-> Ratio(b2.down - b1.up, rel.y), normal |-> VEC_DOWN]}

\* Those of them that b1 meets.
Contacts(b1, b2, rel) ==
  {s \in XSides(b1, b2, rel) : YOverlapsAt(b1, b2, rel, s.toi)} \cup
  {s \in YSides(b1, b2, rel) : XOverlapsAt(b1, b2, rel, s.toi)}

\* The first toi of some contacts.  One in the past counts too, and hides those
\* to come: this is how the code leaves boxes alone that overlap already.  In the
\* slip it does not count.
FirstToCome(contacts) ==
  LET tois == {s.toi : s \in {c \in contacts : c.toi.n >= 0}} \cup {Never}
  IN CHOOSE t \in tois : \A u \in tois : ~Before(u, t)

First(contacts) ==
  LET tois == {s.toi : s \in contacts} \cup {Never}
  IN CHOOSE t \in tois : \A u \in tois : ~Before(u, t)

\* The normals of all of these sides that have this toi, added up.
NormalAt(sides, toi) ==
  LET Met(normal) == IF \E s \in sides : s.normal = normal /\ SameAs(s.toi, toi)
                     THEN 1 ELSE 0
  IN Vector(Met(VEC_RIGHT) - Met(VEC_LEFT), Met(VEC_UP) - Met(VEC_DOWN))

\* check_AABB_collision
CheckAABBCollision(b1, b2, rel) ==
  LET first == First(Contacts(b1, b2, rel))
  IN [toi    |-> first,
      normal |-> NormalAt(XSides(b1, b2, rel) \cup YSides(b1, b2, rel), first)]
=============================================================================
