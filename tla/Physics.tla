------------------------------- MODULE Physics -------------------------------
(***************************************************************************)
(* physics_step of lib/engine/physics.c on the room of common/logic.c: the *)
(* player (common/player.c) among the wall tiles, frame after frame, with  *)
(* any keys held and frames of any length, and the shots it may fire.      *)
(*                                                                         *)
(* A round of physics_step finds the first impact in the time that is      *)
(* left, moves everything up to it and turns the player's speed along what *)
(* it hit.  A wall the player touches already is handled in the middle of  *)
(* the scan: walls scanned before it were swept with the old speed.        *)
(*                                                                         *)
(* The player moves along an axis or along both equally fast, so that all  *)
(* lengths stay integers; times are ratios.  Shots are not part of the     *)
(* state: the first sweep of a new bullet is asked about in every place    *)
(* the player can be.  What bullets do to the frame is in GameFrame.       *)
(***************************************************************************)
EXTENDS Sweep, Sequences

CONSTANTS
  Side,          \* tiles along a side of the room, 10 in the code
  TileSize,      \* `scale`, 50 in the code
  PlayerSize,    \* 20 in the code
  BulletSize,    \* 5 in the code
  Start,         \* where init_player puts it, (200, 200) in the code
  Speed,         \* global.player.speed
  DiagonalSpeed, \* what vector_normalize makes of it on each of two axes
  BulletSpeeds,  \* the speeds of init_bullet that shots are tried with
  FrameTimes,    \* the frames' delta_time, in ms
  Cap,           \* `cap` of physics_step, 100 in the code
  Instants       \* the instants of a frame at which a shot is looked at

\* A frame is short: on a diagonal the player gets less far than its own size.
\* (56 ms in the code, which does not check; main.c asks for frames of 6 ms.  In a
\* longer one a player that slides along one wall can get into the next: that was
\* swept, before the first was found to be touched, with a speed past it.)
ASSUME PhysicsAssumption ==
  /\ {Side, TileSize, PlayerSize, BulletSize, Speed, DiagonalSpeed, Cap, Instants}
       \subseteq Nat \ {0}
  /\ \A size \in {TileSize, PlayerSize, BulletSize} : size % 2 = 0
  /\ BulletSize < PlayerSize /\ PlayerSize < TileSize /\ Side > 2
  /\ LET free == TileSize .. (Side - 2) * TileSize IN Start \in [x : free, y : free]
  /\ BulletSpeeds \subseteq [x : Int, y : Int]
  /\ FrameTimes \subseteq Nat
  /\ \A t \in FrameTimes : DiagonalSpeed * t < PlayerSize

VARIABLES
  pos, vel,    \* position and velocity of the player
  deltaTime,   \* delta_time of this frame
  passedTime,  \* passed_time, a ratio
  iterations,
  stepping,    \* physics_step runs
  from, asked  \* history: position and velocity at the start of the frame

vars == <<pos, vel, deltaTime, passedTime, iterations, stepping, from, asked>>

\* init_walls goes through the cells row by row, and makes walls of those at the
\* edge.
CellCount == Side * Side
Cell(k) == Vector(k % Side, k \div Side)
Edge == {0, Side - 1}
Walls == {k \in 0 .. CellCount - 1 : Cell(k).x \in Edge \/ Cell(k).y \in Edge}

\* init_wall_tile
WallBounds(k) == Bounds(Times(Cell(k), TileSize), TileSize)

\* player_input_respond: the keys held, as -1, 0 or 1 on each axis.
InputVelocity(horizontal, vertical) ==
  Times(Vector(horizontal, vertical),
        IF horizontal # 0 /\ vertical # 0 THEN DiagonalSpeed ELSE Speed)

Keys == (-1 .. 1) \X (-1 .. 1)

\* player_on_collision: a speed against the normal is projected on the surface.
PlayerOnCollision(v, normal) ==
  LET surface == Vector(-normal.y, normal.x)
  IN IF Dot(v, normal) < 0 THEN Times(surface, Dot(v, surface)) ELSE v

\* A slip in the scan: touching is left to the next round.
NeverTouches(toi) == FALSE
Touches(toi) == toi.n = 0

\* One turn of the scan of calc_first_toi_collisions: the player, the first of
\* the colliders, and a wall.  Walls are not checked with each other.
CheckWall(found, k, time) ==
  LET c == CheckAABBCollision(Bounds(pos, PlayerSize), WallBounds(k),
                              Times(found.vel, time))
  IN CASE Touches(c.toi) ->
            [found EXCEPT !.vel = PlayerOnCollision(@, c.normal)]
       [] IsValidToi(c.toi) /\ SameAs(c.toi, found.toi) ->
            [found EXCEPT !.normals = Append(@, c.normal)]
       [] IsValidToi(c.toi) /\ Before(c.toi, found.toi) ->
            [found EXCEPT !.normals = <<c.normal>>, !.toi = c.toi]
       [] OTHER -> found

\* calc_first_toi_collisions: the collisions, the toi it returns, and what the
\* callbacks called in mid-scan made of the velocity.
FirstCollisions(time) ==
  LET after[k \in 0 .. CellCount] ==   \* what was found among the first k cells
        IF k = 0 THEN [vel |-> vel, toi |-> Never, normals |-> << >>]
        ELSE IF k - 1 \in Walls THEN CheckWall(after[k - 1], k - 1, time)
        ELSE after[k - 1]
      scan == after[CellCount]
  IN IF IsValidToi(scan.toi) THEN scan ELSE [scan EXCEPT !.toi = Ratio(1, 1)]

\* The callbacks of the collisions found.
Resolved(v, normals) ==
  LET after[i \in 0 .. Len(normals)] ==
        IF i = 0 THEN v ELSE PlayerOnCollision(after[i - 1], normals[i])
  IN after[Len(normals)]

-----------------------------------------------------------------------------
\* init_player
Init ==
  /\ pos = Start
  /\ vel = VEC_ZERO
  /\ deltaTime = 0
  /\ passedTime = Ratio(0, 1)
  /\ iterations = 0
  /\ stepping = FALSE
  /\ from = pos /\ asked = VEC_ZERO

\* player_update and the call of physics_step.
BeginFrame ==
  /\ ~stepping
  /\ \E keys \in Keys : vel' = InputVelocity(keys[1], keys[2])
  /\ deltaTime' \in FrameTimes
  /\ passedTime' = Ratio(0, 1)
  /\ iterations' = 0
  /\ stepping' = TRUE
  /\ from' = pos /\ asked' = vel'
  /\ UNCHANGED pos

\* remaining_time is a float, passed to int parameters; in the slip it is rounded
\* up.
RoundedUp(time) == -((-time.n) \div time.d)
Truncated(time) == time.n \div time.d

\* Slips: the time that passed is not scaled to what remained.
SumUnscaled(time, toi) == Ratio(passedTime.n * toi.d + passedTime.d * toi.n,
                                passedTime.d * toi.d)
Sum(time, toi) == Ratio(passedTime.n * toi.d + time.n * toi.n, passedTime.d * toi.d)

\* The loop of physics_step goes on.
TimeLeft == passedTime.n < deltaTime * passedTime.d /\ iterations < Cap

\* A round of physics_step, with objects_move and the collisions it resolves.
Round ==
  LET remaining == Ratio(deltaTime * passedTime.d - passedTime.n, passedTime.d)
      time == Truncated(remaining)
      found == FirstCollisions(time)
      way == Times(found.vel, time * found.toi.n)
  IN
  /\ stepping /\ TimeLeft
  /\ pos' = Plus(pos, Vector(way.x \div found.toi.d, way.y \div found.toi.d))
  /\ vel' = Resolved(found.vel, found.normals)
  /\ passedTime' = Sum(remaining, found.toi)
  /\ iterations' = iterations + 1
  /\ UNCHANGED <<deltaTime, stepping, from, asked>>

EndFrame ==
  /\ stepping /\ ~TimeLeft
  /\ stepping' = FALSE
  /\ UNCHANGED <<pos, vel, deltaTime, passedTime, iterations, from, asked>>

Next == BeginFrame \/ Round \/ EndFrame

Spec == Init /\ [][Next]_vars

-----------------------------------------------------------------------------
Room == [left |-> TileSize \div 2, right |-> (Side - 1) * TileSize - TileSize \div 2,
         down |-> TileSize \div 2, up    |-> (Side - 1) * TileSize - TileSize \div 2]

\* The variables have their types, and a frame takes at most three rounds: after
\* a collision on each axis nothing is left to move.  So the cap, and the ERROR
\* about it, are out of the player's reach.
TypeOK ==
  /\ {pos.x, pos.y, from.x, from.y} \subseteq Room.left .. Room.right
  /\ {vel, asked} \subseteq {InputVelocity(k[1], k[2]) : k \in Keys}
                             \cup [x : {0, DiagonalSpeed, -DiagonalSpeed},
                                   y : {0, DiagonalSpeed, -DiagonalSpeed}]
  /\ deltaTime \in FrameTimes \cup {0}
  /\ passedTime.n \in Nat /\ passedTime.d \in Nat \ {0}
  /\ iterations \in 0 .. 3
  /\ stepping \in BOOLEAN

\* The player never gets into or through a wall, although a wall it touches
\* changes its speed in the middle of a scan whose earlier walls were swept with
\* the old one, and boxes that meet in an exact corner are not seen to collide.
StaysInRoom ==
  LET b == Bounds(pos, PlayerSize) IN
  /\ Room.left <= b.left /\ b.right <= Room.right
  /\ Room.down <= b.down /\ b.up <= Room.up

Abs(x) == IF x < 0 THEN -x ELSE x

\* Cutting the rest of a frame to whole milliseconds only ever costs time, and
\* less than one millisecond in each round after the first: the player is nowhere
\* further than its speed allows, and on an axis where it still moves not behind
\* by more than that.
KeepsTime ==
  \A axis \in {"x", "y"} :
    LET moved == Abs(pos[axis] - from[axis]) * passedTime.d
        due == Abs(asked[axis]) * passedTime.n
        cut == Abs(asked[axis]) * passedTime.d * (iterations - 1)
    IN /\ moved <= due
       /\ vel[axis] # 0 /\ iterations > 0 => moved >= due - cut

Overlaps(b1, b2) == b1.left < b2.right /\ b2.left < b1.right
                    /\ b1.down < b2.up /\ b2.down < b1.up

ShotMeetsWall(speed) ==
  LET bullet == Bounds(pos, BulletSize)
      way == Times(speed, deltaTime)
      tois == {CheckAABBCollision(bullet, WallBounds(k), way).toi : k \in Walls}
      hits == {t \in tois : IsValidToi(t)}
      stop == IF hits = {} THEN Ratio(1, 1)
              ELSE CHOOSE t \in hits : \A u \in hits : ~Before(u, t)
      At(t) == Bounds(Vector(pos.x * t.d * 2 + way.x * t.n * 2, pos.y * t.d * 2 + way.y * t.n * 2),
                      BulletSize * t.d * 2)
      Wall(k, t) == Bounds(Times(Cell(k), TileSize * t.d * 2), TileSize * t.d * 2)
      InWall(t) == \E k \in Walls : Overlaps(At(t), Wall(k, t))
  IN \A i \in 0 .. Instants : ~Before(stop, Ratio(i, Instants)) => ~InWall(Ratio(i, Instants))

ShotPassesPlayer(speed) ==
  LET player == FirstCollisions(deltaTime).vel
      c == CheckAABBCollision(Bounds(pos, PlayerSize), Bounds(pos, BulletSize),
                              Times(Minus(player, speed), deltaTime))
  IN ~IsValidToi(c.toi) /\ ~Touches(c.toi)

\* init_bullet puts a bullet where the player is, so that the two overlap.  In its
\* first sweep it hits no wall later than it gets to one, at any speed, and never
\* the player that fired it, whatever the player does.
ShotsHitWallsOnly ==
  stepping /\ iterations = 0 =>
    \A speed \in BulletSpeeds :
      /\ ShotPassesPlayer(speed)
      /\ asked = VEC_ZERO => ShotMeetsWall(speed)
=============================================================================
