------------------------------ MODULE MCPhysics ------------------------------
(* A room of 4 x 4 tiles, two of them free on each side.                     *)
EXTENDS Physics

\* In the middle of the room.
MCStart == Vector(15, 15)

\* About 1.5 times the player's speed, as in player_shoot: along an axis, on a
\* diagonal, and in between; or none, when the mouse is on the player.
MCBulletSpeeds ==
  {Vector(5, 0), Vector(0, -5), Vector(3, 3), Vector(-3, 3), Vector(4, -2), Vector(-2, -4),
   VEC_ZERO}
=============================================================================
