------------------------------ MODULE GameFrame ------------------------------
(***************************************************************************)
(* One frame of the game after another: update of lib/engine/loop.c and    *)
(* what it calls in lib/engine and common, on the pools of Pool.           *)
(*                                                                         *)
(* The frame iterates dense arrays while what it calls adds entities and   *)
(* marks others for removal; marked entities are removed at its end.  The  *)
(* model keeps the entities, which components each has, the collision      *)
(* callbacks, lifetimes, and the order of all loops.  Positions and speeds *)
(* are left out: whether and when two colliders meet is a free choice.     *)
(***************************************************************************)
EXTENDS Pool, Sequences

CONSTANTS
  MaxEntities,      \* bound on the entities created (the code has none)
  Walls,            \* wall tiles of init_walls, 36 in the code
  ParticlesPerHit,  \* particles of one explosion, 25 in the code
  Lifetimes,        \* what a particle's lifetime can be, in frames
  IterationCap      \* `cap` of physics_step, 100 in the code

ASSUME FrameAssumption ==
  /\ MaxEntities \in Nat /\ Walls \in Nat /\ Walls + 2 <= MaxEntities
  /\ ParticlesPerHit \in Nat
  /\ Lifetimes \subseteq Nat \ {0}
  /\ IterationCap \in Nat \ {0}

VARIABLES
  pools,        \* the component pools
  sparseCount,  \* entities ever created
  removed,      \* state->removed, the entities marked in this frame
  collisions,   \* state->collisions, pairs of entities
  running,      \* state->running
  lmb,          \* state->inputs.lmb
  phase,        \* where update is
  i, j,         \* indices of the loop it is in
  iterations,   \* rounds of physics_step
  doomed,       \* history: every entity ever marked
  aged          \* history: the entities lifetime_tick has been to in this frame

entities == <<pools, sparseCount>>
inputs == <<running, lmb>>
history == <<doomed, aged>>
vars == <<entities, inputs, history, removed, collisions, phase, i, j, iterations>>

\* The ids register_engine_components gives.
Position  == 0
Velocity  == 1
Rigidbody == 2
Collider  == 3
Sprite    == 4
Lifetime  == 5

\* A collider's data is its callback, and it is static if that is none; a
\* lifetime's data is the time left; other data is left out.
Data == 0
NoCallback     == 0
PlayerCallback == 1
BulletCallback == 2

-----------------------------------------------------------------------------
\* The components each kind of entity is given: init_camera, init_player,
\* init_wall_tile, init_bullet and init_explosion_particle.
CameraKit == [c \in {Position, Velocity, Sprite} |-> Data]
PlayerKit == [c \in {Position, Sprite, Collider, Velocity} |->
                IF c = Collider THEN PlayerCallback ELSE Data]
WallKit   == [c \in {Position, Sprite, Collider} |->
                IF c = Collider THEN NoCallback ELSE Data]
\* A slip: a bullet without its speed.
BulletWithoutSpeedKit == [c \in {Position, Rigidbody, Collider, Sprite} |->
                            IF c = Collider THEN BulletCallback ELSE Data]
BulletKit == [c \in {Position, Velocity, Rigidbody, Collider, Sprite} |->
                IF c = Collider THEN BulletCallback ELSE Data]
\* A slip: particles that collide.
CollidingParticleKit(lifetime) ==
  [c \in {Position, Sprite, Lifetime, Collider} |->
     IF c = Lifetime THEN lifetime ELSE Data]
ParticleKit(lifetime) == [c \in {Position, Sprite, Lifetime} |->
                            IF c = Lifetime THEN lifetime ELSE Data]

\* add_entity, then add_component for each component of the kit: what this does
\* to the pool of component c.
Spawned(pool, c, n, kit) ==
  LET extended == ExtendPool(pool, n, IF n = pool.sparseAlloc
                                      THEN Grown(n) ELSE pool.sparseAlloc)
  IN IF c \in DOMAIN kit THEN AddToPool(extended, n, kit[c]) ELSE extended

\* The pool of c after k such entities, the first of them n.
SpawnedTimes(pool, c, n, kit, k) ==
  LET after[m \in 0 .. k] ==
        IF m = 0 THEN pool ELSE Spawned(after[m - 1], c, n + m - 1, kit)
  IN after[k]

SpawnMany(ps, n, kit, k) == [c \in 0 .. 5 |-> SpawnedTimes(ps[c], c, n, kit, k)]

Spawn(ps, n, kit) == SpawnMany(ps, n, kit, 1)

Camera == 0  \* global.camera
Player == 1  \* global.player.id

Has(e, c) == HasComponent(pools[c], e)

\* What get_component returns the address of.
Component(e, c) == GetComponent(pools[c], e)

\* init_game
Init ==
  LET empty  == [c \in 0 .. 5 |-> EmptyPool]
      people == Spawn(Spawn(empty, Camera, CameraKit), Player, PlayerKit)
  IN
  /\ pools = SpawnMany(people, 2, WallKit, Walls)
  /\ sparseCount = 2 + Walls
  /\ removed = << >>
  /\ collisions = << >>
  /\ running = TRUE
  /\ lmb = FALSE
  /\ phase = "input"
  /\ i = 0 /\ j = 0
  /\ iterations = 0
  /\ doomed = {}
  /\ aged = {}

\* mark_to_remove
Mark(marked) ==
  /\ removed' = removed \o marked
  /\ doomed' = doomed \cup {marked[k] : k \in 1 .. Len(marked)}

\* update goes on to the next part of the frame.
GoTo(part) ==
  /\ phase' = part
  /\ i' = 0 /\ j' = 0

-----------------------------------------------------------------------------
\* handle_input: the events of this frame.  QUIT ends its loop, not the frame.
HandleInput ==
  /\ phase = "input"
  /\ lmb' \in BOOLEAN
  /\ running' \in {running, FALSE}
  /\ GoTo("lifetime")
  /\ UNCHANGED <<entities, removed, collisions, iterations, history>>

\* The loop's end; in the slip, one turn early.
TickedButOne == i + 1 >= pools[Lifetime].denseCount
AllTicked == i >= pools[Lifetime].denseCount

\* lifetime_tick: one turn of its loop, or its end.
LifetimeTick ==
  /\ phase = "lifetime"
  /\ IF AllTicked
     THEN /\ GoTo("before")
          /\ UNCHANGED <<pools, removed, history>>
     ELSE LET e == pools[Lifetime].denseToSparse[i]
              left == Component(e, Lifetime) - 1
          IN /\ pools' = [pools EXCEPT ![Lifetime] = WriteInPool(@, e, left)]
             /\ Mark(IF left <= 0 THEN <<e>> ELSE << >>)
             /\ aged' = aged \cup {e}
             /\ i' = i + 1
             /\ UNCHANGED <<phase, j>>
  /\ UNCHANGED <<sparseCount, collisions, inputs, iterations>>

\* before_physics: player_update, where a click shoots a bullet.
BeforePhysics ==
  /\ phase = "before"
  /\ IF lmb /\ sparseCount < MaxEntities
     THEN /\ pools' = Spawn(pools, sparseCount, BulletKit)
          /\ sparseCount' = sparseCount + 1
     ELSE UNCHANGED <<entities>>
  /\ aged' = {}
  /\ GoTo("forces")
  /\ UNCHANGED <<removed, collisions, inputs, iterations, doomed>>

\* apply_forces changes speeds only.  physics_step begins; a frame of no time
\* has no round.
ApplyForces ==
  /\ phase = "forces"
  /\ iterations' = 0
  /\ GoTo("round") \/ GoTo("after")
  /\ UNCHANGED <<entities, removed, collisions, inputs, history>>

\* A round of physics_step: calc_first_toi_collisions starts its scan.
StartRound ==
  /\ phase = "round"
  /\ collisions' = << >>
  /\ phase' = "scan"
  /\ i' = 0 /\ j' = 1
  /\ UNCHANGED <<entities, removed, inputs, iterations, history>>

\* bullet_on_collision marks self; in the slip it marks other.
BulletIn(e) ==
  IF Component(e, Collider) = BulletCallback /\ Has(e, Position) THEN <<e>> ELSE << >>

Bullets(pair) == BulletIn(pair[1]) \o BulletIn(pair[2])

MarkedByMarkingOther(pair) ==
  [k \in 1 .. Len(Bullets(pair)) |-> IF Bullets(pair)[k] = pair[1] THEN pair[2] ELSE pair[1]]

MarkedBy(pair) == Bullets(pair)

\* resolve_collision: the callback of each of the two.  A bullet explodes and is
\* marked, again if it was before; a player only loses speed.
Resolve(pair) ==
  LET particles == Len(Bullets(pair)) * ParticlesPerHit IN
  /\ sparseCount + particles <= MaxEntities
  /\ \E lifetime \in Lifetimes :
       pools' = SpawnMany(pools, sparseCount, ParticleKit(lifetime), particles)
  /\ sparseCount' = sparseCount + particles
  /\ Mark(MarkedBy(pair))

\* The two colliders of this turn of the scan.
Pair == <<pools[Collider].denseToSparse[i], pools[Collider].denseToSparse[j]>>

BothStatic ==
  \A k \in 1 .. 2 : Component(Pair[k], Collider) = NoCallback

\* The next turn of the two nested loops.
Advance ==
  /\ IF j + 1 < pools[Collider].denseCount
     THEN i' = i /\ j' = j + 1
     ELSE i' = i + 1 /\ j' = i + 2
  /\ UNCHANGED phase

Scanning == phase = "scan" /\ j < pools[Collider].denseCount

\* Two colliders that do not meet in this round, or meet after the first hit.
Miss ==
  /\ Scanning
  /\ Advance
  /\ UNCHANGED <<entities, removed, collisions, inputs, iterations, history>>

\* Two that touch already (toi == 0): resolved at once, in mid-scan.
Touch ==
  /\ Scanning /\ ~BothStatic
  /\ Resolve(Pair)
  /\ Advance
  /\ UNCHANGED <<collisions, inputs, iterations, aged>>

\* Two that meet before any found so far, or (the second) at the same time.
Earlier ==
  /\ Scanning /\ ~BothStatic
  /\ collisions' = <<Pair>>
  /\ Advance
  /\ UNCHANGED <<entities, removed, inputs, iterations, history>>

SameTime ==
  /\ Scanning /\ ~BothStatic
  /\ collisions # << >>
  /\ collisions' = Append(collisions, Pair)
  /\ Advance
  /\ UNCHANGED <<entities, removed, inputs, iterations, history>>

\* The scan is over; objects_move moves what has a velocity.
Move ==
  /\ phase = "scan" /\ ~Scanning
  /\ GoTo("resolve")
  /\ UNCHANGED <<entities, removed, collisions, inputs, iterations, history>>

\* One turn of the loop over the collisions.
ResolveNext ==
  /\ phase = "resolve" /\ i < Len(collisions)
  /\ Resolve(collisions[i + 1])
  /\ i' = i + 1
  /\ UNCHANGED <<collisions, inputs, phase, j, iterations, aged>>

\* Bound: a hit for whose particles there is no room is left out.
SkipHit ==
  /\ phase = "resolve" /\ i < Len(collisions)
  /\ sparseCount + 2 * ParticlesPerHit > MaxEntities
  /\ i' = i + 1
  /\ UNCHANGED <<entities, removed, collisions, inputs, phase, j, iterations, history>>

\* Slips: the iterations are not counted; the cap is compared with <=.
NotCounted == iterations
PastCap(n) == n <= IterationCap
Counted == iterations + 1
BelowCap(n) == n < IterationCap

\* The end of a round.  There may be time left, after a collision or because
\* the floats that sum it are inexact, for as long as the cap allows.
EndRound ==
  /\ phase = "resolve" /\ i = Len(collisions)
  /\ iterations' = Counted
  /\ \/ GoTo("after")
     \/ BelowCap(Counted) /\ GoTo("round")
  /\ UNCHANGED <<entities, removed, collisions, inputs, history>>

\* after_physics: camera_follow copies a position.
AfterPhysics ==
  /\ phase = "after"
  /\ GoTo("remove")
  /\ UNCHANGED <<entities, removed, collisions, inputs, iterations, history>>

\* The loop's end; in the slip, one turn early.
RemovedButOne == i + 1 >= Len(removed)
AllRemoved == i = Len(removed)

\* remove_marked: one turn of its loop, or its end.
RemoveMarked ==
  /\ phase = "remove"
  /\ IF AllRemoved
     THEN /\ removed' = << >>
          /\ GoTo("draw")
          /\ UNCHANGED pools
     ELSE /\ pools' = [c \in 0 .. 5 |-> RemoveFromPool(pools[c], removed[i + 1])]
          /\ i' = i + 1
          /\ UNCHANGED <<removed, phase, j>>
  /\ UNCHANGED <<sparseCount, collisions, inputs, iterations, history>>

\* draw_state, and client_update's answer to run_every: another frame, or none.
Draw ==
  /\ phase = "draw"
  /\ GoTo(IF running THEN "input" ELSE "stopped")
  /\ UNCHANGED <<entities, removed, collisions, inputs, iterations, history>>

Next ==
  \/ HandleInput \/ LifetimeTick \/ BeforePhysics \/ ApplyForces
  \/ StartRound \/ Miss \/ Touch \/ Earlier \/ SameTime \/ Move
  \/ ResolveNext \/ SkipHit \/ EndRound
  \/ AfterPhysics \/ RemoveMarked \/ Draw

Spec == Init /\ [][Next]_vars

\* The game is one thread that keeps running.  Every step moves it on.
FairSpec == Spec /\ WF_<<phase, i, j>>(Next)

-----------------------------------------------------------------------------
Entity == 0 .. sparseCount - 1

TypeOK ==
  /\ sparseCount \in 0 .. MaxEntities
  /\ \A c \in 0 .. 5 : PoolType(Int, sparseCount, pools[c])
  /\ removed \in Seq(Entity)
  /\ collisions \in Seq(Entity \X Entity)
  /\ running \in BOOLEAN /\ lmb \in BOOLEAN
  /\ phase \in {"input", "lifetime", "before", "forces", "round", "scan", "resolve",
                "after", "remove", "draw", "stopped"}
  /\ i \in Nat /\ j \in Nat
  /\ iterations \in 0 .. IterationCap
  /\ doomed \subseteq Entity /\ aged \subseteq Entity

\* What the loops look up without has_component is there: the position of what
\* moves, collides or is drawn, the speed of what has a force, the collider of
\* both sides of a collision found earlier in the round.
LookupsFind ==
  /\ \A e \in Entity :
       /\ (\E c \in {Velocity, Collider, Sprite} : Has(e, c)) => Has(e, Position)
       /\ Has(e, Rigidbody) => Has(e, Velocity)
  /\ phase \in {"scan", "resolve"} =>
       \A k \in 1 .. Len(collisions) :
         Has(collisions[k][1], Collider) /\ Has(collisions[k][2], Collider)

\* The player and the camera keep what player_update, camera_follow, the drawing and
\* the aiming (both look up the camera's sprite) and the scan (whose bound,
\* dense_count - 1, needs a collider) look up, whatever hits the player and whatever the
\* frame removes.
EssentialsLast ==
  /\ \A c \in {Position, Velocity, Collider} : Has(Player, c)
  /\ \A c \in {Position, Sprite} : Has(Camera, c)
  /\ pools[Collider].denseCount > 0

\* Callbacks may add entities in mid-scan and mid-resolution: the dense arrays of
\* the colliders, into which the physics then holds indices and pointers, stay
\* where and what they are.
DenseArrays(pool) == <<pool.dense, pool.denseToSparse, pool.denseCount, pool.denseCapacity>>

CollidersStay ==
  [][(phase \in {"scan", "resolve"}) =>
       DenseArrays(pools'[Collider]) = DenseArrays(pools[Collider])]_vars

\* lifetime_tick iterates the very pool that what it finds is removed from: in
\* every frame all particles age, and none whose time is over is drawn.
ParticlesAge ==
  /\ phase = "before" =>
       \A e \in Entity : Has(e, Lifetime) => e \in aged
  /\ phase = "draw" =>
       \A k \in 0 .. pools[Lifetime].denseCount - 1 : pools[Lifetime].dense[k] > 0

\* An entity that was marked, once or several times, is gone from every pool
\* when its frame ends and never comes back.
MarkedAreGone ==
  phase \in {"draw", "input", "stopped"} =>
    \A e \in doomed, c \in 0 .. 5 : ~Has(e, c)

\* Every frame comes to its end, however many collisions the physics finds.
FrameEnds == (phase = "input") ~> (phase = "draw")
=============================================================================
