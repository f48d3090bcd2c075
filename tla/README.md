# TLA+ verification of nukers

nukers is a small multiplayer game in C: a client with an entity-component engine, collision
physics and a frame loop, and a TCP server library with a matchmaking queue. This directory
holds its specifications, the TLC configurations that check them, and machine-checked proofs.
Paths below are relative to the repository.

## 1. The system

### Components

| Component | Code | State | Operations |
|---|---|---|---|
| entity manager | `include/engine/entity_manager.h` | per component a pool (`sparse`, `dense`, `dense_to_sparse`, counts and capacities); entity count and capacity | register a component; add an entity; add, get, has, remove a component; remove an entity |
| registry, deferred removal | `src/lib/engine/engine.c` | `state->removed` | register the engine's components, mark, remove the marked |
| lifetimes | `src/lib/engine/lifetime.c` | the lifetime pool | tick |
| physics | `src/lib/engine/physics.c` | `state->collisions`, positions, speeds, forces | forces, pair scan, move, resolve, capped iteration |
| frame loop | `src/lib/engine/loop.c`, `src/client/main.c` | `state->running` | `update`, `client_update` |
| input | `src/lib/engine/input.c` | `state->inputs` | poll events |
| game logic | `src/common/*.c` | `global` | level, player, camera, bullets and explosions; collision callbacks |
| frame timer | `src/lib/run_every.c` | locals of one loop | read the clock, call, sleep |
| thread-safe queue | `src/lib/ts_queue.c` | linked nodes, size, mutex | new, enqueue, dequeue, remove, destroy |
| TCP server | `src/lib/server.c` | client queue, descriptors | accept loop, send, disconnection, connect |
| matchmaking | `src/lib/matchmaking.c` | room list, condition variable | matcher loop, callbacks, disband |
| wire format | `include/krft/bin_array.h` | cursor, size and buffer | write, append and read integers and scaled floats, in both byte orders |
| arrays | `include/krft/darray.h`, `sdarray.h` | size and capacity | push, resize |
| vectors, rendering, logging | `vector.c`, `render.c`, `log.h`, `utility.h` | none | arithmetic, drawing, printing |
| server program | `src/server/main.c` | none (an empty file) | |

### How they interact

The client is one thread. `run_every` calls `client_update`, which calls `update`: input,
lifetimes, player (a click adds a bullet), forces, physics, camera, removal of the marked,
drawing. Everything works on the entity manager's pools, most of it by iterating a dense array;
the physics calls the colliders' callbacks, and a bullet's callback adds the particles of an
explosion and marks the bullet.

The server library has three kinds of threads. The acceptor (`server_worker`) queues a
`client_t` for each connection and starts a detached thread for it. That thread signals
`mm_q_has_match` and runs the `on_connection` callback. The matcher (`matchmaking_worker`) waits
on that condition with the client queue's mutex, moves `ROOM_SIZE` clients at a time from the
queue to a room, and starts a detached thread that runs `on_match`. A callback's `server_send`
that fails takes the client out of the queue, under the same mutex. `src/server/main.c` is
empty, so the callbacks are not in the repository: the model allows any that send at any time,
in any number, but no more to a client for which `server_send` returned -1 to the same callback.

### What is hard, and what makes each part correct

* Entity manager: swap-removal rewires two maps at once and growth is tracked twice. The maps
  must stay inverse; no write may pass an allocation; an operation on one entity must not touch
  another's data.
* Frame: arrays are iterated while callbacks add to them and mark from them; an entity may be
  marked twice. What the loops hold must stay valid; the marked must go, the others stay; the frame must end.
* Physics: speeds change in the middle of the scan that uses them, a bullet starts inside the
  player, the rest of a frame is cut to whole milliseconds. The player must stay among the walls,
  no wall may be missed, no time lost beyond the cut.
* Sockets: any call may fail, `send` takes parts, two threads send to one client. No descriptor
  may be left, no byte lost or repeated, no sender left waiting for more than room.
* Wire format: one cursor for writing and reading, sizes that may shrink, signs and byte orders.
  What is sent was written; what is read is what was written.
* Timer: truncated, wrapping milliseconds. Deltas must be true and frames not early.
* Queue: neighbours read before links are rewritten. One list at all times, no leak, FIFO.
* Matchmaking: lost signals, descriptors reused as ids, a disconnection racing a match, failing
  allocations, memory shared between detached threads. Nobody lost or seated twice, nobody's
  connection closed by another, order of arrival kept, everyone matched in the end.

`PROJECT.json` lists the hazards at their lines with the properties aimed at each.

## 2. The modules

| Module | Models | Kind |
|---|---|---|
| `EntityStore` | what the entity manager promises: a partial function per component | abstract specification |
| `Pool` | the per-pool functions of `entity_manager.h` | operators |
| `EntityManager` | `entity_manager.h`, whole, on pools of `Pool` | implements `EntityStore` |
| `Fifo` | what the queue promises | abstract specification |
| `TsQueue` | `ts_queue.c` on a heap of nodes, with threads | implements `Fifo` |
| `TsQueueRemove` | `TsQueue` with `ts_queue_remove`, which nothing calls | extends `TsQueue` |
| `Lobby` | what matchmaking promises: first come, first served | abstract specification |
| `Matchmaking` | `server.c` and `matchmaking.c`, built from the steps of `Fifo` | implements `Lobby` |
| `GameFrame` | `loop.c`, `lifetime.c`, `engine.c`, `physics.c`, `bullet.c`, `player.c`, `logic.c`, on pools of `Pool` | composition |
| `RunEvery` | `run_every.c` | |
| `Sweep` | the geometry of `physics.c`, `vector.c`, `AABB_get_bounds` | operators |
| `Physics` | `physics_step` on the player, the walls of `logic.c` and a new bullet | uses `Sweep` |
| `Sockets` | `server_set_fd`, `connect_to_server`, `sendall` of `server.c` | |
| `BinArr` | `bin_array.h` | |
| `MC*` | constants and symmetry for TLC | |
| `EntityManagerProofs`, `TsQueueProofs`, `MatchmakingProofs`, `GameFrameProofs`, `RunEveryProofs`, `PhysicsProofs`, `WireProofs` (of `Sockets` and `BinArr`) | | theorems, section 4 |
| `Lemmas` | | lemmas about pools, numbers and sequences, used by these |

In all of them a variable is a field or a local of the code under its own name, and an action is
an operation, or the part of one between two points where another thread (or a callback) can
come in. An operator commented "a slip" is a plausible mistake in the definition that follows
it; none is used by a specification. `PROJECT.json` names, for every property, the slip that
breaks it.

**EntityManager.** An array is a function on its live cells; capacities are numbers, so that a
write past an allocation is visible (`WithinCapacity`). `ExtendPool`, `AddToPool`, `WriteInPool` and
`RemoveFromPool` of `Pool` are the per-pool functions of the header, and `Next` calls them as the header's functions
do. `RegisterComponent` is guarded by `sparseCount = 0`: `init_game` registers everything first.
`AddComponent` requires that the component is absent: a DEBUG build reports the contrary as an error.

**TsQueue.** One step for taking the lock, one for allocating a node and reading the neighbours,
one for rewriting the links, one for unlocking. The mutex is what orders them: with `MutexFree`
ignored `WellFormed` fails. `Find` is the walk in `server_handle_disconnection`, which
removes a node from anywhere. `ts_queue_destroy` takes no lock, so it is for the last user.

**Matchmaking.** `TsQueue` justifies taking a section under the mutex as one step on a sequence;
only where the section does something others see without the mutex is it divided (`CloseFd`, since `accept`
may return the closed descriptor before the node is removed). `owner` is the process's
descriptor table; `accept` returns the lowest free descriptor. `freed` are the clients
whose memory was freed. `Faults` says which allocations may fail: `conn_data`
(`SpawnFails`), the room (`RoomMallocFails`, after which the matcher is gone and the mutex
held), the room's thread (`RoomThreadFails`).

**GameFrame.** `phase`, `i` and `j` are where `update` is and the indices of its loop. The pools are
real pools, with the operators of `Pool`, so the order of dense arrays is the order of
the code's loops. Whether two colliders touch at once, meet first, meet at the same time or miss is a free choice, so
the model has every run the geometry can have, and more; `Physics` has the geometry itself. Positions, speeds, forces and sizes are
left out: no property here depends on them. A collider's data is its callback; only players and bullets have one, and only
those are dynamic, so `type` is not a field of its own.

**RunEvery.** `now` is the monotonic clock in ticks; `AsInt` is the conversion to `int`. Time may pass between
any two statements. The subtraction of two ints that straddles the wrap is signed overflow; the
Makefile builds with gcc at -O0 or -O1 and the difference is only stored and passed on, so
the model takes the machine's result.

**Sweep and Physics.** `CheckAABBCollision` is the function of the code, side by side: the two
times of impact an axis gives, the overlap on the other axis, the least of those that count, and
the sum of the normals of all sides with that time (`NormalAt`). Times are exact ratios, so that `toi == 0`
and `toi == toi_min` mean what they say; a division by zero, whose infinity or NaN
fails every later comparison of the code, gives no side. `Round` is one turn of
`physics_step`, with the scan of `calc_first_toi_collisions` over the walls in the order
`init_walls` makes them (a recursive function over the cells of the room), including the callback of a wall that is touched already, which changes
the speed the next walls are swept with. `vector_normalize` is replaced by its result: the keys
give eight directions, and `DiagonalSpeed` is the speed of a diagonal on each axis. A toi is a distance
along an axis over the way along it, and a diagonal is as fast on both, so every position is an
integer and the division in `Round` is exact. What floats add on top, a rounding of every position, is not modelled. A bullet is not
part of the state: `ShotsHitWallsOnly` asks about its first sweep in every state a frame
can begin in.

`PhysicsAssumption` says that a frame is short: the player gets less far than its own size on a
diagonal. The code does not check it. In a longer frame (56 ms and more; `main.c`
asks for 1000 / 144 = 6) a player that slides along one wall can enter the next one: that was swept, before the
first was found to be touched, with a speed that passes by it. Two more things one can see in the
model and that nothing in the repository forbids: two boxes that meet in an exact corner are not seen to
collide, and a player that slides along a wall may be stopped for the rest of a frame at
the seam of two tiles.

**Sockets.** The three functions system call by system call, each of which may fail. The reads of memory that
was freed or never set are choices over what may come of them: `GetAddrInfo` may return or crash
when it frees an unset pointer, `Connect` may fail on an address list that was freed. `sendall`
runs in several threads for one connection, as the callbacks of `on_connection` and `on_match`
may. A send may fail with a client that is still there, and be taken for one that is gone. `wire` is every byte the connection was given, `taken` how many the client has read; their difference is
what fills the system's buffer. `SentInOrder` says that the bytes of a thread on the wire are
the first `sent[t]` of its buffer, each once and in increasing order, also when the call failed.

**BinArr.** A byte has `Base` values, so that a number of four bytes is small enough to try.
`Put` is the write, in the byte order asked for; `WriteNumber` is that alone, and `AppendNumber` sets
the size to the cursor. `ReadNumber` moves the cursor only; `ReadInteger` is what it returns, the bytes
put together from the most significant down. `items` is a history variable: the numbers no later write
has touched (`KeptItems`). A float is a number of steps of
`1 / FloatUnit` whose significand has at most `Precision` values; `Rounded` is the result of a product, a
quotient or a conversion, the nearest float with ties to even. `FloatToInt` is the rounded product cut to an
integer, `IntToFloat` the rounded quotient. `ReadsBack` therefore bounds what comes back on both sides of what
was written: it may be more. Capacity and size are checked by
no function, so they are guards here: the caller's care. `Rewind` is the caller's too, as no
function moves the cursor back.

## 3. The runs

| Run | Bounds | What it shows |
|---|---|---|
| `entity_manager` | 2 components, 3 entities, 2 values | all index maps inverse, no overrun, refines `EntityStore` |
| `ts_queue` | 3 threads, 4 nodes, 2 items | one well-formed list, no leak or use after free, refines `Fifo` |
| `ts_queue_remove` | 2 threads, 2 nodes | finding: `ts_queue_remove` deadlocks with itself |
| `matchmaking` | 3 clients, 3 descriptors, all faults, 9 failed sends | descriptors, ids and memory under every failure |
| `matchmaking_rooms` | 4 clients, 2 rooms, 1 failed send | nobody lost or seated twice, no lost wake-up, refines `Lobby` |
| `matchmaking_live` | 3 clients, 2 descriptors, 1 failed send | matching, callbacks and failing sends come to an end |
| `matchmaking_spawn` | 2 clients, `conn_data` may fail | finding: `on_connection` is not called |
| `game_frame` | 1 wall, 6 entities, 1 particle a hit, 2 rounds a step | lookups, iteration, removal, termination of frames |
| `run_every` | 16 int values, 3 ticks a ms, interval 2 ms, 25 ms | true deltas, no early frame, over several wraps |
| `physics` | 4 x 4 tiles of 10, player 8, bullet 2, speeds 3 and 2, frames of 1 to 3 ms, 7 shots | no wall entered, no time lost, at most 3 rounds a frame, shots meet walls |
| `sockets` | 2 addresses, 2 descriptors, 2 senders, messages of 0, 1 and 3 bytes, a buffer of 2 | descriptors on every path, order of bytes, senders return |
| `bin_arr` | bytes of 4 values, capacity 5, 5 numbers, floats of 6 bits in steps of 1/64, scale 10 | nothing unwritten is sent, numbers read back |

Why the bounds are enough. Three entities are a removed, a moved and an untouched one, and take
both arrays through every case of growth (0, 1, 2 to 4). Four nodes give a list a front, a
middle and an end with one more being added; three threads let two compete for a mutex a third
holds. Three clients are a pair and one left over; descriptor reuse needs one closed and one
accepted; two rooms need four clients. Nine failed sends are more than three clients and their
threads can have, so that bound never bites there; one failed send in the larger runs is enough
for each disconnection to meet each state of the lobby. Six entities are camera, player, wall, a
bullet and what it leaves, or two bullets and a particle: a bullet can hit twice in one round
(the duplicate mark), and two particles of different ages can share a pool. In the code an
explosion has 25 particles, the step 100 rounds and the level 36 tiles; none of the arguments
depends on the number. In `run_every` the 16 values wrap more than once in 25 ms. The room of `physics` has free
space wider than the player by 12 in each direction, so that it stands clear of, touches and slides along every wall
and corner, at every offset a speed of 2 or 3 gives; a larger room adds places like these. The tiles are shorter
than in the code compared with the player, so that it spans a seam more often.
Two addresses are one that fails and one that follows it; three bytes and room for two make a
`send` partial whatever it takes, and two senders can mix. Five bytes hold one number of
four bytes and one of one, or numbers written half over others; the five numbers are ends of the ranges
(of one byte, two and four, signed and not) and among them is a float that scaling rounds up and one that loses a part
when it is sent on.

The bounds are constants: `MaxEntities` and `SkipHit` (`GameFrame`), `MaxEntities`
(`EntityManager`), `Node` (`TsQueue`), `Client`, `MaxFd`, `MaxFailures` (`Matchmaking`),
`LongestFrame` and `Horizon` (`RunEvery`), `Lengths` and `SendBuffer` (`Sockets`), `Numbers` and
`Capacity` (`BinArr`).

Deadlock checking is off where the system may stop: a destroyed queue, a lobby frozen by a dead
matcher, a game that was quit, a `run_every` that returned, a server set-up and sends that are done. Elsewhere TLC checks it: in
`matchmaking_rooms` and `matchmaking_live` the server can always go on.

### Fairness

`Matchmaking!Fairness`: the acceptor's and the matcher's steps and the steps of a disconnecting
thread are strongly fair, the signal is weakly fair. They need the mutex, which others take and
give back in between; POSIX threads under a fair scheduler get it in the end, and weak fairness
would let the others starve them. No fairness is put on what the environment decides:
connections, failing sends, callbacks that return, spurious wake-ups. So `MatchHappens` does not
rest on a spurious wake-up, and `OnConnectionCalled` says that a callback starts, not that it
returns.

`GameFrame!FairSpec`: weak fairness of `Next`; a single thread that nothing blocks. `FrameEnds`
then rests on the cap of `physics_step` alone, since every round may find a collision.

`Sockets!FairSpec`: weak fairness of the set-up and of each sending thread where the system can
answer its `send` (`Answered`: there is room, or the client is gone), none of a `send` that fails
for another reason, and none of the client, which need not connect, read or go. `SendEnds`
therefore has the client in its premise: a client that neither reads nor closes blocks the sender
for ever, and with it, if the sender is a room's thread, the room.

### Findings

* `ts_queue_remove` (`src/lib/ts_queue.c:103`) ends with a second `pthread_mutex_lock`.
* `server_worker` (`src/lib/server.c:147`): on a failed allocation the client stays queued while
  `on_connection` is not called and no matcher signalled.

Not findings but worth knowing, and visible in the models: a room allocation that fails kills
the matcher with the mutex held, and then nobody joins or leaves the queue or gets a room, and no
client is freed (`DeadMatcherFreezesLobby`); a matched client's descriptor is
never closed, so the descriptors run out; a bullet that hits twice in a tick explodes twice; a
failed send by one thread leaves other threads with a descriptor of a matched client, which
stays open, and with that of a waiting client, which does not: `SendReachesOwnClient` holds
because a waiting client is known to its own thread only; two messages that two threads send to
one client may mix byte by byte; `connect_to_server` leaves its socket open when `connect` fails
(`src/lib/server.c:189-192`); a float that is scaled is rounded first, so that 0.0009f, which is
less than 9 parts of 10000, is stored as 9, and one that is read and sent on may lose a part (7
becomes 6); and frames of 56 ms and more let the player into walls. Two comments of
`include/krft/server.h` do not describe the functions below them, in no way a run could show:
`server_set_fd` (line 32) returns a pointer or NULL, not a descriptor or -1, and `server_worker`
(line 43) never returns.

## 4. The proofs

Each theorem holds for every value of the constants that the module's named assumption allows.
"Runs" of section 3 check the same formulas on small instances.

| Module | Theorem | Statement |
|---|---|---|
| `EntityManagerProofs` | `TypeCorrect`, `IndexMapsAgree`, `AllocationsSuffice` | `Spec => []TypeOK`, `[]SparseDenseAgree`, `[]WithinCapacity` |
| | `ImplementsStore` | `Spec => StoreSpec`: the pools refine `EntityStore` |
| `TsQueueProofs` | `SpecTypeOK`, `SpecWellFormed`, `SpecNodesAccounted` | `Spec => []TypeOK`, `[]WellFormed`, `[]NodesAccounted` |
| | `SpecFifo` | `Spec => FifoSpec`: the linked nodes refine `Fifo` |
| `MatchmakingProofs` | `SpecTypeOK`, `SpecOneHome`, `SpecDescriptorsAccounted`, `SpecUniqueIds`, `SpecSendReachesOwnClient`, `SpecNoUseAfterFree` | `Spec => []` of the invariant of that name |
| | `SpecDeadMatcherFreezesLobby` | the action property of that name |
| | `SpecNoLostWakeup` | `Spec => []NoLostWakeup`, if `"conn_data" \notin Faults` |
| | `SpecLobby` | `Spec => LobbySpec`: server and matcher refine `Lobby` |
| `GameFrameProofs` | `SpecTypeOK`, `SpecLookupsFind`, `SpecEssentialsLast`, `SpecParticlesAge`, `SpecMarkedAreGone` | `Spec => []` of the invariant of that name |
| | `SpecCollidersStay` | the action property of that name |
| `RunEveryProofs` | `SpecTypeOK`, `SpecDeltaIsElapsed`, `SpecNeverEarly` | `Spec => []` of the invariant of that name |
| `PhysicsProofs` | `SpecTypeOK`, `SpecStaysInRoom`, `SpecKeepsTime`, `SpecShotsHitWallsOnly` | `Spec => []` of the invariant of that name |
| `WireProofs` | `SpecTypeOK`, `SpecOnlyTheListener`, `SpecSentInOrder` | `Spec => []` of the invariant of that name, of `Sockets` |
| | `SpecArrayTypeOK`, `SpecReadsBack` | `ArraySpec => []` of the invariant of that name, of `BinArr` |

So every safety invariant, every action property and every refinement that a passing run checks is
also a theorem.

### What is assumed

* `ManagerAssumption`, `FrameAssumption`: bounds are natural numbers, the player, the camera and
  the walls fit, a lifetime is positive, the cap on rounds is not 0.
* `QueueAssumption`: finitely many nodes; `NULL` is none of them and `NoThread` no thread.
* `MatchmakingAssumption`, `NobodyAssumption`: finitely many clients, a room has at least one,
  `NoClient` and `Nobody` are what their names say. `Faults` may be any set of the three.
  `SpecNoLostWakeup` has one hypothesis more, that `conn_data` can be allocated: without it
  the formula is false, which is the finding of `matchmaking_spawn`.
* `RunEveryAssumption`: the interval and the longest time between two readings are together less
  than half the range of an `int`. That is 24 days; the client's interval is 6 ms.
* `SocketsAssumption`: at least one address, one descriptor and one byte of buffer; finitely many senders.
* `PhysicsAssumption`: even sizes, a bullet smaller than the player and the player smaller than a tile,
  free cells inside the walls, a start that is clear of the walls, shots of any integer speed, and
  short frames, of which section 2 says why they are needed. The client's sizes (50, 20 and 5) meet it but for the odd one of the bullet: here lengths
  may be counted in any unit, and in halves they are even.
* `BinArrAssumption`: a byte has an even number of values, a significand at least 4, and the scale is at most a quarter of
  the unit of floats (10000 and 2^149 in the code); any numbers, any capacity. A float is any number that rounding
  leaves alone.

No other fact is taken without proof. The bounds that keep TLC's state space finite (`MaxEntities`,
`MaxFailures`, `Horizon`, `Lengths`, `SendBuffer`) are arbitrary here, so the theorems hold
however large they are.

### How the arguments go

Every proof has the same frame: an invariant that is inductive, one lemma per action that the
action keeps it, one lemma that it implies each property, and the temporal theorems. What
differs is why the properties are not inductive alone.

**EntityManager.** `Inv == TypeOK /\ SparseDenseAgree /\ WithinCapacity`. Neither of the
first two is inductive alone: removal indexes `dense_to_sparse` at the last cell and `sparse` at
what it finds there, so types survive only if the two maps agree, and they agree after it only
if the indices were live. `WithinCapacity` holds the equality of every pool's allocation with
the manager's capacity, without which `__extend_all_sparse` could leave a pool short.
`Lemmas` has one lemma per function of the header that it keeps `PoolInv`, for data of any
kind, and one for what it does to the data of the entity it is about and of all others. The same
lemmas carry `GameFrameProofs`. For `ImplementsStore` they say what each function does to
`View`, the pool read as a partial function.

**TsQueue.** `IsList(q, w)` says that the links describe the sequence `w`, both ways; `W` is
the walk from the head. Lemmas say what linking a node behind `tail` and unlinking the one
between given neighbours make of the list, for lists of any length. `IInv` adds who holds the
mutex (`LockInv`), where every allocated node is (`MemoryInv`, which follows
`ts_queue_destroy` node by node) and, the heart of it, that the neighbours a thread has read are
still the neighbours when it rewrites them (`LocalInv`): a thread that knows some holds the mutex,
and only the holder rewrites. For `SpecFifo` the sequence of `Fifo` is the data along `W`.

**Matchmaking.** `IInv == TypeOK /\ OneHome /\ MutexInv /\ AcceptorInv /\ ThreadInv /\ FdInv /\
IdInv /\ \A t : SendInv(t)`. A disconnection removes the right client because ids are unique in the
queue (`IdInv`). Ids are descriptors, so that rests on each waiting client owning its
descriptor and nobody else owning one (`FdInv`). A descriptor is closed before its node
leaves the queue, so `FdInv` has an exception (`Closing`), and it is no harm because the
mutex is held from the close to the removal (`MutexInv`) and the acceptor, who may get
the descriptor in between, cannot queue it before. A client is only freed by the one thread
that knows it (`ThreadInv`, `SendInv`), which rests on `OneHome`: waiting clients are in no room, so
no room's thread has them. Cutting an element out of a sequence, wherever it is, is a lemma of `Lemmas`.

**GameFrame.** `World` is the invariant of the pools: `PoolInv` of `Lemmas`, which
components come with which (`Kits`), and what the player and the camera are never without and never
have (`Essentials`). `Marks` says that every entity ever marked is gone or in `removed`, past
what `remove_marked` is through with, so that marking twice does no harm and `MarkedAreGone`
follows where the loop ends. `CollisionInv` (both sides of a collision have colliders) holds because
nothing is removed while the list is alive: callbacks only add and mark. `AgingInv` says that
the loop of `lifetime_tick` was at each index it has passed. What spawning makes of the pools is
proved by induction on the number of particles (`AfterExists`, `SpawnedGrew`), so
`ParticlesPerHit` and `Walls` are any numbers.

**RunEvery.** `ClockInv` ties each `int` local to the true millisecond it was truncated from, and
bounds the distance of two readings; `SleepInv` says what the sleep has still to wait for.
`DeltaIsElapsed` follows because a number within half the range is determined by its remainder
(`ModUnique`). `NeverEarly` needs the truncation accounted for: `sleepTime` is computed from
whole milliseconds and the wake-up compared in ticks.

**Sockets.** `SetUpInv` says which one socket is open in each place of the loop and in what state;
`OnlyTheListener` is read off it. `SentInOrder` is inductive with `SendInv` (nothing was sent
before the call, never more than the length): `PartProperties` says what a partial send puts
behind the bytes that are there.

**Physics.** `PhysicsInv` says of each axis that the player stands between the walls, how far it got and how
much time the cuts cost it (`AxisInv`, which is `KeepsTime` and a little more), and that while time is left,
the rounds taken and the axes it still moves on come to at most 2; a round that does not use up the time
stops an axis, so there are at most three. What a round does is proved from the bottom up:

* two boxes: the player moves along one axis, or equally fast along two. Then a contact is a
  distance, and a first contact within the movement is on a side that faces it (`FirstIsNear`), if
  the boxes do not overlap and a movement along two axes is less far than the player is wide. That is
  where the short frames of `PhysicsAssumption` are needed;
* the scan: `ScanInv` and `Held` say, after any number of cells, which velocity is left and that no
  wall scanned so far is nearer than the first contact found, also after a wall that is touched has
  taken one axis away in the middle: the wall ahead on the other axis is met with the
  old velocity and with the new one (`Ahead`);
* the round: the walls of the room make a closed ring, so the way along an axis is at most the gap to
  the wall it leads to (`Gap`), at which the scan stops it.

`ShotsHitWallsOnly` is another argument, as a bullet has any velocity. A bullet that overlaps a wall at some time
is past one of the four sides of the room (`PastSide`), and whichever side it
gets to first, it then meets a tile of that row (`HitsFirstSide`), so there is a hit before that time
(`HitsBefore`). It never hits the player that fired it because the player is all around it:
for every side met there is one met as long ago (`Mirrored`), so the first contact is in the past.

**BinArr.** `ArrayInv` is `ArrayTypeOK` and, for each item, that its bytes lie in the array and that it lies within
it. A write keeps the items it does not touch (`PutPreserves`). A number is read back because
its bytes are digits: the `k` most significant ones come to the number divided by what the others can
hold (`DivDiv`, induction over `k` in `ReadsWhatIsThere`), in both orders, and `SignedIs` takes the
remainder back to the number of a signed kind. For floats, `SpacingIs` bounds the distance of one float to the next and
`RoundedIs` what one rounding moves. `FloatReadsBack` adds up the four errors between what is written and what is
read (a product, the truncation, a conversion, a quotient), `SentOnIs` the three between what is read and what is sent on,
which stay below one part for numbers up to a quarter of the precision.

### Only model-checked

* Liveness: `FrameEnds`, `MatchHappens`, `OnConnectionCalled`, `SendFailureReturns`, `SendEnds`.
  The prover has no rule for ENABLED, in which fairness is expressed.
* The two runs that expect a violation.

Induction over numbers is within reach: the least number at which something fails does the work of
the induction rule (`LeastNatural`, `InductionUpTo`), and so functions defined by recursion on
numbers (`SpawnedTimes`, the walk along a list, the scan over the walls, the bytes of a number) are proved about. Folds
of the library, whose rules take an operator as a parameter, are not, and no module with a
property to prove uses one.

## 5. Not modelled

* allocations the code does not check and that crash the process when they fail
  (`ts_queue_node_new`, the `client_t` in `server_worker`);
* rendering, logging and SDL set-up, which change no state of the program (what rendering looks up is covered by
  `LookupsFind` and, for the camera, `EssentialsLast`);
* `darray.h`, whose three functions a unit test covers and whose growth `Pool` has;
  `sdarray.h`, which nothing includes and which is the sparse set of `entity_manager.h` again;
* functions without a caller: `bullet_on_update`, `start_run_every_thread`, `add_force`,
  `linear_interpolate`, `reflect_orthogonal`, `vector_random_angle`;
* rounding of floats in positions and speeds (that of `bin_array.h` is modelled), and the memory of address lists in `server_set_fd`.
