-------------------------------- MODULE Pool ---------------------------------
(***************************************************************************)
(* A component pool of include/engine/entity_manager.h, and what its       *)
(* operations make of one.                                                 *)
(*                                                                         *)
(* A pool keeps the data of its entities in a dense array; `sparse` maps   *)
(* an entity to its place there and `denseToSparse` maps a place back to   *)
(* its entity.  Removal copies the last dense element over the removed     *)
(* one, so both maps are rewired on every removal.                         *)
(*                                                                         *)
(* An array is a function on its live indices: 0 .. denseCount - 1 for the *)
(* dense arrays, 0 .. sparseCount - 1 for `sparse`.  Cells beyond those    *)
(* are allocated but never read; capacities are kept apart, as numbers, so *)
(* that a write past an allocation shows.                                  *)
(***************************************************************************)
EXTENDS Integers

INVALID_INDEX == -1   \* (size_t)-1: the index of no dense element

-----------------------------------------------------------------------------
\* Array helpers: the array f of n live cells with x stored in cell n, and
\* the array f cut to its first n cells.
Push(f, n, x) == [i \in 0 .. n |-> IF i = n THEN x ELSE f[i]]
Shrink(f, n)  == [i \in 0 .. n - 1 |-> f[i]]

\* An allocation of 0 grows to 1, any other doubles.
Grown(capacity) == IF capacity = 0 THEN 1 ELSE 2 * capacity

\* init_component_pool: every field zero, nothing allocated.
EmptyPool ==
  [ sparse        |-> [e \in {} |-> INVALID_INDEX],
    sparseAlloc   |-> 0,
    dense         |-> [i \in {} |-> i],
    denseToSparse |-> [i \in {} |-> i],
    denseCount    |-> 0,
    denseCapacity |-> 0 ]

HasComponent(pool, e) == pool.sparse[e] # INVALID_INDEX

GetComponent(pool, e) == pool.dense[pool.sparse[e]]

\* add_entity in one pool: the n-th cell of `sparse`, in an array of that size.
ExtendPool(pool, n, allocation) ==
  [ sparse        |-> Push(pool.sparse, n, INVALID_INDEX),
    sparseAlloc   |-> allocation,
    dense         |-> pool.dense,
    denseToSparse |-> pool.denseToSparse,
    denseCount    |-> pool.denseCount,
    denseCapacity |-> pool.denseCapacity ]

\* add_component_to_pool.
AddToPool(pool, e, v) ==
  [ sparse        |-> [pool.sparse EXCEPT ![e] = pool.denseCount],
    sparseAlloc   |-> pool.sparseAlloc,
    dense         |-> Push(pool.dense, pool.denseCount, v),
    denseToSparse |-> Push(pool.denseToSparse, pool.denseCount, e),
    denseCount    |-> pool.denseCount + 1,
    denseCapacity |-> IF pool.denseCount = pool.denseCapacity
                      THEN Grown(pool.denseCapacity)
                      ELSE pool.denseCapacity ]

\* The caller's write through the pointer get_component returned.
WriteInPool(pool, e, v) ==
  [pool EXCEPT !.dense = [@ EXCEPT ![pool.sparse[e]] = v]]

\* Plausible slips in remove_component_from_pool: the two writes to `sparse`
\* swapped; the moved element's entry not updated; the data not moved.
RelinkedSwapped(sparse, moved, removed, e) ==
  [sparse EXCEPT ![e] = INVALID_INDEX, ![moved] = removed]
NotRelinked(sparse, moved, removed, e) == [sparse EXCEPT ![e] = INVALID_INDEX]
NotFilled(array, removed, last) == Shrink(array, last)

\* The entry of the entity that moves, then the entry of e: one and the same
\* when e's element is the last.
Relinked(sparse, moved, removed, e) ==
  [sparse EXCEPT ![moved] = removed, ![e] = INVALID_INDEX]

\* The last cell moves into the removed one.
Filled(array, removed, last) == Shrink([array EXCEPT ![removed] = array[last]], last)

\* remove_component_from_pool
RemoveFromPool(pool, e) ==
  LET removed == pool.sparse[e]
      last    == pool.denseCount - 1
  IN IF ~HasComponent(pool, e) THEN pool ELSE
     [ sparse        |-> Relinked(pool.sparse, pool.denseToSparse[last], removed, e),
       sparseAlloc   |-> pool.sparseAlloc,
       dense         |-> Filled(pool.dense, removed, last),
       denseToSparse |-> Filled(pool.denseToSparse, removed, last),
       denseCount    |-> last,
       denseCapacity |-> pool.denseCapacity ]

-----------------------------------------------------------------------------
\* A pool with data in V, when there are n entities.
PoolType(V, n, pool) ==
  /\ pool \in [sparse : [0 .. n - 1 -> Int], sparseAlloc : Nat,
               dense : [0 .. pool.denseCount - 1 -> V],
               denseToSparse : [0 .. pool.denseCount - 1 -> 0 .. n - 1],
               denseCount : Nat, denseCapacity : Nat]
  /\ \A e \in 0 .. n - 1 :
       pool.sparse[e] = INVALID_INDEX \/ pool.sparse[e] \in 0 .. pool.denseCount - 1

\* `sparse` and `denseToSparse` undo each other: what iterating the dense array
\* finds for an entity is what a lookup of that entity finds.
Linked(n, pool) ==
  /\ \A i \in 0 .. pool.denseCount - 1 : pool.sparse[pool.denseToSparse[i]] = i
  /\ \A e \in 0 .. n - 1 :
       HasComponent(pool, e) => pool.denseToSparse[pool.sparse[e]] = e

\* What a pool means: the data of each entity that has the component.
View(n, pool) ==
  [e \in {x \in 0 .. n - 1 : HasComponent(pool, x)} |-> GetComponent(pool, e)]
=============================================================================
