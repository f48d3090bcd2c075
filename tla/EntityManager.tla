---------------------------- MODULE EntityManager ----------------------------
(***************************************************************************)
(* The sparse-set entity manager of include/engine/entity_manager.h: a     *)
(* pool (see Pool) for every component, and the counts they share.         *)
(***************************************************************************)
EXTENDS Pool

CONSTANTS
  MaxComponents,  \* MAX_COMPONENTS, the number of component pools
  MaxEntities,    \* bound on the entities created (the code has none)
  Value           \* component data, moved around but never looked into

ASSUME ManagerAssumption ==
  /\ MaxComponents \in Nat
  /\ MaxEntities \in Nat

VARIABLES
  pools,              \* component_pools
  componentPoolCount, \* component_pool_count
  sparseCount,        \* sparse_count, the number of entities ever created
  sparseCapacity      \* sparse_capacity

vars == <<pools, componentPoolCount, sparseCount, sparseCapacity>>

Component == 0 .. MaxComponents - 1
Entity == 0 .. sparseCount - 1

-----------------------------------------------------------------------------
\* The manager is a zeroed global.
Init ==
  /\ pools = [c \in Component |-> EmptyPool]
  /\ componentPoolCount = 0
  /\ sparseCount = 0
  /\ sparseCapacity = 0

\* register_component.  The game registers every component before it adds an
\* entity: a pool registered later would lose its `sparse`.  The code does not
\* check MAX_COMPONENTS; the game stays below it.
RegisterComponent ==
  /\ sparseCount = 0
  /\ componentPoolCount < MaxComponents
  /\ pools' = [pools EXCEPT ![componentPoolCount] = EmptyPool]
  /\ componentPoolCount' = componentPoolCount + 1
  /\ UNCHANGED <<sparseCount, sparseCapacity>>

\* A slip in __extend_all_sparse: the registered pools only.
ExtendedSparseOfRegistered(c) ==
  IF sparseCount = sparseCapacity /\ c + 1 < componentPoolCount
  THEN Grown(sparseCapacity) ELSE pools[c].sparseAlloc

\* __extend_all_sparse: what add_entity leaves allocated for `sparse` of pool
\* c.  The size comes from the manager's capacity, not from the pool.
ExtendedSparse(c) ==
  IF sparseCount = sparseCapacity THEN Grown(sparseCapacity) ELSE pools[c].sparseAlloc

\* add_entity gives every pool, registered or not, a cell for the new entity.
AddEntity ==
  /\ sparseCount < MaxEntities
  /\ pools' = [c \in Component |->
                ExtendPool(pools[c], sparseCount, ExtendedSparse(c))]
  /\ sparseCapacity' = IF sparseCount = sparseCapacity
                       THEN Grown(sparseCapacity) ELSE sparseCapacity
  /\ sparseCount' = sparseCount + 1
  /\ UNCHANGED componentPoolCount

\* add_component.  A second add to the same entity is the caller's error, which
\* only a DEBUG build reports.
AddComponent(e, c, v) ==
  /\ ~HasComponent(pools[c], e)
  /\ pools' = [pools EXCEPT ![c] = AddToPool(@, e, v)]
  /\ UNCHANGED <<componentPoolCount, sparseCount, sparseCapacity>>

\* get_component and a write through the pointer.
WriteComponent(e, c, v) ==
  /\ HasComponent(pools[c], e)
  /\ pools' = [pools EXCEPT ![c] = WriteInPool(@, e, v)]
  /\ UNCHANGED <<componentPoolCount, sparseCount, sparseCapacity>>

RemoveComponent(e, c) ==
  /\ pools' = [pools EXCEPT ![c] = RemoveFromPool(@, e)]
  /\ UNCHANGED <<componentPoolCount, sparseCount, sparseCapacity>>

\* remove_entity: out of every pool.  The id stays taken.
RemoveEntity(e) ==
  /\ pools' = [c \in Component |-> RemoveFromPool(pools[c], e)]
  /\ UNCHANGED <<componentPoolCount, sparseCount, sparseCapacity>>

Next ==
  \/ RegisterComponent
  \/ AddEntity
  \/ \E e \in Entity :
       \/ RemoveEntity(e)
       \/ \E c \in 0 .. componentPoolCount - 1 :
            \/ RemoveComponent(e, c)
            \/ \E v \in Value : AddComponent(e, c, v) \/ WriteComponent(e, c, v)

Spec == Init /\ [][Next]_vars

-----------------------------------------------------------------------------
\* The variables have their types; an index kept in a pool is one of its live
\* cells, so get_component and iteration read only what was written.
TypeOK ==
  /\ componentPoolCount \in 0 .. MaxComponents
  /\ sparseCount \in 0 .. MaxEntities
  /\ sparseCapacity \in Nat
  /\ DOMAIN pools = Component
  /\ \A c \in Component : PoolType(Value, sparseCount, pools[c])

\* In every pool, whatever was added and removed and in whatever order, the two
\* index maps agree (remove_component_from_pool relinks the moved element).
SparseDenseAgree == \A c \in Component : Linked(sparseCount, pools[c])

\* No write falls past an allocation: the dense arrays hold denseCount cells,
\* and `sparse` of every pool, registered or not, has room for every entity
\* although its size is known from the manager's capacity alone.  That capacity
\* is zero as long as register_component may throw a pool's arrays away.
WithinCapacity ==
  /\ sparseCount = 0 => sparseCapacity = 0
  /\ \A c \in Component :
       /\ pools[c].denseCount <= pools[c].denseCapacity
       /\ sparseCount <= pools[c].sparseAlloc
       /\ pools[c].sparseAlloc = sparseCapacity

ES == INSTANCE EntityStore WITH
  registered <- componentPoolCount,
  population <- sparseCount,
  store      <- [c \in Component |-> View(sparseCount, pools[c])]

\* The pools implement per-component partial functions: each operation changes
\* the data of the entity it names and nothing of any other entity.
StoreSpec == ES!Spec
=============================================================================
