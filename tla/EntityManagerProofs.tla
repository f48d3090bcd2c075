------------------------- MODULE EntityManagerProofs -------------------------
(***************************************************************************)
(* Proofs about EntityManager, for any number of components, entities and  *)
(* values: what Lemmas says of one pool, lifted to all of them.            *)
(***************************************************************************)
EXTENDS EntityManager, Lemmas

(***************************************************************************)
(* The inductive invariant: every pool is consistent, and the allocations  *)
(* are those add_entity takes them to be.                                  *)
(***************************************************************************)
Capacity(n, pool, allocation) ==
  /\ pool.denseCount <= pool.denseCapacity
  /\ n <= pool.sparseAlloc
  /\ pool.sparseAlloc = allocation

Inv == TypeOK /\ SparseDenseAgree /\ WithinCapacity

\* The invariant, pool by pool.
LEMMA InvByPool ==
  Inv <=> /\ componentPoolCount \in 0 .. MaxComponents
          /\ sparseCount \in 0 .. MaxEntities
          /\ sparseCapacity \in Nat
          /\ DOMAIN pools = Component
          /\ sparseCount = 0 => sparseCapacity = 0
          /\ \A c \in Component : PoolInv(Value, sparseCount, pools[c])
                                 /\ Capacity(sparseCount, pools[c], sparseCapacity)
BY DEF Inv, TypeOK, SparseDenseAgree, WithinCapacity, PoolInv, Capacity

\* What an operation on one pool leaves of the allocations.
LEMMA PoolCapacity ==
  ASSUME NEW n \in Nat, NEW allocation, NEW pool, PoolInv(Value, n, pool),
         Capacity(n, pool, allocation), NEW e \in 0 .. n - 1, NEW v
  PROVE  /\ Capacity(n, AddToPool(pool, e, v), allocation)
         /\ Capacity(n, WriteInPool(pool, e, v), allocation)
         /\ Capacity(n, RemoveFromPool(pool, e), allocation)
<1>1. /\ pool = PoolOf(pool.sparse, pool.sparseAlloc, pool.dense,
                       pool.denseToSparse, pool.denseCount, pool.denseCapacity)
      /\ pool.denseCount \in Nat /\ pool.denseCapacity \in Nat
  BY PartsFromPool DEF Parts
<1>2. Capacity(n, AddToPool(pool, e, v), allocation)
  BY <1>1 DEF Capacity, AddToPool, Grown
<1>3. Capacity(n, WriteInPool(pool, e, v), allocation)
  <2>1. WriteInPool(pool, e, v) =
          PoolOf(pool.sparse, pool.sparseAlloc, [pool.dense EXCEPT ![pool.sparse[e]] = v],
                 pool.denseToSparse, pool.denseCount, pool.denseCapacity)
    BY <1>1 DEF WriteInPool, PoolOf
  <2> QED BY <2>1 DEF Capacity, PoolOf
<1>4. Capacity(n, RemoveFromPool(pool, e), allocation)
  BY <1>1 DEF Capacity, RemoveFromPool
<1> QED BY <1>2, <1>3, <1>4

\* The zeroed manager satisfies the invariant.
LEMMA InitInv == Init => Inv
<1> SUFFICES ASSUME Init PROVE Inv
  OBVIOUS
<1>1. Capacity(0, EmptyPool, 0)
  BY DEF Capacity, EmptyPool
<1> QED BY <1>1, EmptyPoolInv, InvByPool, ManagerAssumption DEF Init, Component

\* The invariant in the next state, pool by pool.
LEMMA NextInvByPool ==
  ASSUME componentPoolCount' \in 0 .. MaxComponents,
         sparseCount' \in 0 .. MaxEntities,
         sparseCapacity' \in Nat,
         DOMAIN pools' = Component,
         sparseCount' = 0 => sparseCapacity' = 0,
         \A c \in Component : /\ PoolInv(Value, sparseCount', pools'[c])
                             /\ Capacity(sparseCount', pools'[c], sparseCapacity')
  PROVE  Inv'
BY DEF Inv, TypeOK, SparseDenseAgree, WithinCapacity, PoolInv, Capacity, Component

\* register_component: as no entity exists, a pool without arrays is right.
LEMMA RegisterInv == Inv /\ RegisterComponent => Inv'
<1> SUFFICES ASSUME Inv, RegisterComponent PROVE Inv'
  OBVIOUS
<1>1. Capacity(0, EmptyPool, sparseCapacity)
  BY InvByPool DEF RegisterComponent, Capacity, EmptyPool
<1>2. \A c \in Component : pools'[c] = pools[c] \/ pools'[c] = EmptyPool
  BY InvByPool DEF RegisterComponent
<1>3. \A c \in Component : /\ PoolInv(Value, sparseCount', pools'[c])
                          /\ Capacity(sparseCount', pools'[c], sparseCapacity')
  BY <1>1, <1>2, EmptyPoolInv, InvByPool DEF RegisterComponent
<1> QED BY <1>3, InvByPool, NextInvByPool, ManagerAssumption DEF RegisterComponent

\* add_entity: each pool gets a cell, and its array is as large as the manager says.
LEMMA AddEntityInv == Inv /\ AddEntity => Inv'
<1> SUFFICES ASSUME Inv, AddEntity PROVE Inv'
  OBVIOUS
<1>1. /\ sparseCount \in Nat /\ sparseCount' = sparseCount + 1
      /\ sparseCount' \in 0 .. MaxEntities
      /\ sparseCapacity \in Nat /\ sparseCapacity' \in Nat
  BY InvByPool, ManagerAssumption DEF AddEntity, Grown
<1>2. ASSUME NEW c \in Component
      PROVE  /\ PoolInv(Value, sparseCount', pools'[c])
             /\ Capacity(sparseCount', pools'[c], sparseCapacity')
  <2> DEFINE a2 == ExtendedSparse(c)
  <2>1. /\ PoolInv(Value, sparseCount, pools[c])
        /\ Capacity(sparseCount, pools[c], sparseCapacity)
    BY InvByPool
  <2>2. a2 = sparseCapacity' /\ sparseCount + 1 <= a2
    BY <1>1, <2>1 DEF ExtendedSparse, AddEntity, Capacity, Grown
  <2>3. pools'[c] = ExtendPool(pools[c], sparseCount, a2)
    BY DEF AddEntity
  <2>4. PoolInv(Value, sparseCount', pools'[c])
    <3> HIDE DEF a2
    <3> QED BY <1>1, <2>1, <2>2, <2>3, ExtendPreserves
  <2>5. /\ pools'[c].sparseAlloc = a2
        /\ pools'[c].denseCount = pools[c].denseCount
        /\ pools'[c].denseCapacity = pools[c].denseCapacity
    BY <2>3 DEF ExtendPool
  <2> QED BY <1>1, <2>1, <2>2, <2>4, <2>5 DEF Capacity
<1>3. DOMAIN pools' = Component
  BY DEF AddEntity
<1> QED BY <1>1, <1>2, <1>3, InvByPool, NextInvByPool DEF AddEntity

\* The operations that replace single pools by ones just as good.
LEMMA PoolStepInv ==
  ASSUME Inv, UNCHANGED <<componentPoolCount, sparseCount, sparseCapacity>>,
         DOMAIN pools' = Component,
         NEW e \in Entity,
         \A c \in Component :
           \/ pools'[c] = pools[c]
           \/ pools'[c] = RemoveFromPool(pools[c], e)
           \/ \E v \in Value :
                \/ ~HasComponent(pools[c], e) /\ pools'[c] = AddToPool(pools[c], e, v)
                \/ HasComponent(pools[c], e) /\ pools'[c] = WriteInPool(pools[c], e, v)
  PROVE  Inv'
<1>1. sparseCount \in Nat /\ e \in 0 .. sparseCount - 1
  BY InvByPool, ManagerAssumption DEF Entity
<1>2. ASSUME NEW c \in Component
      PROVE  /\ PoolInv(Value, sparseCount, pools'[c])
             /\ Capacity(sparseCount, pools'[c], sparseCapacity)
  <2>1. /\ PoolInv(Value, sparseCount, pools[c])
        /\ Capacity(sparseCount, pools[c], sparseCapacity)
    BY InvByPool
  <2> QED BY <1>1, <2>1, AddPreserves, WritePreserves, RemovePreserves, PoolCapacity
<1> QED BY <1>2, InvByPool, NextInvByPool

\* The invariant is inductive.
LEMMA NextInv == Inv /\ [Next]_vars => Inv'
<1> SUFFICES ASSUME Inv, [Next]_vars PROVE Inv'
  OBVIOUS
<1>1. CASE RegisterComponent
  BY <1>1, RegisterInv
<1>2. CASE AddEntity
  BY <1>2, AddEntityInv
<1>3. ASSUME NEW e \in Entity, RemoveEntity(e)
      PROVE  Inv'
  <2>1. /\ DOMAIN pools' = Component
        /\ \A c \in Component : pools'[c] = RemoveFromPool(pools[c], e)
    BY <1>3 DEF RemoveEntity
  <2> QED BY <1>3, <2>1, PoolStepInv DEF RemoveEntity
<1>4. ASSUME NEW e \in Entity, NEW c \in 0 .. componentPoolCount - 1, RemoveComponent(e, c)
      PROVE  Inv'
  BY <1>4, InvByPool, PoolStepInv DEF RemoveComponent
<1>5. ASSUME NEW e \in Entity, NEW c \in 0 .. componentPoolCount - 1, NEW v \in Value,
             AddComponent(e, c, v)
      PROVE  Inv'
  BY <1>5, InvByPool, PoolStepInv DEF AddComponent
<1>6. ASSUME NEW e \in Entity, NEW c \in 0 .. componentPoolCount - 1, NEW v \in Value,
             WriteComponent(e, c, v)
      PROVE  Inv'
  BY <1>6, InvByPool, PoolStepInv DEF WriteComponent
<1>7. CASE UNCHANGED vars
  BY <1>7, InvByPool, NextInvByPool DEF vars
<1> QED BY <1>1, <1>2, <1>3, <1>4, <1>5, <1>6, <1>7 DEF Next

-----------------------------------------------------------------------------
\* The variables keep their types, and every index a pool holds is that of a
\* live cell, in every behaviour of the entity manager.
THEOREM TypeCorrect == Spec => []TypeOK
<1>1. Inv => TypeOK
  BY DEF Inv
<1> QED BY <1>1, InitInv, NextInv, PTL DEF Spec

\* `sparse` and `denseToSparse` agree, whatever is added and removed.
THEOREM IndexMapsAgree == Spec => []SparseDenseAgree
<1>1. Inv => SparseDenseAgree
  BY DEF Inv
<1> QED BY <1>1, InitInv, NextInv, PTL DEF Spec

\* No operation writes past the end of an array.
THEOREM AllocationsSuffice == Spec => []WithinCapacity
<1>1. Inv => WithinCapacity
  BY DEF Inv
<1> QED BY <1>1, InitInv, NextInv, PTL DEF Spec

-----------------------------------------------------------------------------
(***************************************************************************)
(* Refinement: what a pool means changes as EntityStore says.              *)
(***************************************************************************)

\* A new entity has no data in any pool.
LEMMA ViewOfExtended ==
  ASSUME NEW n \in Nat, NEW pool, NEW a2
  PROVE  View(n + 1, ExtendPool(pool, n, a2)) = View(n, pool)
<1> DEFINE p2 == ExtendPool(pool, n, a2)
<1>1. ~HasComponent(p2, n) /\ \A x \in 0 .. n - 1 : Untouched(x, pool, p2)
  BY ExtendData
<1> HIDE DEF p2
<1>2. {x \in 0 .. (n + 1) - 1 : HasComponent(p2, x)}
        = {x \in 0 .. n - 1 : HasComponent(pool, x)}
  BY <1>1 DEF Untouched
<1>3. View(n + 1, p2) = View(n, pool)
  BY <1>1, <1>2 DEF View, Untouched
<1> QED BY <1>3 DEF p2

\* add_component adds the data of that entity and changes no other's.
LEMMA ViewOfAdded ==
  ASSUME NEW n \in Nat, NEW pool, PoolInv(Value, n, pool),
         NEW e \in 0 .. n - 1, ~HasComponent(pool, e), NEW v
  PROVE  View(n, AddToPool(pool, e, v)) = ES!With(View(n, pool), e, v)
<1> DEFINE p2 == AddToPool(pool, e, v)
<1>1. /\ HasComponent(p2, e) /\ GetComponent(p2, e) = v
      /\ \A x \in 0 .. n - 1 : x # e => Untouched(x, pool, p2)
  BY AddData
<1> HIDE DEF p2
<1>2. View(n, p2) = ES!With(View(n, pool), e, v)
  BY <1>1 DEF View, Untouched, ES!With
<1> QED BY <1>2 DEF p2

\* A write changes the data of that entity only: no two entities share a cell.
LEMMA ViewOfWritten ==
  ASSUME NEW n \in Nat, NEW pool, PoolInv(Value, n, pool),
         NEW e \in 0 .. n - 1, HasComponent(pool, e), NEW v
  PROVE  View(n, WriteInPool(pool, e, v)) = ES!With(View(n, pool), e, v)
<1> DEFINE p2 == WriteInPool(pool, e, v)
<1>1. /\ HasComponent(p2, e) /\ GetComponent(p2, e) = v
      /\ \A x \in 0 .. n - 1 : x # e => Untouched(x, pool, p2)
  BY WriteData
<1> HIDE DEF p2
<1>2. View(n, p2) = ES!With(View(n, pool), e, v)
  BY <1>1 DEF View, Untouched, ES!With
<1> QED BY <1>2 DEF p2

\* remove_component takes the data of that entity away and loses no other's.
LEMMA ViewOfRemoved ==
  ASSUME NEW n \in Nat, NEW pool, PoolInv(Value, n, pool), NEW e \in 0 .. n - 1
  PROVE  View(n, RemoveFromPool(pool, e)) = ES!Without(View(n, pool), e)
<1> DEFINE p2 == RemoveFromPool(pool, e)
<1>1. /\ ~HasComponent(p2, e)
      /\ \A x \in 0 .. n - 1 : x # e => Untouched(x, pool, p2)
  BY RemoveData
<1> HIDE DEF p2
<1>2. View(n, p2) = ES!Without(View(n, pool), e)
  BY <1>1 DEF View, Untouched, ES!Without
<1> QED BY <1>2 DEF p2

\* The zeroed manager is the empty store.
LEMMA InitRefines == Init => ES!Init
<1>1. View(0, EmptyPool) = ES!Nothing
  BY DEF View, EmptyPool, ES!Nothing
<1> QED BY <1>1 DEF Init, ES!Init, ES!Component, Component

\* The store of the abstract specification, under the refinement.
Store == [c \in Component |-> View(sparseCount, pools[c])]

\* Every step of the entity manager is the step of the same name of the store.
LEMMA StepRefines == Inv /\ [Next]_vars => [ES!Next]_(ES!storeVars)
<1> SUFFICES ASSUME Inv, [Next]_vars
             PROVE  ES!Next \/ UNCHANGED <<componentPoolCount, sparseCount, Store>>
  BY DEF ES!storeVars, Store
<1>0. /\ sparseCount \in Nat /\ componentPoolCount \in Nat
      /\ 0 .. componentPoolCount - 1 \subseteq Component
      /\ DOMAIN pools = Component
      /\ \A c \in Component : PoolInv(Value, sparseCount, pools[c])
  BY InvByPool, ManagerAssumption DEF Component
<1>1. CASE RegisterComponent
  <2>1. \A pool : View(0, pool) = [x \in {} |-> x]
    BY DEF View
  <2>2. Store' = Store
    BY <1>1, <2>1 DEF RegisterComponent, Store
  <2>3. ES!RegisterComponent
    BY <1>1, <2>2 DEF RegisterComponent, ES!RegisterComponent, Store
  <2> QED BY <2>3 DEF ES!Next
<1>2. CASE AddEntity
  <2>1. ASSUME NEW c \in Component
        PROVE  View(sparseCount', pools'[c]) = View(sparseCount, pools[c])
    BY <1>0, <1>2, ViewOfExtended DEF AddEntity
  <2>2. Store' = Store
    BY <2>1 DEF Store
  <2>3. ES!AddEntity
    BY <1>2, <2>2 DEF AddEntity, ES!AddEntity, Store
  <2> QED BY <2>3 DEF ES!Next
<1>3. ASSUME NEW e \in Entity, RemoveEntity(e)
      PROVE  ES!Next
  <2>1. ASSUME NEW c \in Component
        PROVE  View(sparseCount', pools'[c]) = ES!Without(View(sparseCount, pools[c]), e)
    BY <1>0, <1>3, ViewOfRemoved DEF RemoveEntity, Entity
  <2>2. Store' = [c \in Component |-> ES!Without(Store[c], e)]
    BY <2>1 DEF Store
  <2>3. ES!RemoveEntity(e)
    BY <1>3, <2>2 DEF RemoveEntity, ES!RemoveEntity, ES!Component, Component, Store
  <2> QED BY <2>3 DEF ES!Next, Entity
<1>4. ASSUME NEW e \in Entity, NEW c \in 0 .. componentPoolCount - 1, RemoveComponent(e, c)
      PROVE  ES!Next
  <2>1. View(sparseCount, pools'[c]) = ES!Without(View(sparseCount, pools[c]), e)
    BY <1>0, <1>4, ViewOfRemoved DEF RemoveComponent, Entity
  <2>2. Store' = [Store EXCEPT ![c] = ES!Without(Store[c], e)]
    BY <1>0, <1>4, <2>1 DEF RemoveComponent, Store
  <2>3. ES!RemoveComponent(e, c)
    BY <1>4, <2>2 DEF RemoveComponent, ES!RemoveComponent, Store
  <2> QED BY <2>3 DEF ES!Next, Entity
<1>5. ASSUME NEW e \in Entity, NEW c \in 0 .. componentPoolCount - 1, NEW v \in Value,
             AddComponent(e, c, v)
      PROVE  ES!Next
  <2>1. View(sparseCount, pools'[c]) = ES!With(View(sparseCount, pools[c]), e, v)
    BY <1>0, <1>5, ViewOfAdded DEF AddComponent, Entity
  <2>2. Store' = [Store EXCEPT ![c] = ES!With(Store[c], e, v)]
    BY <1>0, <1>5, <2>1 DEF AddComponent, Store
  <2>3. e \notin DOMAIN Store[c]
    BY <1>0, <1>5 DEF AddComponent, Store, View
  <2>4. ES!AddComponent(e, c, v)
    BY <1>5, <2>2, <2>3 DEF AddComponent, ES!AddComponent, Store
  <2> QED BY <2>4 DEF ES!Next, Entity
<1>6. ASSUME NEW e \in Entity, NEW c \in 0 .. componentPoolCount - 1, NEW v \in Value,
             WriteComponent(e, c, v)
      PROVE  ES!Next
  <2>1. View(sparseCount, pools'[c]) = ES!With(View(sparseCount, pools[c]), e, v)
    BY <1>0, <1>6, ViewOfWritten DEF WriteComponent, Entity
  <2>2. Store' = [Store EXCEPT ![c] = ES!With(Store[c], e, v)]
    BY <1>0, <1>6, <2>1 DEF WriteComponent, Store
  <2>3. e \in DOMAIN Store[c]
    BY <1>0, <1>6 DEF WriteComponent, Store, View, Entity
  <2>4. ES!WriteComponent(e, c, v)
    BY <1>6, <2>2, <2>3 DEF WriteComponent, ES!WriteComponent, Store
  <2> QED BY <2>4 DEF ES!Next, Entity
<1>7. CASE UNCHANGED vars
  BY <1>7 DEF vars, Store
<1> QED BY <1>1, <1>2, <1>3, <1>4, <1>5, <1>6, <1>7 DEF Next

\* The sparse-set pools implement a store of partial functions: an operation on
\* an entity changes that entity's data, and no other's.
THEOREM ImplementsStore == Spec => StoreSpec
<1> QED BY InitInv, NextInv, InitRefines, StepRefines, PTL DEF Spec, StoreSpec, ES!Spec
=============================================================================
