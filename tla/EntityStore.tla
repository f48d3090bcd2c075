----------------------------- MODULE EntityStore -----------------------------
(***************************************************************************)
(* What an entity manager promises to the game: for every registered       *)
(* component a partial function from entities to component data.  An       *)
(* entity is a number below `population`; ids are handed out in order and  *)
(* are never given out again.  Nothing here speaks of sparse or dense      *)
(* arrays: EntityManager, which does, is shown to implement this module.   *)
(***************************************************************************)
EXTENDS Integers

CONSTANTS
  MaxComponents,  \* MAX_COMPONENTS, the number of component pools
  MaxEntities,    \* bound on the entities created (the code has none)
  Value           \* component data

VARIABLES
  registered,     \* how many components are registered
  population,     \* how many entities have been created
  store           \* store[c][e]: the data of component c of entity e

storeVars == <<registered, population, store>>

Component == 0 .. MaxComponents - 1

Nothing == [e \in {} |-> e]

\* The partial function f with the data of e set to v, or with e left out.
With(f, e, v) == [x \in DOMAIN f \cup {e} |-> IF x = e THEN v ELSE f[x]]
Without(f, e) == [x \in DOMAIN f \ {e} |-> f[x]]

Init ==
  /\ registered = 0
  /\ population = 0
  /\ store = [c \in Component |-> Nothing]

RegisterComponent ==
  /\ population = 0
  /\ registered < MaxComponents
  /\ registered' = registered + 1
  /\ UNCHANGED <<population, store>>

AddEntity ==
  /\ population < MaxEntities
  /\ population' = population + 1
  /\ UNCHANGED <<registered, store>>

AddComponent(e, c, v) ==
  /\ e \notin DOMAIN store[c]
  /\ store' = [store EXCEPT ![c] = With(@, e, v)]
  /\ UNCHANGED <<registered, population>>

WriteComponent(e, c, v) ==
  /\ e \in DOMAIN store[c]
  /\ store' = [store EXCEPT ![c] = With(@, e, v)]
  /\ UNCHANGED <<registered, population>>

RemoveComponent(e, c) ==
  /\ store' = [store EXCEPT ![c] = Without(@, e)]
  /\ UNCHANGED <<registered, population>>

RemoveEntity(e) ==
  /\ store' = [c \in Component |-> Without(store[c], e)]
  /\ UNCHANGED <<registered, population>>

Next ==
  \/ RegisterComponent
  \/ AddEntity
  \/ \E e \in 0 .. population - 1 :
       \/ RemoveEntity(e)
       \/ \E c \in 0 .. registered - 1 :
            \/ RemoveComponent(e, c)
            \/ \E v \in Value : AddComponent(e, c, v) \/ WriteComponent(e, c, v)

Spec == Init /\ [][Next]_storeVars
=============================================================================
