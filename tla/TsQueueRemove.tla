---------------------------- MODULE TsQueueRemove ----------------------------
(***************************************************************************)
(* The operation of lib/ts_queue.c that nothing in the repository calls:   *)
(* ts_queue_remove, public in krft/ts_queue.h.  Its caller names a node by *)
(* its neighbours, which it read before the call, so without the lock; and *)
(* where every other operation unlocks, this one locks once more.          *)
(***************************************************************************)
EXTENDS TsQueue

\* A caller picks a listed node and reads its neighbours.
CallRemove(t) ==
  /\ phase = "live"
  /\ pc[t] = "idle"
  /\ \E n \in Listed :
       local' = [local EXCEPT ![t].prev = q.prev[n], ![t].next = q.next[n]]
  /\ pc' = [pc EXCEPT ![t] = "lock"]
  /\ UNCHANGED <<q, data, allocated, mutex, phase, cursor>>

LockToRemove(t) ==
  /\ pc[t] = "lock"
  /\ MutexFree(t)
  /\ mutex' = t
  /\ pc' = [pc EXCEPT ![t] = "remove_locked"]
  /\ UNCHANGED <<q, data, allocated, local, phase, cursor>>

RemoveLocked(t) ==
  /\ pc[t] = "remove_locked"
  /\ q' = RemoveBetween(q, local[t].prev, local[t].next)
  /\ allocated' = IF IsEmpty(q) THEN allocated
                  ELSE allocated \ {Between(q, local[t].prev, local[t].next)}
  /\ pc' = [pc EXCEPT ![t] = "relock"]
  /\ UNCHANGED <<data, mutex, local, phase, cursor>>

\* The second pthread_mutex_lock, and the return.
LockAgain(t) ==
  /\ pc[t] = "relock"
  /\ MutexFree(t)
  /\ mutex' = t
  /\ pc' = [pc EXCEPT ![t] = "idle"]
  /\ local' = [local EXCEPT ![t] = NoLocals]
  /\ UNCHANGED <<q, data, allocated, phase, cursor>>

NextWithRemove ==
  \/ Next
  \/ \E t \in Thread :
       CallRemove(t) \/ LockToRemove(t) \/ RemoveLocked(t) \/ LockAgain(t)

SpecWithRemove == Init /\ [][NextWithRemove]_vars

\* A thread never waits for the mutex it holds itself.
NoSelfDeadlock == \A t \in Thread : pc[t] = "relock" => mutex # t
=============================================================================
