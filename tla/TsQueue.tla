------------------------------- MODULE TsQueue -------------------------------
(***************************************************************************)
(* The doubly linked queue of lib/ts_queue.c, on a heap of nodes, with the *)
(* threads that use it.                                                    *)
(*                                                                         *)
(* Every operation takes the queue's mutex, reads the neighbours it passes *)
(* to __ts_queue_add or __ts_queue_remove_nolock, rewrites the links, and  *)
(* unlocks; each of these is a step of its own, so that what the lock      *)
(* protects (neighbours read before the links are rewritten) can go wrong. *)
(* The third operation, find and remove, is the way lib/server.c drops a   *)
(* client: it walks the list and calls __ts_queue_remove_nolock itself.    *)
(***************************************************************************)
EXTENDS Integers, FiniteSets

CONSTANTS
  Thread,    \* the threads that share the queue
  Node,      \* the addresses malloc can return, which bounds the queue
  Item,      \* what the data pointers point to
  NULL,      \* the null pointer
  NoThread   \* the owner of a free mutex

ASSUME QueueAssumption ==
  /\ IsFiniteSet(Node) /\ NULL \notin Node
  /\ NoThread \notin Thread

VARIABLES
  q,          \* head, tail, size and the link fields of the nodes
  data,       \* the data field of the nodes
  allocated,  \* nodes malloc has returned and free has not taken back
  mutex,      \* the thread that holds q->mutex
  pc,         \* where each thread is in its operation
  local,      \* the arguments and locals of each thread's operation
  phase,      \* "live", or how far ts_queue_destroy has come
  cursor      \* the node ts_queue_destroy looks at

vars == <<q, data, allocated, mutex, pc, local, phase, cursor>>

Pointer == Node \cup {NULL}

NoLocals == [item |-> NULL, node |-> NULL, prev |-> NULL, next |-> NULL]

-----------------------------------------------------------------------------
\* __ts_queue_is_empty looks at the head, not at the size.
IsEmpty(l) == l.head = NULL

\* __ts_queue_add: node goes between prev and next; NULL stands for an end.
AddBetween(l, prev, next, node) ==
  LET counted == [l EXCEPT !.size = @ + 1] IN
  CASE IsEmpty(l) ->
         [counted EXCEPT !.head = node, !.tail = node]
    [] ~IsEmpty(l) /\ prev = NULL ->
         [counted EXCEPT !.head = node, !.prev[next] = node, !.next[node] = next]
    [] ~IsEmpty(l) /\ prev # NULL /\ next = NULL ->
         [counted EXCEPT !.tail = node, !.next[prev] = node, !.prev[node] = prev]
    [] OTHER ->
         [counted EXCEPT !.next[prev] = node, !.prev[next] = node,
                         !.prev[node] = prev, !.next[node] = next]

\* The node __ts_queue_remove_nolock takes for the one between prev and next.
Between(l, prev, next) ==
  IF next # NULL THEN l.prev[next] ELSE IF prev # NULL THEN l.next[prev] ELSE l.tail

\* A slip: the element is counted out twice.
CountedOutTwice(size) == size - 2
CountedOut(size) == size - 1

\* __ts_queue_remove_nolock: the links of the list without that node.
RemoveBetween(l, prev, next) ==
  IF IsEmpty(l) THEN l ELSE
  [l EXCEPT !.size = CountedOut(@),
            !.head = IF prev = NULL THEN next ELSE @,
            !.tail = IF next = NULL THEN prev ELSE @,
            !.next = IF prev # NULL THEN [@ EXCEPT ![prev] = next] ELSE @,
            !.prev = IF next # NULL THEN [@ EXCEPT ![next] = prev] ELSE @]

\* The i-th node on the walk from the head.
NodeAt(l) ==
  LET walk[i \in 1 .. l.size] == IF i = 1 THEN l.head ELSE l.next[walk[i - 1]]
  IN walk

-----------------------------------------------------------------------------
\* ts_queue_new, and the threads before their first call.
Init ==
  /\ q = [head |-> NULL, tail |-> NULL, size |-> 0,
          next |-> [n \in Node |-> NULL], prev |-> [n \in Node |-> NULL]]
  /\ data = [n \in Node |-> NULL]
  /\ allocated = {}
  /\ mutex = NoThread
  /\ pc = [t \in Thread |-> "idle"]
  /\ local = [t \in Thread |-> NoLocals]
  /\ phase = "live"
  /\ cursor = NULL

\* A slip: the operation starts without waiting for the mutex.
LockIgnored(t) == TRUE

\* pthread_mutex_lock returns to t.
MutexFree(t) == mutex = NoThread

Lock(t, operation, item) ==
  /\ phase = "live"
  /\ pc[t] = "idle"
  /\ MutexFree(t)
  /\ mutex' = t
  /\ pc' = [pc EXCEPT ![t] = operation]
  /\ local' = [local EXCEPT ![t] = [NoLocals EXCEPT !.item = item]]
  /\ UNCHANGED <<q, data, allocated, phase, cursor>>

\* Where a new node goes: behind the tail; in the slip, before the head.
BeforeHead(l) == [NoLocals EXCEPT !.next = l.head]
BehindTail(l) == [NoLocals EXCEPT !.prev = l.tail]

\* __ts_queue_enqueue_nolock up to the call: a new node, and its place.  malloc
\* is taken to succeed: the code does not check.
NewNode(t) ==
  /\ pc[t] = "enqueue"
  /\ \E n \in Node \ allocated :
       /\ allocated' = allocated \cup {n}
       /\ data' = [data EXCEPT ![n] = local[t].item]
       /\ q' = [q EXCEPT !.prev[n] = NULL, !.next[n] = NULL]
       /\ local' = [local EXCEPT ![t] = [BehindTail(q) EXCEPT !.node = n]]
  /\ pc' = [pc EXCEPT ![t] = "add"]
  /\ UNCHANGED <<mutex, phase, cursor>>

Add(t) ==
  /\ pc[t] = "add"
  /\ q' = AddBetween(q, local[t].prev, local[t].next, local[t].node)
  /\ pc' = [pc EXCEPT ![t] = "unlock"]
  /\ UNCHANGED <<data, allocated, mutex, local, phase, cursor>>

\* __ts_queue_dequeue_nolock up to the call.
DequeueHead(t) ==
  /\ pc[t] = "dequeue"
  /\ IF IsEmpty(q)
     THEN /\ pc' = [pc EXCEPT ![t] = "unlock"]
          /\ UNCHANGED local
     ELSE /\ pc' = [pc EXCEPT ![t] = "remove"]
          /\ local' = [local EXCEPT ![t].next = q.next[q.head]]
  /\ UNCHANGED <<q, data, allocated, mutex, phase, cursor>>

\* The walk of server_handle_disconnection: the first node with the item.
Find(t) ==
  LET matching == {i \in 1 .. q.size : data[NodeAt(q)[i]] = local[t].item}
      first == CHOOSE i \in matching : \A j \in matching : i <= j
      found == NodeAt(q)[first]
  IN
  /\ pc[t] = "find"
  /\ IF matching = {}
     THEN /\ pc' = [pc EXCEPT ![t] = "unlock"]
          /\ UNCHANGED local
     ELSE /\ pc' = [pc EXCEPT ![t] = "remove"]
          /\ local' = [local EXCEPT ![t].prev = q.prev[found], ![t].next = q.next[found]]
  /\ UNCHANGED <<q, data, allocated, mutex, phase, cursor>>

\* __ts_queue_remove_nolock with its node destructor.
Remove(t) ==
  LET prev == local[t].prev
      next == local[t].next
  IN
  /\ pc[t] = "remove"
  /\ q' = RemoveBetween(q, prev, next)
  /\ allocated' = IF IsEmpty(q) THEN allocated ELSE allocated \ {Between(q, prev, next)}
  /\ pc' = [pc EXCEPT ![t] = "unlock"]
  /\ UNCHANGED <<data, mutex, local, phase, cursor>>

Unlock(t) ==
  /\ pc[t] = "unlock"
  /\ mutex' = NoThread
  /\ pc' = [pc EXCEPT ![t] = "idle"]
  /\ local' = [local EXCEPT ![t] = NoLocals]
  /\ UNCHANGED <<q, data, allocated, phase, cursor>>

\* ts_queue_destroy takes no lock: it is for the last user of the queue.
Destroy ==
  /\ phase = "live"
  /\ \A t \in Thread : pc[t] = "idle"
  /\ phase' = "destroying"
  /\ cursor' = q.head
  /\ UNCHANGED <<q, data, allocated, mutex, pc, local>>

\* When its loop ends: at NULL; in the slip, at the last node.
AtLast == cursor = q.tail
AtEnd == cursor = NULL

\* One turn of the loop: the successor is read before the node is freed.
DestroyNode ==
  /\ phase = "destroying"
  /\ IF AtEnd
     THEN /\ phase' = "destroyed"
          /\ UNCHANGED <<allocated, cursor>>
     ELSE /\ allocated' = allocated \ {cursor}
          /\ cursor' = q.next[cursor]
          /\ UNCHANGED phase
  /\ UNCHANGED <<q, data, mutex, pc, local>>

Step(t) ==
  \/ Lock(t, "dequeue", NULL)
  \/ \E x \in Item :
       \/ allocated # Node /\ Lock(t, "enqueue", x)  \* bounds the queue
       \/ Lock(t, "find", x)
  \/ NewNode(t) \/ Add(t)
  \/ DequeueHead(t) \/ Find(t) \/ Remove(t)
  \/ Unlock(t)

Next ==
  \/ \E t \in Thread : Step(t)
  \/ Destroy \/ DestroyNode

Spec == Init /\ [][Next]_vars

-----------------------------------------------------------------------------
TypeOK ==
  /\ q \in [head : Pointer, tail : Pointer, size : 0 .. Cardinality(Node),
            next : [Node -> Pointer], prev : [Node -> Pointer]]
  /\ data \in [Node -> Item \cup {NULL}]
  /\ allocated \subseteq Node
  /\ mutex \in Thread \cup {NoThread}
  /\ pc \in [Thread -> {"idle", "enqueue", "add", "dequeue", "find", "remove", "unlock"}]
  /\ local \in [Thread -> [item : Item \cup {NULL}, node : Pointer,
                           prev : Pointer, next : Pointer]]
  /\ phase \in {"live", "destroying", "destroyed"}
  /\ cursor \in Pointer

Listed == {NodeAt(q)[i] : i \in 1 .. q.size}

\* Between any two steps of any threads the links describe one list: a walk
\* from the head along `next` visits `size` different nodes and ends at the
\* tail, and `prev` leads back the same way.
WellFormed ==
  LET walk == NodeAt(q) IN
  /\ (q.size = 0) <=> (q.head = NULL)
  /\ (q.size = 0) <=> (q.tail = NULL)
  /\ \A i \in 1 .. q.size :
       /\ walk[i] # NULL
       /\ \A j \in 1 .. i - 1 : walk[i] # walk[j]
       /\ q.prev[walk[i]] = IF i = 1 THEN NULL ELSE walk[i - 1]
  /\ q.size > 0 => /\ walk[q.size] = q.tail
                   /\ q.next[q.tail] = NULL

InFlight == {local[t].node : t \in {s \in Thread : pc[s] = "add"}}

\* Memory: while the queue lives, the allocated nodes are those of the list and
\* those being added, so nothing in the list was freed and nothing removed from
\* it leaks; ts_queue_destroy frees every node once and leaves none.
NodesAccounted ==
  /\ phase = "live" => allocated = Listed \cup InFlight
  /\ phase = "destroying" /\ cursor # NULL => cursor \in allocated
  /\ phase = "destroyed" => allocated = {}

\* The items in the order of the list.
Contents == [i \in 1 .. q.size |-> data[NodeAt(q)[i]]]

F == INSTANCE Fifo WITH queue <- Contents

\* "Thread safe FIFO queue": with any threads in any order, the list changes
\* only by an item added at its end, the front taken, or a found item dropped.
FifoSpec == F!Spec
=============================================================================
