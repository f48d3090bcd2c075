---------------------------- MODULE TsQueueProofs ----------------------------
(***************************************************************************)
(* Proofs about TsQueue, for any number of threads, nodes and items.       *)
(*                                                                         *)
(* The first half knows nothing of threads: a list is what the links of a  *)
(* queue describe, and AddAtEnd and RemoveAny say what __ts_queue_add and  *)
(* __ts_queue_remove_nolock make of one.  The second half is the           *)
(* invariant: the links always describe a list, and a thread that waits    *)
(* to rewrite them, which holds the mutex, knows neighbours that are still *)
(* right.                                                                  *)
(***************************************************************************)
EXTENDS TsQueue, Lemmas, FiniteSetTheorems

\* A queue of any size: what the links do not bound.
QType == [head : Pointer, tail : Pointer, size : Nat,
          next : [Node -> Pointer], prev : [Node -> Pointer]]

\* w is the list that the links of l describe.
IsList(l, w) ==
  /\ w \in [1 .. l.size -> Node]
  /\ \A i, j \in 1 .. l.size : w[i] = w[j] => i = j
  /\ l.head = IF l.size = 0 THEN NULL ELSE w[1]
  /\ l.tail = IF l.size = 0 THEN NULL ELSE w[l.size]
  /\ \A i \in 1 .. l.size : /\ l.next[w[i]] = IF i = l.size THEN NULL ELSE w[i + 1]
                            /\ l.prev[w[i]] = IF i = 1 THEN NULL ELSE w[i - 1]

\* There is one such list, the walk from the head, by induction along it: at the
\* first place where the two differ, the place before decides.
LEMMA WalkIsList ==
  ASSUME NEW l \in QType, NEW w, IsList(l, w)
  PROVE  NodeAt(l) = w
<1> DEFINE Walk(f) == f = [i \in 1 .. l.size |-> IF i = 1 THEN l.head ELSE l.next[f[i - 1]]]
<1>1. NodeAt(l) = CHOOSE f : Walk(f)
  BY DEF NodeAt
<1>2. Walk(w)
  <2>1. ASSUME NEW i \in 1 .. l.size
        PROVE  w[i] = IF i = 1 THEN l.head ELSE l.next[w[i - 1]]
    <3>1. CASE i = 1
      BY <3>1 DEF IsList, QType
    <3>2. CASE i # 1
      <4>1. i - 1 \in 1 .. l.size /\ i - 1 # l.size /\ (i - 1) + 1 = i
        BY <3>2 DEF QType
      <4> QED BY <3>2, <4>1 DEF IsList
    <3> QED BY <3>1, <3>2
  <2> QED BY <2>1 DEF IsList
<1>3. ASSUME NEW f, Walk(f) PROVE f = w
  <2> DEFINE Bad == {i \in 1 .. l.size : f[i] # w[i]}
  <2>1. ASSUME Bad # {} PROVE FALSE
    <3>1. Bad \subseteq Nat
      OBVIOUS
    <3>2. PICK i \in Bad : \A j \in Bad : i <= j
      BY <2>1, <3>1, LeastNatural
    <3>3. f[i] = IF i = 1 THEN l.head ELSE l.next[f[i - 1]]
      BY <1>3
    <3>4. w[i] = IF i = 1 THEN l.head ELSE l.next[w[i - 1]]
      BY <1>2
    <3>5. i # 1 => i - 1 \in 1 .. l.size /\ i - 1 \notin Bad
      BY <3>2 DEF QType
    <3> QED BY <3>2, <3>3, <3>4, <3>5
  <2>2. f = [i \in 1 .. l.size |-> f[i]] /\ w = [i \in 1 .. l.size |-> w[i]]
    BY <1>2, <1>3
  <2> QED BY <2>1, <2>2
<1> HIDE DEF Walk
<1> QED BY <1>1, <1>2, <1>3

\* The fields of a queue after some of them were assigned.
LEMMA Assigned ==
  ASSUME NEW l \in QType, NEW h \in Pointer, NEW t \in Pointer, NEW k \in Nat,
         NEW nx \in [Node -> Pointer], NEW pv \in [Node -> Pointer],
         NEW m, m = [head |-> h, tail |-> t, size |-> k, next |-> nx, prev |-> pv]
  PROVE  /\ m \in QType /\ m.size = k /\ m.head = h /\ m.tail = t
         /\ m.next = nx /\ m.prev = pv
BY DEF QType

\* A list has no more nodes than there are.
LEMMA SizeBound ==
  ASSUME NEW l \in QType, NEW w, IsList(l, w)
  PROVE  l.size <= Cardinality(Node)
<1>1. l.size \in Nat /\ IsFiniteSet(1 .. l.size) /\ Cardinality(1 .. l.size) = l.size
  BY FS_Interval DEF QType
<1>2. w \in Injection(1 .. l.size, Node)
  BY DEF IsList, Injection, IsInjective
<1> QED BY <1>1, <1>2, FS_Injection, QueueAssumption

\* w with node at its end.
Extended(w, n, node) == [i \in 1 .. n + 1 |-> IF i <= n THEN w[i] ELSE node]

\* __ts_queue_add behind the tail, in the empty list as in the others: the list
\* has one node more, at its end.
LEMMA AddAtEnd ==
  ASSUME NEW l \in QType, NEW w, IsList(l, w), NEW node \in Node,
         \A i \in 1 .. l.size : w[i] # node,
         l.next[node] = NULL, l.prev[node] = NULL
  PROVE  LET m == AddBetween(l, l.tail, NULL, node) IN
         /\ m \in QType
         /\ m.size = l.size + 1
         /\ IsList(m, Extended(w, l.size, node))
<1> DEFINE m == AddBetween(l, l.tail, NULL, node)
           v == Extended(w, l.size, node)
<1>1. l.size \in Nat /\ NULL \notin Node
  BY QueueAssumption DEF QType
<1>2. CASE l.size = 0
  <2>1. l.head = NULL
    BY <1>2 DEF IsList
  <2>2. m = [l EXCEPT !.size = @ + 1, !.head = node, !.tail = node]
    BY <2>1 DEF AddBetween, IsEmpty
  <2>3. /\ m \in QType /\ m.size = 1 /\ m.head = node /\ m.tail = node
        /\ m.next = l.next /\ m.prev = l.prev
    <3>1. m = [head |-> node, tail |-> node, size |-> l.size + 1,
               next |-> l.next, prev |-> l.prev]
      BY <2>2 DEF QType
    <3>2. /\ node \in Pointer /\ l.size + 1 \in Nat /\ l.size + 1 = 1
          /\ l.next \in [Node -> Pointer] /\ l.prev \in [Node -> Pointer]
      BY <1>2 DEF QType, Pointer
    <3> HIDE DEF m
    <3> QED BY <3>1, <3>2, Assigned
  <2>4. v \in [1 .. 1 -> Node] /\ v[1] = node
    BY <1>2 DEF Extended
  <2>5. \A i \in 1 .. 1 : i = 1
    OBVIOUS
  <2> HIDE DEF m, v
  <2>6. m.next[v[1]] = NULL /\ m.prev[v[1]] = NULL
    BY <2>3, <2>4
  <2>7. IsList(m, v)
    BY <2>3, <2>4, <2>5, <2>6 DEF IsList
  <2> QED BY <2>3, <2>7, <1>2 DEF m, v
<1>3. CASE l.size # 0
  <2> DEFINE e == w[l.size]
  <2>1. /\ l.head = w[1] /\ l.tail = e /\ e \in Node /\ w[1] \in Node
        /\ \A i \in 1 .. l.size : w[i] \in Node /\ (w[i] = e => i = l.size)
    BY <1>1, <1>3 DEF IsList
  <2>2. m = [l EXCEPT !.size = @ + 1, !.tail = node, !.next[e] = node, !.prev[node] = e]
    BY <1>1, <2>1 DEF AddBetween, IsEmpty
  <2>3. /\ m \in QType /\ m.size = l.size + 1 /\ m.head = l.head /\ m.tail = node
        /\ m.next = [l.next EXCEPT ![e] = node] /\ m.prev = [l.prev EXCEPT ![node] = e]
    <3> DEFINE nx == [l.next EXCEPT ![e] = node]
               pv == [l.prev EXCEPT ![node] = e]
    <3>1. m = [head |-> l.head, tail |-> node, size |-> l.size + 1, next |-> nx, prev |-> pv]
      BY <2>2 DEF QType
    <3>2. /\ node \in Pointer /\ l.head \in Pointer /\ l.size + 1 \in Nat
          /\ nx \in [Node -> Pointer] /\ pv \in [Node -> Pointer]
      BY <2>1 DEF QType, Pointer
    <3> HIDE DEF m, nx, pv
    <3>3. /\ m \in QType /\ m.size = l.size + 1 /\ m.head = l.head /\ m.tail = node
          /\ m.next = nx /\ m.prev = pv
      BY <3>1, <3>2, Assigned
    <3> QED BY <3>3 DEF nx, pv
  <2>4. /\ v \in [1 .. m.size -> Node]
        /\ \A i \in 1 .. l.size : v[i] = w[i]
        /\ v[l.size + 1] = node
    BY <1>1, <2>1, <2>3 DEF Extended
  <2>5. \A i, j \in 1 .. m.size : v[i] = v[j] => i = j
    <3>1. \A i, j \in 1 .. l.size : w[i] = w[j] => i = j
      BY DEF IsList
    <3>2. \A i \in 1 .. m.size : i \in 1 .. l.size \/ i = l.size + 1
      BY <1>1, <2>3
    <3> QED BY <1>1, <2>4, <3>1, <3>2
  <2>6. ASSUME NEW i \in 1 .. m.size
        PROVE  /\ m.next[v[i]] = IF i = m.size THEN NULL ELSE v[i + 1]
               /\ m.prev[v[i]] = IF i = 1 THEN NULL ELSE v[i - 1]
    <3>1. CASE i = l.size + 1
      BY <3>1, <1>1, <1>3, <2>1, <2>3, <2>4 DEF QType
    <3>2. CASE i = l.size
      BY <3>2, <1>1, <1>3, <2>1, <2>3, <2>4 DEF QType, IsList
    <3>3. CASE i < l.size
      <4>1. i \in 1 .. l.size /\ i + 1 \in 1 .. l.size /\ i # l.size /\ i # m.size
        BY <3>3, <1>1, <2>3
      <4>2. m.next[v[i]] = l.next[w[i]] /\ m.prev[v[i]] = l.prev[w[i]]
        BY <4>1, <2>1, <2>3, <2>4 DEF QType
      <4>3. l.next[w[i]] = w[i + 1] /\ v[i + 1] = w[i + 1]
        BY <4>1, <2>4 DEF IsList
      <4>4. l.prev[w[i]] = IF i = 1 THEN NULL ELSE w[i - 1]
        BY <4>1 DEF IsList
      <4>5. i # 1 => v[i - 1] = w[i - 1]
        BY <4>1, <1>1, <2>4
      <4> QED BY <4>1, <4>2, <4>3, <4>4, <4>5
    <3> QED BY <3>1, <3>2, <3>3, <1>1, <2>3
  <2>7. m.head = v[1] /\ m.tail = v[m.size] /\ m.size # 0
    BY <1>1, <1>3, <2>1, <2>3, <2>4
  <2> HIDE DEF m, v
  <2> QED BY <2>3, <2>4, <2>5, <2>6, <2>7 DEF IsList, m, v
<1> QED BY <1>2, <1>3

\* w without its element at place i.
Without(w, n, i) == [j \in 1 .. n - 1 |-> IF j < i THEN w[j] ELSE w[j + 1]]

\* __ts_queue_remove_nolock with the neighbours of any node, the ends included,
\* takes out that node and no other.
LEMMA RemoveAny ==
  ASSUME NEW l \in QType, NEW w, IsList(l, w), NEW i \in 1 .. l.size
  PROVE  LET m == RemoveBetween(l, l.prev[w[i]], l.next[w[i]]) IN
         /\ Between(l, l.prev[w[i]], l.next[w[i]]) = w[i]
         /\ ~IsEmpty(l)
         /\ m \in QType
         /\ m.size = l.size - 1
         /\ IsList(m, Without(w, l.size, i))
<1> DEFINE p == l.prev[w[i]]
           s == l.next[w[i]]
           n == l.size
           m == RemoveBetween(l, p, s)
           v == Without(w, n, i)
<1>1. n \in Nat /\ n # 0 /\ NULL \notin Node /\ \A j \in 1 .. n : w[j] \in Node
  BY QueueAssumption DEF QType, IsList
<1>2. /\ i # 1 => p = w[i - 1] /\ i - 1 \in 1 .. n /\ p \in Node /\ l.next[p] = w[i]
      /\ i = 1 => p = NULL
  <2>1. i # 1 => i - 1 \in 1 .. n /\ i - 1 # n /\ (i - 1) + 1 = i
    BY <1>1
  <2> QED BY <2>1, <1>1 DEF IsList
<1>3. /\ i # n => s = w[i + 1] /\ i + 1 \in 1 .. n /\ s \in Node /\ l.prev[s] = w[i]
      /\ i = n => s = NULL
  <2>1. i # n => i + 1 \in 1 .. n /\ i + 1 # 1 /\ (i + 1) - 1 = i
    BY <1>1
  <2> QED BY <2>1, <1>1 DEF IsList
<1>4. l.head = w[1] /\ l.tail = w[n] /\ l.head # NULL
  BY <1>1 DEF IsList
<1>5. Between(l, p, s) = w[i] /\ ~IsEmpty(l)
  BY <1>1, <1>2, <1>3, <1>4 DEF Between, IsEmpty
<1>6. /\ m \in QType
      /\ m.size = n - 1
      /\ m.head = IF p = NULL THEN s ELSE l.head
      /\ m.tail = IF s = NULL THEN p ELSE l.tail
      /\ m.next = IF p # NULL THEN [l.next EXCEPT ![p] = s] ELSE l.next
      /\ m.prev = IF s # NULL THEN [l.prev EXCEPT ![s] = p] ELSE l.prev
  <2>1. m = [l EXCEPT !.size = n - 1,
                      !.head = IF p = NULL THEN s ELSE @,
                      !.tail = IF s = NULL THEN p ELSE @,
                      !.next = IF p # NULL THEN [@ EXCEPT ![p] = s] ELSE @,
                      !.prev = IF s # NULL THEN [@ EXCEPT ![s] = p] ELSE @]
    BY <1>5 DEF RemoveBetween, CountedOut
  <2>2. p \in Pointer /\ s \in Pointer /\ n - 1 \in Nat
    BY <1>1, <1>2, <1>3 DEF Pointer
  <2> DEFINE h == IF p = NULL THEN s ELSE l.head
             t == IF s = NULL THEN p ELSE l.tail
             nx == IF p # NULL THEN [l.next EXCEPT ![p] = s] ELSE l.next
             pv == IF s # NULL THEN [l.prev EXCEPT ![s] = p] ELSE l.prev
  <2> HIDE DEF p, s
  <2>3. m = [head |-> h, tail |-> t, size |-> n - 1, next |-> nx, prev |-> pv]
    BY <2>1 DEF QType
  <2>4. /\ h \in Pointer /\ t \in Pointer /\ nx \in [Node -> Pointer] /\ pv \in [Node -> Pointer]
    BY <2>2 DEF QType, Pointer
  <2> HIDE DEF m, h, t, nx, pv
  <2>5. /\ m \in QType /\ m.size = n - 1 /\ m.head = h /\ m.tail = t
        /\ m.next = nx /\ m.prev = pv
    BY <2>2, <2>3, <2>4, Assigned
  <2> QED BY <2>5 DEF h, t, nx, pv
<1> HIDE DEF p, s, m
<1>7. /\ v \in [1 .. n - 1 -> Node]
      /\ \A j \in 1 .. n - 1 : v[j] = IF j < i THEN w[j] ELSE w[j + 1]
  BY <1>1 DEF Without
<1> HIDE DEF v
<1>8. \A j, k \in 1 .. n : w[j] = w[k] => j = k
  BY DEF IsList
<1>9. \A j, k \in 1 .. n - 1 : v[j] = v[k] => j = k
  BY <1>1, <1>7, <1>8
<1>10. /\ m.head = IF n - 1 = 0 THEN NULL ELSE v[1]
       /\ m.tail = IF n - 1 = 0 THEN NULL ELSE v[n - 1]
  BY <1>1, <1>2, <1>3, <1>4, <1>6, <1>7
<1>11. ASSUME NEW j \in 1 .. n - 1
       PROVE  m.next[v[j]] = IF j = n - 1 THEN NULL ELSE v[j + 1]
  <2>1. \A k \in 1 .. n : l.next[w[k]] = IF k = n THEN NULL ELSE w[k + 1]
    BY DEF IsList
  <2>2. l.next \in [Node -> Pointer]
    BY DEF QType
  <2>3. CASE j < i - 1
    <3>1. j \in 1 .. n /\ j # i - 1 /\ v[j] = w[j] /\ j # n - 1 /\ v[j + 1] = w[j + 1]
      BY <2>3, <1>1, <1>7
    <3>2. i # 1 => w[j] # p
      BY <3>1, <1>2, <1>8
    <3>3. m.next[w[j]] = l.next[w[j]]
      BY <3>1, <3>2, <1>1, <1>2, <1>6, <2>2
    <3> QED BY <3>1, <3>3, <2>1, <1>1
  <2>4. CASE j = i - 1
    <3>1. i # 1 /\ v[j] = p /\ m.next[p] = s
      BY <2>4, <1>1, <1>2, <1>6, <1>7, <2>2
    <3>2. j # n - 1 => i # n /\ v[j + 1] = w[i + 1]
      BY <2>4, <1>1, <1>7
    <3>3. j = n - 1 => i = n
      BY <2>4, <1>1
    <3> QED BY <3>1, <3>2, <3>3, <1>3
  <2>5. CASE j >= i
    <3>1. j + 1 \in 1 .. n /\ j + 1 # i - 1 /\ v[j] = w[j + 1]
      BY <2>5, <1>1, <1>7
    <3>2. i # 1 => w[j + 1] # p
      BY <3>1, <1>2, <1>8
    <3>3. m.next[w[j + 1]] = l.next[w[j + 1]]
      BY <3>1, <3>2, <1>1, <1>2, <1>6, <2>2
    <3>4. ASSUME j # n - 1 PROVE v[j + 1] = w[(j + 1) + 1]
      <4>1. j + 1 \in 1 .. n - 1 /\ ~(j + 1 < i)
        BY <3>4, <2>5, <1>1
      <4> QED BY <4>1, <1>7
    <3> QED BY <3>1, <3>3, <3>4, <2>1, <1>1
  <2> QED BY <2>3, <2>4, <2>5, <1>1
<1>12. ASSUME NEW j \in 1 .. n - 1
       PROVE  m.prev[v[j]] = IF j = 1 THEN NULL ELSE v[j - 1]
  <2>1. \A k \in 1 .. n : l.prev[w[k]] = IF k = 1 THEN NULL ELSE w[k - 1]
    BY DEF IsList
  <2>2. l.prev \in [Node -> Pointer]
    BY DEF QType
  <2>3. CASE j < i
    <3>1. j \in 1 .. n /\ j # i + 1 /\ v[j] = w[j] /\ (j # 1 => v[j - 1] = w[j - 1])
      BY <2>3, <1>1, <1>7
    <3>2. i # n => w[j] # s
      BY <3>1, <1>3, <1>8
    <3>3. m.prev[w[j]] = l.prev[w[j]]
      BY <3>1, <3>2, <1>1, <1>3, <1>6, <2>2
    <3> QED BY <3>1, <3>3, <2>1
  <2>4. CASE j = i
    <3>1. i # n /\ v[j] = s /\ m.prev[s] = p
      BY <2>4, <1>1, <1>3, <1>6, <1>7, <2>2
    <3>2. j # 1 => v[j - 1] = w[i - 1]
      BY <2>4, <1>1, <1>7
    <3> QED BY <3>1, <3>2, <2>4, <1>2
  <2>5. CASE j > i
    <3>1. /\ j + 1 \in 1 .. n /\ j + 1 # i + 1 /\ v[j] = w[j + 1] /\ j # 1
          /\ v[j - 1] = w[(j + 1) - 1]
      BY <2>5, <1>1, <1>7
    <3>2. i # n => w[j + 1] # s
      BY <3>1, <1>3, <1>8
    <3>3. m.prev[w[j + 1]] = l.prev[w[j + 1]]
      BY <3>1, <3>2, <1>1, <1>3, <1>6, <2>2
    <3> QED BY <3>1, <3>3, <2>1
  <2> QED BY <2>3, <2>4, <2>5, <1>1
<1>13. IsList(m, v)
  BY <1>6, <1>7, <1>9, <1>10, <1>11, <1>12 DEF IsList
<1> QED BY <1>5, <1>6, <1>13 DEF m, v, p, s

-----------------------------------------------------------------------------
\* The list of the queue.
W == NodeAt(q)

\* The links describe it.
ListInv == q \in QType /\ IsList(q, W)

\* Whoever is inside an operation holds the mutex, and nobody is once the queue
\* is being destroyed.
LockInv ==
  /\ \A t \in Thread : pc[t] # "idle" <=> mutex = t
  /\ phase # "live" => \A t \in Thread : pc[t] = "idle"

\* What is listed carries an item.
DataInv == \A i \in 1 .. q.size : data[W[i]] \in Item

\* t knows the neighbours of the i-th node, the first with its item.
Aims(t, i) ==
  /\ local[t].prev = q.prev[W[i]] /\ local[t].next = q.next[W[i]]
  /\ \A j \in 1 .. i - 1 : data[W[j]] # data[W[i]]

\* What t has read is still true when it uses it.
LocalInv(t) ==
  /\ pc[t] = "enqueue" => local[t].item \in Item
  /\ pc[t] \in {"dequeue", "find"} => local[t].prev = NULL
  /\ pc[t] = "add" =>
       /\ local[t].node \in Node \ Listed
       /\ local[t].prev = q.tail /\ local[t].next = NULL
       /\ q.next[local[t].node] = NULL /\ q.prev[local[t].node] = NULL
       /\ data[local[t].node] \in Item
  /\ pc[t] = "remove" => \E i \in 1 .. q.size : Aims(t, i)

\* What ts_queue_destroy has not freed yet.
Rest(k) == {W[j] : j \in k .. q.size}

\* NodesAccounted, with the place that ts_queue_destroy has reached.
MemoryInv ==
  /\ phase = "live" => allocated = Listed \cup InFlight
  /\ phase = "destroying" =>
       IF cursor = NULL THEN allocated = {}
       ELSE \E k \in 1 .. q.size : cursor = W[k] /\ allocated = Rest(k)
  /\ phase = "destroyed" => allocated = {}

\* The types of the other variables.
LocalType == [item : Item \cup {NULL}, node : Pointer, prev : Pointer, next : Pointer]

Types ==
  /\ data \in [Node -> Item \cup {NULL}]
  /\ allocated \subseteq Node
  /\ mutex \in Thread \cup {NoThread}
  /\ pc \in [Thread -> {"idle", "enqueue", "add", "dequeue", "find", "remove", "unlock"}]
  /\ local \in [Thread -> LocalType]
  /\ phase \in {"live", "destroying", "destroyed"}
  /\ cursor \in Pointer

\* The inductive invariant.
IInv ==
  /\ Types /\ ListInv /\ LockInv /\ DataInv /\ MemoryInv
  /\ \A t \in Thread : LocalInv(t)

\* The empty queue.
LEMMA InitIInv == Init => IInv
<1> SUFFICES ASSUME Init PROVE IInv
  OBVIOUS
<1> USE DEF Init
<1>1. q \in QType /\ q.size = 0
  BY DEF QType, Pointer
<1>2. IsList(q, << >>)
  BY <1>1 DEF IsList
<1>3. ListInv /\ W = << >>
  BY <1>1, <1>2, WalkIsList DEF ListInv, W
<1>4. Listed = {} /\ InFlight = {}
  BY <1>1 DEF Listed, InFlight
<1>5. Types
  BY DEF Types, LocalType, NoLocals, Pointer
<1>6. LockInv /\ DataInv /\ MemoryInv
  BY <1>1, <1>4, QueueAssumption DEF LockInv, DataInv, MemoryInv
<1>7. \A t \in Thread : LocalInv(t)
  BY DEF LocalInv
<1> QED BY <1>3, <1>5, <1>6, <1>7 DEF IInv

\* The list as the invariant gives it.
LEMMA TheList ==
  ASSUME IInv
  PROVE  /\ q \in QType /\ q.size \in Nat
         /\ W \in [1 .. q.size -> Node]
         /\ \A i, j \in 1 .. q.size : W[i] = W[j] => i = j
         /\ \A i \in 1 .. q.size : W[i] \in Listed
         /\ Listed \subseteq Node
BY DEF IInv, ListInv, IsList, QType, Listed, W

\* A thread inside is alone there, in a live queue.
LEMMA Alone ==
  ASSUME IInv, NEW t \in Thread, pc[t] # "idle"
  PROVE  /\ phase = "live" /\ mutex = t
         /\ \A u \in Thread : u # t => pc[u] = "idle"
         /\ InFlight = IF pc[t] = "add" THEN {local[t].node} ELSE {}
         /\ allocated = Listed \cup InFlight
<1>1. /\ phase = "live" /\ mutex = t
      /\ \A u \in Thread : u # t => pc[u] = "idle"
  BY DEF IInv, LockInv, Types
<1>2. InFlight = IF pc[t] = "add" THEN {local[t].node} ELSE {}
  BY <1>1 DEF InFlight
<1> QED BY <1>1, <1>2 DEF IInv, MemoryInv

\* A step of t to v, with the locals r, that leaves the list and the memory alone.
Quietly(t, v, r) ==
  /\ phase = "live" /\ pc[t] # "add"
  /\ \A u \in Thread : u # t => pc[u] = "idle"
  /\ pc' = [pc EXCEPT ![t] = v]
  /\ local' = [local EXCEPT ![t] = r]
  /\ mutex' = IF v = "idle" THEN NoThread ELSE t
  /\ UNCHANGED <<q, data, allocated, phase, cursor>>

\* Such a step keeps the invariant if what t now knows is right.
LEMMA QuietStep ==
  ASSUME IInv, NEW t \in Thread, NEW r \in LocalType,
         NEW v \in {"idle", "enqueue", "dequeue", "find", "remove", "unlock"},
         Quietly(t, v, r),
         v = "enqueue" => r.item \in Item,
         v \in {"dequeue", "find"} => r.prev = NULL,
         v = "remove" => \E i \in 1 .. q.size :
           /\ r.prev = q.prev[W[i]] /\ r.next = q.next[W[i]]
           /\ \A j \in 1 .. i - 1 : data[W[j]] # data[W[i]]
  PROVE  IInv'
<1> USE DEF Quietly, LocalType
<1>1. /\ pc'[t] = v /\ local'[t] = r
      /\ \A u \in Thread : u # t => pc'[u] = "idle"
  BY DEF IInv, Types
<1>2. W' = W /\ Listed' = Listed
  BY DEF W, Listed
<1>3. InFlight = {} /\ InFlight' = {}
  BY <1>1 DEF InFlight
<1>4. Types'
  BY DEF IInv, Types
<1>5. ListInv' /\ DataInv'
  BY <1>2 DEF IInv, ListInv, DataInv
<1>6. LockInv'
  BY <1>1, QueueAssumption DEF LockInv
<1>7. MemoryInv'
  BY <1>2, <1>3 DEF IInv, MemoryInv
<1>8. ASSUME NEW u \in Thread PROVE LocalInv(u)'
  BY <1>1, <1>2 DEF LocalInv, Aims
<1> QED BY <1>4, <1>5, <1>6, <1>7, <1>8 DEF IInv

\* Taking the mutex: nobody was inside.
LEMMA LockStep ==
  ASSUME IInv, NEW t \in Thread, NEW x \in Item \cup {NULL},
         NEW o \in {"enqueue", "dequeue", "find"}, o = "enqueue" => x \in Item,
         Lock(t, o, x)
  PROVE  IInv'
<1>1. \A u \in Thread : pc[u] = "idle"
  BY QueueAssumption DEF Lock, MutexFree, IInv, LockInv
<1> DEFINE r == [NoLocals EXCEPT !.item = x]
<1>2. r \in LocalType /\ r.item = x /\ r.prev = NULL
  BY DEF LocalType, NoLocals, Pointer
<1>3. /\ pc' = [pc EXCEPT ![t] = o] /\ local' = [local EXCEPT ![t] = r] /\ mutex' = t
      /\ phase = "live" /\ UNCHANGED <<q, data, allocated, phase, cursor>>
  BY DEF Lock
<1>4. /\ o \in {"idle", "enqueue", "dequeue", "find", "remove", "unlock"}
      /\ mutex' = IF o = "idle" THEN NoThread ELSE t
      /\ o # "remove" /\ pc[t] # "add" /\ (o = "enqueue" => r.item \in Item)
  BY <1>1, <1>2, <1>3
<1> HIDE DEF r
<1>5. Quietly(t, o, r)
  BY <1>1, <1>3, <1>4 DEF Quietly
<1> QED BY <1>2, <1>4, <1>5, QuietStep

\* The new node is not in the list, so writing its links leaves the list alone.
LEMMA NewNodeStep ==
  ASSUME IInv, NEW t \in Thread, NewNode(t)
  PROVE  IInv' /\ q'.size = q.size /\ W' = W
<1> DEFINE r(n) == [BehindTail(q) EXCEPT !.node = n]
<1>1. PICK n \in Node \ allocated :
        /\ allocated' = allocated \cup {n}
        /\ data' = [data EXCEPT ![n] = local[t].item]
        /\ q' = [q EXCEPT !.prev[n] = NULL, !.next[n] = NULL]
        /\ local' = [local EXCEPT ![t] = r(n)]
  BY DEF NewNode
<1>2. /\ pc[t] = "enqueue" /\ pc' = [pc EXCEPT ![t] = "add"]
      /\ UNCHANGED <<mutex, phase, cursor>>
  BY DEF NewNode
<1>3. /\ phase = "live" /\ mutex = t
      /\ \A u \in Thread : u # t => pc[u] = "idle"
      /\ allocated = Listed
  BY <1>2, Alone
<1>4. local[t].item \in Item /\ n \notin Listed
  BY <1>1, <1>2, <1>3 DEF IInv, LocalInv
<1>5. /\ r(n) \in LocalType
      /\ r(n).node = n /\ r(n).prev = q.tail /\ r(n).next = NULL
  BY TheList DEF LocalType, BehindTail, NoLocals, Pointer, QType
<1>6. /\ pc'[t] = "add" /\ local'[t] = r(n)
      /\ \A u \in Thread : u # t => pc'[u] = "idle"
  BY <1>1, <1>2, <1>3 DEF IInv, Types
<1> HIDE DEF r
<1>7. /\ q' \in QType /\ q'.size = q.size /\ q'.head = q.head /\ q'.tail = q.tail
      /\ q'.next = [q.next EXCEPT ![n] = NULL] /\ q'.prev = [q.prev EXCEPT ![n] = NULL]
  <2> DEFINE nx == [q.next EXCEPT ![n] = NULL]
             pv == [q.prev EXCEPT ![n] = NULL]
  <2>1. q' = [head |-> q.head, tail |-> q.tail, size |-> q.size, next |-> nx, prev |-> pv]
    BY <1>1, TheList DEF QType
  <2>2. /\ q.head \in Pointer /\ q.tail \in Pointer /\ q.size \in Nat
        /\ nx \in [Node -> Pointer] /\ pv \in [Node -> Pointer]
    BY TheList DEF QType, Pointer
  <2> HIDE DEF nx, pv
  <2>3. /\ q' \in QType /\ q'.size = q.size /\ q'.head = q.head /\ q'.tail = q.tail
        /\ q'.next = nx /\ q'.prev = pv
    BY <2>1, <2>2, TheList, Assigned
  <2> QED BY <2>3 DEF nx, pv
<1>8. \A i \in 1 .. q.size : W[i] # n /\ W[i] \in Node
  BY <1>4, TheList
<1>9. IsList(q', W)
  <2>1. IsList(q, W) /\ q \in QType
    BY DEF IInv, ListInv
  <2>2. \A i \in 1 .. q.size : q'.next[W[i]] = q.next[W[i]] /\ q'.prev[W[i]] = q.prev[W[i]]
    BY <1>7, <1>8, <2>1 DEF QType
  <2> QED BY <1>7, <2>1, <2>2 DEF IsList
<1>10. W' = W
  BY <1>7, <1>9, WalkIsList DEF W
<1>11. Listed' = Listed
  BY <1>7, <1>10 DEF Listed, W
<1>12. InFlight' = {n}
  BY <1>5, <1>6 DEF InFlight
<1>13. Types'
  <2>1. data' \in [Node -> Item \cup {NULL}]
    BY <1>1, <1>4 DEF IInv, Types
  <2>2. local' \in [Thread -> LocalType]
    BY <1>1, <1>5 DEF IInv, Types
  <2> QED BY <2>1, <2>2, <1>1, <1>2 DEF IInv, Types
<1>14. ListInv'
  BY <1>7, <1>9, <1>10 DEF ListInv
<1>15. LockInv'
  BY <1>2, <1>3, <1>6 DEF LockInv
<1>16. DataInv'
  BY <1>1, <1>7, <1>8, <1>10 DEF DataInv, IInv, Types
<1>17. MemoryInv'
  BY <1>1, <1>2, <1>3, <1>11, <1>12 DEF MemoryInv
<1>18. ASSUME NEW u \in Thread PROVE LocalInv(u)'
  <2>1. data'[n] \in Item /\ q'.next[n] = NULL /\ q'.prev[n] = NULL
    BY <1>1, <1>4, <1>7, TheList DEF IInv, Types, QType
  <2> QED BY <2>1, <1>4, <1>5, <1>6, <1>7, <1>11 DEF LocalInv
<1> QED BY <1>7, <1>10, <1>13, <1>14, <1>15, <1>16, <1>17, <1>18 DEF IInv

\* ts_queue_enqueue rewrites the links.
LEMMA AddStep ==
  ASSUME IInv, NEW t \in Thread, Add(t)
  PROVE  /\ IInv'
         /\ W' = Extended(W, q.size, local[t].node) /\ q'.size = q.size + 1
         /\ local[t].node \in Node \ Listed /\ data[local[t].node] \in Item
<1> DEFINE n == local[t].node
<1>1. /\ pc[t] = "add"
      /\ q' = AddBetween(q, local[t].prev, local[t].next, n)
      /\ pc' = [pc EXCEPT ![t] = "unlock"]
      /\ UNCHANGED <<data, allocated, mutex, local, phase, cursor>>
  BY DEF Add
<1>2. /\ phase = "live" /\ mutex = t
      /\ \A u \in Thread : u # t => pc[u] = "idle"
      /\ allocated = Listed \cup {n}
  BY <1>1, Alone
<1>3. /\ n \in Node \ Listed /\ local[t].prev = q.tail /\ local[t].next = NULL
      /\ q.next[n] = NULL /\ q.prev[n] = NULL /\ data[n] \in Item
  BY <1>1 DEF IInv, LocalInv
<1>4. /\ q' = AddBetween(q, q.tail, NULL, n)
      /\ \A i \in 1 .. q.size : W[i] # n
      /\ q \in QType /\ IsList(q, W)
  BY <1>1, <1>3, TheList DEF IInv, ListInv
<1> HIDE DEF n
<1>5. q' \in QType /\ q'.size = q.size + 1 /\ IsList(q', Extended(W, q.size, n))
  BY <1>3, <1>4, AddAtEnd
<1>6. W' = Extended(W, q.size, n)
  BY <1>5, WalkIsList DEF W
<1>7. /\ q.size \in Nat
      /\ \A i \in 1 .. q.size : W'[i] = W[i]
      /\ W'[q.size + 1] = n
  BY <1>6, TheList DEF Extended
<1>8. Listed' = Listed \cup {n}
  <2>1. Listed' = {W'[i] : i \in 1 .. q.size + 1}
    BY <1>5 DEF Listed, W
  <2>2. Listed = {W[i] : i \in 1 .. q.size}
    BY DEF Listed, W
  <2> QED BY <2>1, <2>2, <1>7
<1>9. /\ pc'[t] = "unlock"
      /\ \A u \in Thread : u # t => pc'[u] = "idle"
  BY <1>1, <1>2 DEF IInv, Types
<1>10. InFlight' = {}
  BY <1>9 DEF InFlight
<1>11. Types'
  BY <1>1 DEF IInv, Types
<1>12. ListInv'
  BY <1>5, <1>6 DEF ListInv
<1>13. LockInv'
  BY <1>1, <1>2, <1>9 DEF LockInv
<1>14. DataInv'
  BY <1>1, <1>3, <1>5, <1>7 DEF DataInv, IInv
<1>15. MemoryInv'
  BY <1>1, <1>2, <1>8, <1>10 DEF MemoryInv
<1>16. \A u \in Thread : LocalInv(u)'
  BY <1>9 DEF LocalInv
<1> QED BY <1>3, <1>5, <1>6, <1>11, <1>12, <1>13, <1>14, <1>15, <1>16 DEF IInv, n

\* ts_queue_dequeue reads the second node: no node precedes the head.
LEMMA DequeueHeadStep ==
  ASSUME IInv, NEW t \in Thread, DequeueHead(t)
  PROVE  IInv'
<1>1. pc[t] = "dequeue" /\ UNCHANGED <<q, data, allocated, mutex, phase, cursor>>
  BY DEF DequeueHead
<1>2. /\ phase = "live" /\ mutex = t
      /\ \A u \in Thread : u # t => pc[u] = "idle"
  BY <1>1, Alone
<1>3. local[t] \in LocalType /\ local[t].prev = NULL /\ local \in [Thread -> LocalType]
  BY <1>1 DEF IInv, Types, LocalInv
<1>4. CASE IsEmpty(q)
  <2>1. pc' = [pc EXCEPT ![t] = "unlock"] /\ local' = [local EXCEPT ![t] = local[t]]
    BY <1>3, <1>4 DEF DequeueHead
  <2>2. Quietly(t, "unlock", local[t])
    BY <2>1, <1>1, <1>2 DEF Quietly
  <2> QED BY <2>2, <1>3, QuietStep
<1>5. CASE ~IsEmpty(q)
  <2> DEFINE r == [local[t] EXCEPT !.next = q.next[q.head]]
  <2>1. pc' = [pc EXCEPT ![t] = "remove"] /\ local' = [local EXCEPT ![t] = r]
    BY <1>3, <1>5 DEF DequeueHead
  <2>2. /\ 1 \in 1 .. q.size /\ W[1] = q.head /\ W[1] \in Node /\ q.prev[W[1]] = NULL
    BY <1>5, TheList DEF IInv, ListInv, IsList, IsEmpty
  <2>3. r \in LocalType /\ r.prev = q.prev[W[1]] /\ r.next = q.next[W[1]]
    BY <2>2, <1>3, TheList DEF QType, LocalType
  <2>4. \E i \in 1 .. q.size :
          /\ r.prev = q.prev[W[i]] /\ r.next = q.next[W[i]]
          /\ \A j \in 1 .. i - 1 : data[W[j]] # data[W[i]]
    BY <2>2, <2>3
  <2> HIDE DEF r
  <2>5. Quietly(t, "remove", r)
    BY <2>1, <1>1, <1>2 DEF Quietly
  <2> QED BY <2>3, <2>4, <2>5, QuietStep
<1> QED BY <1>4, <1>5

\* The walk reads the neighbours of the first node with the item.
LEMMA FindStep ==
  ASSUME IInv, NEW t \in Thread, Find(t)
  PROVE  IInv'
<1> DEFINE matching == {i \in 1 .. q.size : data[W[i]] = local[t].item}
           first == CHOOSE i \in matching : \A j \in matching : i <= j
           found == W[first]
<1>1. pc[t] = "find" /\ UNCHANGED <<q, data, allocated, mutex, phase, cursor>>
  BY DEF Find
<1>2. /\ phase = "live" /\ mutex = t
      /\ \A u \in Thread : u # t => pc[u] = "idle"
  BY <1>1, Alone
<1>3. local[t] \in LocalType /\ local \in [Thread -> LocalType]
  BY <1>1 DEF IInv, Types
<1>4. CASE matching = {}
  <2>1. pc' = [pc EXCEPT ![t] = "unlock"] /\ local' = [local EXCEPT ![t] = local[t]]
    BY <1>3, <1>4 DEF Find, W
  <2>2. Quietly(t, "unlock", local[t])
    BY <2>1, <1>1, <1>2 DEF Quietly
  <2> QED BY <2>2, <1>3, QuietStep
<1>5. CASE matching # {}
  <2> DEFINE r == [local[t] EXCEPT !.prev = q.prev[found], !.next = q.next[found]]
  <2>1. pc' = [pc EXCEPT ![t] = "remove"] /\ local' = [local EXCEPT ![t] = r]
    <3>1. /\ pc' = [pc EXCEPT ![t] = "remove"]
          /\ local' = [local EXCEPT ![t].prev = q.prev[found], ![t].next = q.next[found]]
      BY <1>5 DEF Find, W
    <3> HIDE DEF found
    <3> QED BY <3>1, <1>3
  <2>2. first \in matching /\ \A j \in matching : first <= j
    <3>1. matching \subseteq Nat
      BY TheList
    <3>2. \E i \in matching : \A j \in matching : i <= j
      BY <3>1, <1>5, LeastNatural
    <3> HIDE DEF matching
    <3> QED BY <3>2
  <2>3. /\ first \in 1 .. q.size
        /\ \A j \in 1 .. first - 1 : data[W[j]] # data[W[first]]
    <3> HIDE DEF first
    <3> QED BY <2>2, TheList
  <2>4. r \in LocalType /\ r.prev = q.prev[found] /\ r.next = q.next[found]
    <3>1. found \in Node
      BY <2>3, TheList
    <3> HIDE DEF found
    <3> QED BY <3>1, <1>3, TheList DEF QType, LocalType
  <2> HIDE DEF first, matching
  <2>5. \E i \in 1 .. q.size :
          /\ r.prev = q.prev[W[i]] /\ r.next = q.next[W[i]]
          /\ \A j \in 1 .. i - 1 : data[W[j]] # data[W[i]]
    BY <2>3, <2>4
  <2> HIDE DEF r
  <2>6. Quietly(t, "remove", r)
    BY <2>1, <1>1, <1>2 DEF Quietly
  <2> QED BY <2>4, <2>5, <2>6, QuietStep
<1> QED BY <1>4, <1>5

\* Leaving the operation forgets its locals.
LEMMA UnlockStep ==
  ASSUME IInv, NEW t \in Thread, Unlock(t)
  PROVE  IInv'
<1>1. /\ pc[t] = "unlock" /\ mutex' = NoThread
      /\ pc' = [pc EXCEPT ![t] = "idle"]
      /\ local' = [local EXCEPT ![t] = NoLocals]
      /\ UNCHANGED <<q, data, allocated, phase, cursor>>
  BY DEF Unlock
<1>2. /\ phase = "live" /\ \A u \in Thread : u # t => pc[u] = "idle"
  BY <1>1, Alone
<1>3. NoLocals \in LocalType
  BY DEF LocalType, NoLocals, Pointer
<1>4. Quietly(t, "idle", NoLocals)
  BY <1>1, <1>2 DEF Quietly
<1> QED BY <1>3, <1>4, QuietStep

\* The removal frees the node that t aimed at, wherever it stands.
LEMMA RemoveStep ==
  ASSUME IInv, NEW t \in Thread, Remove(t)
  PROVE  /\ IInv'
         /\ \E i \in 1 .. q.size :
              /\ W' = Without(W, q.size, i) /\ q'.size = q.size - 1
              /\ \A j \in 1 .. i - 1 : data[W[j]] # data[W[i]]
<1>1. /\ pc[t] = "remove"
      /\ q' = RemoveBetween(q, local[t].prev, local[t].next)
      /\ allocated' = IF IsEmpty(q) THEN allocated
                      ELSE allocated \ {Between(q, local[t].prev, local[t].next)}
      /\ pc' = [pc EXCEPT ![t] = "unlock"]
      /\ UNCHANGED <<data, mutex, local, phase, cursor>>
  BY DEF Remove
<1>2. /\ phase = "live" /\ mutex = t
      /\ \A u \in Thread : u # t => pc[u] = "idle"
      /\ allocated = Listed
  BY <1>1, Alone
<1>3. PICK i \in 1 .. q.size : Aims(t, i)
  BY <1>1 DEF IInv, LocalInv
<1>4. /\ local[t].prev = q.prev[W[i]] /\ local[t].next = q.next[W[i]]
      /\ \A j \in 1 .. i - 1 : data[W[j]] # data[W[i]]
  BY <1>3 DEF Aims
<1>5. q \in QType /\ IsList(q, W)
  BY DEF IInv, ListInv
<1>6. /\ Between(q, q.prev[W[i]], q.next[W[i]]) = W[i]
      /\ ~IsEmpty(q)
      /\ q' \in QType /\ q'.size = q.size - 1
      /\ IsList(q', Without(W, q.size, i))
  BY <1>1, <1>4, <1>5, RemoveAny
<1>7. allocated' = Listed \ {W[i]}
  BY <1>1, <1>2, <1>4, <1>6
<1>8. W' = Without(W, q.size, i)
  BY <1>6, WalkIsList DEF W
<1>9. /\ q.size \in Nat
      /\ \A j \in 1 .. q.size - 1 : W'[j] = IF j < i THEN W[j] ELSE W[j + 1]
  BY <1>8, TheList DEF Without
<1>10. Listed' = Listed \ {W[i]}
  <2>1. Listed' = {W'[j] : j \in 1 .. q.size - 1}
    BY <1>6 DEF Listed, W
  <2>2. Listed = {W[j] : j \in 1 .. q.size}
    BY DEF Listed, W
  <2>3. ASSUME NEW j \in 1 .. q.size - 1 PROVE W'[j] \in Listed \ {W[i]}
    <3>1. PICK k \in 1 .. q.size : W'[j] = W[k] /\ k # i
      BY <1>9
    <3> QED BY <3>1, <2>2, TheList
  <2>4. ASSUME NEW j \in 1 .. q.size, j # i PROVE W[j] \in Listed'
    <3>1. CASE j < i
      BY <3>1, <2>1, <1>9
    <3>2. CASE ~(j < i)
      <4>1. j - 1 \in 1 .. q.size - 1 /\ ~(j - 1 < i) /\ (j - 1) + 1 = j
        BY <3>2, <2>4, <1>9
      <4>2. W'[j - 1] = W[j]
        BY <4>1, <1>9
      <4> QED BY <4>1, <4>2, <2>1
    <3> QED BY <3>1, <3>2
  <2>5. Listed' \subseteq Listed \ {W[i]}
    BY <2>1, <2>3
  <2>6. Listed \ {W[i]} \subseteq Listed'
    BY <2>2, <2>4
  <2> QED BY <2>5, <2>6
<1>11. /\ pc'[t] = "unlock"
       /\ \A u \in Thread : u # t => pc'[u] = "idle"
  BY <1>1, <1>2 DEF IInv, Types
<1>12. InFlight' = {}
  BY <1>11 DEF InFlight
<1>13. Types'
  BY <1>1, <1>7, TheList DEF IInv, Types
<1>14. ListInv'
  BY <1>6, <1>8 DEF ListInv
<1>15. LockInv'
  BY <1>1, <1>2, <1>11 DEF LockInv
<1>16. DataInv'
  BY <1>1, <1>6, <1>9 DEF DataInv, IInv
<1>17. MemoryInv'
  BY <1>1, <1>2, <1>7, <1>10, <1>12 DEF MemoryInv
<1>18. \A u \in Thread : LocalInv(u)'
  BY <1>11 DEF LocalInv
<1> QED BY <1>4, <1>6, <1>8, <1>13, <1>14, <1>15, <1>16, <1>17, <1>18 DEF IInv

\* Each turn of the destroying loop frees the first of the nodes that remain.
LEMMA DestroyStep ==
  ASSUME IInv, Destroy \/ DestroyNode
  PROVE  IInv'
<1>1. UNCHANGED <<q, data, mutex, pc, local>> /\ \A t \in Thread : pc[t] = "idle"
  BY DEF Destroy, DestroyNode, IInv, LockInv
<1>2. W' = W /\ Listed' = Listed /\ q.size \in Nat
  BY <1>1, TheList DEF W, Listed
<1>3. InFlight = {}
  BY <1>1 DEF InFlight
<1>4. q \in QType /\ IsList(q, W) /\ NULL \notin Node
  BY QueueAssumption DEF IInv, ListInv
<1>5. CASE Destroy
  <2>1. phase' = "destroying" /\ cursor' = q.head /\ allocated' = Listed /\ allocated' = allocated
    BY <1>3, <1>5 DEF Destroy, IInv, MemoryInv
  <2>2. ASSUME q.size = 0 PROVE MemoryInv'
    <3>1. cursor' = NULL /\ Listed = {}
      BY <2>1, <2>2, <1>4 DEF IsList, Listed
    <3> QED BY <2>1, <3>1 DEF MemoryInv
  <2>3. ASSUME q.size # 0 PROVE MemoryInv'
    <3>1. 1 \in 1 .. q.size /\ cursor' = W[1] /\ W[1] # NULL
      BY <2>1, <2>3, <1>2, <1>4 DEF IsList
    <3>2. Rest(1) = Listed
      BY DEF Rest, Listed, W
    <3>3. Rest(1)' = Rest(1)
      BY <1>1, <1>2 DEF Rest
    <3> QED BY <2>1, <3>1, <3>2, <3>3, <1>1, <1>2 DEF MemoryInv
  <2>4. Types' /\ LockInv'
    BY <2>1, <1>1, <1>4, TheList DEF IInv, Types, LockInv, QType
  <2>5. MemoryInv'
    BY <2>2, <2>3
  <2>6. ListInv' /\ DataInv' /\ \A t \in Thread : LocalInv(t)'
    BY <1>1, <1>2 DEF IInv, ListInv, DataInv, LocalInv
  <2> QED BY <2>4, <2>5, <2>6 DEF IInv
<1>6. CASE DestroyNode
  <2>1. phase = "destroying"
    BY <1>6 DEF DestroyNode
  <2>2. CASE cursor = NULL
    <3>1. phase' = "destroyed" /\ allocated' = {} /\ cursor' = cursor
      BY <2>1, <2>2, <1>6 DEF DestroyNode, AtEnd, IInv, MemoryInv
    <3>2. Types' /\ LockInv' /\ MemoryInv'
      BY <3>1, <1>1 DEF IInv, Types, LockInv, MemoryInv
    <3>3. ListInv' /\ DataInv' /\ \A t \in Thread : LocalInv(t)'
      BY <1>1, <1>2 DEF IInv, ListInv, DataInv, LocalInv
    <3> QED BY <3>2, <3>3 DEF IInv
  <2>3. CASE cursor # NULL
    <3>1. /\ phase' = "destroying" /\ allocated' = allocated \ {cursor}
          /\ cursor' = q.next[cursor]
      BY <2>1, <2>3, <1>6 DEF DestroyNode, AtEnd
    <3>2. PICK k \in 1 .. q.size : cursor = W[k] /\ allocated = Rest(k)
      BY <2>1, <2>3 DEF IInv, MemoryInv
    <3>3. allocated' = {W[j] : j \in k + 1 .. q.size}
      <4>1. \A j \in k + 1 .. q.size : j \in 1 .. q.size /\ W[j] # W[k]
        BY <1>2, TheList
      <4>2. \A j \in k .. q.size : j = k \/ j \in k + 1 .. q.size
        BY <1>2
      <4> QED BY <4>1, <4>2, <3>1, <3>2 DEF Rest
    <3>4. cursor' = IF k = q.size THEN NULL ELSE W[k + 1]
      BY <3>1, <3>2, <1>4 DEF IsList
    <3>5. MemoryInv'
      <4>1. CASE k = q.size
        <5>1. k + 1 .. q.size = {}
          BY <4>1, <1>2
        <5> QED BY <5>1, <4>1, <3>1, <3>3, <3>4 DEF MemoryInv
      <4>2. CASE k # q.size
        <5>1. k + 1 \in 1 .. q.size /\ W[k + 1] \in Node
          BY <4>2, <1>2, TheList
        <5>2. Rest(k + 1)' = {W[j] : j \in k + 1 .. q.size}
          BY <1>1, <1>2 DEF Rest
        <5> QED BY <5>1, <5>2, <4>2, <3>1, <3>3, <3>4, <1>1, <1>2, <1>4 DEF MemoryInv
      <4> QED BY <4>1, <4>2
    <3>6. Types' /\ LockInv'
      BY <3>1, <3>2, <1>1, <1>4, TheList DEF IInv, Types, LockInv, QType
    <3>7. ListInv' /\ DataInv' /\ \A t \in Thread : LocalInv(t)'
      BY <1>1, <1>2 DEF IInv, ListInv, DataInv, LocalInv
    <3> QED BY <3>5, <3>6, <3>7 DEF IInv
  <2> QED BY <2>2, <2>3
<1> QED BY <1>5, <1>6
-----------------------------------------------------------------------------
\* What a step may do to the list: nothing; one node more, at the end; or the
\* first node with its data is taken out.  Items of listed nodes stay.
ListStep ==
  \/ q'.size = q.size /\ W' = W
  \/ \E n \in Node \ Listed :
       /\ q'.size = q.size + 1 /\ W' = Extended(W, q.size, n)
       /\ data[n] \in Item /\ data' = data
  \/ \E i \in 1 .. q.size :
       /\ W' = Without(W, q.size, i) /\ q'.size = q.size - 1
       /\ \A j \in 1 .. i - 1 : data[W[j]] # data[W[i]]
       /\ data' = data

\* Every step keeps the invariant and is such a step of the list.
LEMMA StepIInv ==
  ASSUME IInv, [Next]_vars
  PROVE  /\ IInv' /\ ListStep
         /\ \A i \in 1 .. q.size : data'[W[i]] = data[W[i]]
<1> DEFINE Kept == \A i \in 1 .. q.size : data'[W[i]] = data[W[i]]
<1>1. ASSUME q' = q PROVE q'.size = q.size /\ W' = W
  BY <1>1 DEF W
<1>2. CASE UNCHANGED vars
  <2>1. W' = W /\ Listed' = Listed /\ InFlight' = InFlight
    BY <1>2 DEF vars, W, Listed, InFlight
  <2>2. IInv'
    BY <1>2, <2>1 DEF vars, IInv, Types, ListInv, LockInv, DataInv, MemoryInv, Rest,
                      LocalInv, Aims
  <2> QED BY <1>1, <1>2, <2>2 DEF vars, ListStep
<1>3. CASE Destroy \/ DestroyNode
  <2>1. q' = q /\ data' = data
    BY <1>3 DEF Destroy, DestroyNode
  <2> QED BY <1>1, <1>3, <2>1, DestroyStep DEF ListStep
<1>4. ASSUME NEW t \in Thread, Step(t) PROVE IInv' /\ ListStep /\ Kept
  <2>1. ASSUME NEW x \in Item \cup {NULL}, NEW o \in {"enqueue", "dequeue", "find"},
               o = "enqueue" => x \in Item, Lock(t, o, x)
        PROVE  IInv' /\ ListStep /\ Kept
    <3>1. q' = q /\ data' = data
      BY <2>1 DEF Lock
    <3> QED BY <1>1, <2>1, <3>1, LockStep DEF ListStep
  <2>2. CASE NewNode(t)
    <3>1. IInv'
      BY <2>2, NewNodeStep
    <3>2. PICK n \in Node \ allocated :
            /\ data' = [data EXCEPT ![n] = local[t].item]
            /\ q' = [q EXCEPT !.prev[n] = NULL, !.next[n] = NULL]
      BY <2>2 DEF NewNode
    <3>3. allocated = Listed
      BY <2>2, Alone DEF NewNode
    <3>4. q'.size = q.size /\ W' = W
      BY <2>2, NewNodeStep
    <3>5. Kept
      BY <3>2, <3>3, TheList DEF IInv, Types
    <3> QED BY <3>1, <3>4, <3>5 DEF ListStep
  <2>3. CASE Add(t)
    <3>1. /\ IInv' /\ data' = data
          /\ W' = Extended(W, q.size, local[t].node) /\ q'.size = q.size + 1
          /\ local[t].node \in Node \ Listed /\ data[local[t].node] \in Item
      BY <2>3, AddStep DEF Add
    <3> QED BY <3>1 DEF ListStep
  <2>4. CASE Remove(t)
    <3>1. data' = data
      BY <2>4 DEF Remove
    <3> QED BY <2>4, <3>1, RemoveStep DEF ListStep
  <2>5. CASE DequeueHead(t) \/ Find(t) \/ Unlock(t)
    <3>1. q' = q /\ data' = data
      BY <2>5 DEF DequeueHead, Find, Unlock
    <3>2. IInv'
      BY <2>5, DequeueHeadStep, FindStep, UnlockStep
    <3> QED BY <1>1, <3>1, <3>2 DEF ListStep
  <2> QED BY <1>4, <2>1, <2>2, <2>3, <2>4, <2>5 DEF Step
<1> QED BY <1>2, <1>3, <1>4 DEF Next

\* The invariant holds always.
LEMMA SpecIInv == Spec => []IInv
BY InitIInv, StepIInv, PTL DEF Spec

\* Every variable keeps its type; in particular the size never passes the number
\* of nodes, nor falls below zero.
THEOREM SpecTypeOK == Spec => []TypeOK
<1>1. IInv => TypeOK
  <2> SUFFICES ASSUME IInv PROVE TypeOK
    OBVIOUS
  <2>1. q \in QType /\ q.size <= Cardinality(Node) /\ Cardinality(Node) \in Nat
    BY SizeBound, FS_CardinalityType, QueueAssumption DEF IInv, ListInv
  <2>2. q \in [head : Pointer, tail : Pointer, size : 0 .. Cardinality(Node),
               next : [Node -> Pointer], prev : [Node -> Pointer]]
    BY <2>1 DEF QType
  <2> QED BY <2>2 DEF IInv, Types, LocalType, TypeOK
<1> QED BY <1>1, SpecIInv, PTL

\* Between any two steps the links describe one list, both ways.
THEOREM SpecWellFormed == Spec => []WellFormed
<1>1. IInv => WellFormed
  <2> SUFFICES ASSUME IInv PROVE WellFormed
    OBVIOUS
  <2>1. /\ q.size \in Nat /\ NULL \notin Node /\ IsList(q, W)
        /\ \A i \in 1 .. q.size : W[i] \in Node
    BY TheList, QueueAssumption DEF IInv, ListInv
  <2>2. (q.size = 0 <=> q.head = NULL) /\ (q.size = 0 <=> q.tail = NULL)
    BY <2>1 DEF IsList
  <2>3. ASSUME NEW i \in 1 .. q.size
        PROVE  /\ W[i] # NULL
               /\ \A j \in 1 .. i - 1 : W[i] # W[j]
               /\ q.prev[W[i]] = IF i = 1 THEN NULL ELSE W[i - 1]
    BY <2>1 DEF IsList
  <2>4. q.size > 0 => W[q.size] = q.tail /\ q.next[q.tail] = NULL
    BY <2>1 DEF IsList
  <2> QED BY <2>2, <2>3, <2>4 DEF WellFormed, W
<1> QED BY <1>1, SpecIInv, PTL

\* No listed node is ever freed, none that left the list stays allocated, and
\* ts_queue_destroy frees each of them once.
THEOREM SpecNodesAccounted == Spec => []NodesAccounted
<1>1. IInv => NodesAccounted
  <2> SUFFICES ASSUME IInv PROVE NodesAccounted
    OBVIOUS
  <2>1. ASSUME phase = "destroying", cursor # NULL PROVE cursor \in allocated
    <3>1. PICK k \in 1 .. q.size : cursor = W[k] /\ allocated = Rest(k)
      BY <2>1 DEF IInv, MemoryInv
    <3>2. k \in k .. q.size
      BY TheList
    <3> QED BY <3>1, <3>2 DEF Rest
  <2> QED BY <2>1 DEF IInv, MemoryInv, NodesAccounted
<1> QED BY <1>1, SpecIInv, PTL

\* Two sequences with the same length and the same elements.
LEMMA SameSeq ==
  ASSUME NEW S, NEW a \in Seq(S), NEW b \in Seq(S), Len(a) = Len(b),
         \A i \in 1 .. Len(a) : a[i] = b[i]
  PROVE  a = b
BY SeqEqual

\* The list w of n nodes carries items, in data d; and c is the sequence of them.
Carries(n, w, d) == n \in Nat /\ \A i \in 1 .. n : d[w[i]] \in Item

ReadOff(c, n, w, d) ==
  /\ c \in Seq(Item) /\ Len(c) = n
  /\ \A i \in 1 .. n : c[i] = d[w[i]]

\* The items of a list, as a sequence.
LEMMA ItemsOf ==
  ASSUME NEW n, NEW w, NEW d, Carries(n, w, d),
         NEW c, c = [i \in 1 .. n |-> d[w[i]]]
  PROVE  ReadOff(c, n, w, d)
<1> USE DEF Carries, ReadOff
<1> DEFINE f(i) == d[w[i]]
<1>1. c = [i \in 1 .. n |-> f(i)] /\ \A i \in 1 .. n : f(i) \in Item
  OBVIOUS
<1> HIDE DEF f
<1>2. c \in Seq(Item) /\ Len(c) = n /\ \A i \in 1 .. n : c[i] = f(i)
  BY <1>1
<1> QED BY <1>2 DEF f

\* The queue with its locks, its links and its memory implements the queue that
\* Matchmaking is built on: whatever the threads do, the items in the list change
\* only by one more at the end, the front taken, or a found item dropped.
THEOREM SpecFifo == Spec => FifoSpec
<1>1. Init => F!Init
  <2> SUFFICES ASSUME Init PROVE Contents = << >>
    BY DEF F!Init
  <2>1. q.size = 0
    BY DEF Init
  <2> QED BY <2>1 DEF Contents
<1>2. ASSUME IInv, [Next]_vars PROVE [F!Next]_Contents
  <2>1. /\ IInv' /\ ListStep
        /\ \A i \in 1 .. q.size : data'[W[i]] = data[W[i]]
    BY <1>2, StepIInv
  <2>2. /\ Contents \in Seq(Item) /\ Len(Contents) = q.size /\ q.size \in Nat
        /\ \A i \in 1 .. q.size : Contents[i] = data[W[i]]
    <3>1. Carries(q.size, W, data)
      BY <1>2, TheList DEF IInv, DataInv, Carries
    <3>2. Contents = [i \in 1 .. q.size |-> data[W[i]]]
      BY DEF Contents, W
    <3> HIDE DEF Contents, W
    <3>3. ReadOff(Contents, q.size, W, data)
      BY <3>1, <3>2, ItemsOf
    <3> QED BY <3>1, <3>3 DEF ReadOff, Carries
  <2>3. /\ Contents' \in Seq(Item) /\ Len(Contents') = q'.size
        /\ \A i \in 1 .. q'.size : Contents'[i] = data'[W'[i]]
    <3>1. Carries(q'.size, W', data')
      BY <2>1 DEF IInv, DataInv, ListInv, QType, Carries
    <3>2. Contents' = [i \in 1 .. q'.size |-> data'[W'[i]]]
      BY DEF Contents, W
    <3>3. ReadOff(Contents', q'.size, W', data')
      BY <3>1, <3>2, ItemsOf
    <3> QED BY <3>3 DEF ReadOff
  <2> DEFINE a == Contents
             b == Contents'
  <2>4. CASE q'.size = q.size /\ W' = W
    <3>1. a = b
      <4> HIDE DEF a, b
      <4>1. \A i \in 1 .. Len(a) : a[i] = b[i]
        BY <2>1, <2>2, <2>3, <2>4 DEF a, b
      <4> QED BY <4>1, <2>2, <2>3, <2>4, SameSeq DEF a, b
    <3> QED BY <3>1
  <2>5. ASSUME NEW n \in Node \ Listed,
               q'.size = q.size + 1, W' = Extended(W, q.size, n),
               data[n] \in Item, data' = data
        PROVE  F!Enqueue(data[n])
    <3>1. \A i \in 1 .. q.size + 1 : b[i] = IF i <= q.size THEN a[i] ELSE data[n]
      <4>1. \A i \in 1 .. q.size + 1 : W'[i] = IF i <= q.size THEN W[i] ELSE n
        BY <2>5 DEF Extended
      <4> QED BY <4>1, <2>1, <2>2, <2>3, <2>5
    <3>2. /\ Append(a, data[n]) \in Seq(Item) /\ Len(Append(a, data[n])) = q.size + 1
          /\ \A i \in 1 .. q.size + 1 :
               Append(a, data[n])[i] = IF i <= q.size THEN a[i] ELSE data[n]
      <4> HIDE DEF a
      <4>1. a \in Seq(Item) /\ Len(a) = q.size
        BY <2>2 DEF a
      <4> QED BY <4>1, <2>2, <2>5, AppendProperties
    <3> HIDE DEF a, b
    <3>3. b = Append(a, data[n])
      <4>1. b \in Seq(Item) /\ Len(b) = q.size + 1
        BY <2>3, <2>5 DEF b
      <4> QED BY <4>1, <3>1, <3>2, SameSeq
    <3> QED BY <3>3 DEF F!Enqueue, a, b
  <2>6. ASSUME NEW i \in 1 .. q.size,
               W' = Without(W, q.size, i), q'.size = q.size - 1,
               \A j \in 1 .. i - 1 : data[W[j]] # data[W[i]],
               data' = data
        PROVE  F!DropFirst(a[i])
    <3>1. \A j \in 1 .. q.size - 1 : b[j] = IF j < i THEN a[j] ELSE a[j + 1]
      <4>1. \A j \in 1 .. q.size - 1 : W'[j] = IF j < i THEN W[j] ELSE W[j + 1]
        BY <2>6 DEF Without
      <4>2. \A j \in 1 .. q.size - 1 : b[j] = data[W'[j]]
        BY <2>3, <2>6
      <4>3. \A j \in 1 .. q.size : a[j] = data[W[j]]
        BY <2>2
      <4> HIDE DEF a, b
      <4> TAKE j \in 1 .. q.size - 1
      <4>4. j \in 1 .. q.size /\ j + 1 \in 1 .. q.size
        BY <2>2
      <4>5. b[j] = data[IF j < i THEN W[j] ELSE W[j + 1]]
        BY <4>1, <4>2
      <4>6. a[j] = data[W[j]] /\ a[j + 1] = data[W[j + 1]]
        BY <4>3, <4>4
      <4> QED BY <4>5, <4>6
    <3>2. \A j \in 1 .. i - 1 : a[j] # a[i]
      BY <2>2, <2>6
    <3> HIDE DEF a, b
    <3>3. a \in Seq(Item) /\ Len(a) = q.size /\ b \in Seq(Item) /\ Len(b) = q.size - 1
      BY <2>2, <2>3, <2>6 DEF a, b
    <3>4. /\ CutAt(a, i) \in Seq(Item) /\ Len(CutAt(a, i)) = q.size - 1
          /\ \A j \in 1 .. q.size - 1 : CutAt(a, i)[j] = IF j < i THEN a[j] ELSE a[j + 1]
      BY <3>3, CutAtProperties
    <3>5. b = CutAt(a, i)
      BY <3>1, <3>3, <3>4, SameSeq
    <3>6. b = F!RemoveAt(a, i)
      BY <3>5 DEF CutAt, F!RemoveAt
    <3>7. F!RemoveAt(Contents, i) = F!RemoveAt(a, i) /\ Len(a) = q.size
      BY <3>3 DEF a
    <3> QED BY <3>2, <3>6, <3>3 DEF F!DropFirst, a, b
  <2>7. ASSUME NEW i \in 1 .. q.size PROVE a[i] \in Item
    BY <2>2, <2>7, <1>2 DEF IInv, DataInv
  <2> HIDE DEF a
  <2> QED BY <2>1, <2>4, <2>5, <2>6, <2>7 DEF ListStep, F!Next
<1> QED BY <1>1, <1>2, SpecIInv, PTL DEF Spec, FifoSpec, F!Spec
=============================================================================
