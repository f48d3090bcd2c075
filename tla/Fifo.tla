-------------------------------- MODULE Fifo --------------------------------
(***************************************************************************)
(* What ts_queue promises its callers: a queue of items, added at the end, *)
(* taken from the front, from which one item may also be dropped wherever  *)
(* it stands.  TsQueue implements it; Matchmaking is built from its steps. *)
(***************************************************************************)
EXTENDS Sequences, SequencesExt

CONSTANT Item

VARIABLE queue

Init == queue = << >>

Enqueue(x) == queue' = Append(queue, x)

Dequeue(n) ==
  /\ Len(queue) >= n
  /\ queue' = SubSeq(queue, n + 1, Len(queue))

\* Drop x from its first place.
DropFirst(x) ==
  \E i \in 1 .. Len(queue) :
    /\ queue[i] = x
    /\ \A j \in 1 .. i - 1 : queue[j] # x
    /\ queue' = RemoveAt(queue, i)

Next ==
  \/ Dequeue(1)
  \/ \E x \in Item : Enqueue(x) \/ DropFirst(x)

Spec == Init /\ [][Next]_queue
=============================================================================
