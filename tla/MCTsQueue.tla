------------------------------ MODULE MCTsQueue ------------------------------
(***************************************************************************)
(* TsQueue for TLC: three threads, so that two can wait for the one inside;*)
(* four nodes, so that a node can be removed from the front, the middle    *)
(* and the end of a list; and two items, so that a search can miss, hit the*)
(* front or hit a later node.                                              *)
(***************************************************************************)
EXTENDS TsQueue, TLC

Symmetry == Permutations(Thread) \cup Permutations(Node) \cup Permutations(Item)
=============================================================================
