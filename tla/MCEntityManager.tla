--------------------------- MODULE MCEntityManager ---------------------------
(***************************************************************************)
(* EntityManager for TLC: two components, up to three entities (enough for *)
(* the moved, the removed and an untouched entity to differ, and for both  *)
(* arrays to grow from 0 to 1, 2 and 4 cells) and two values, which no     *)
(* definition tells apart.                                                 *)
(***************************************************************************)
EXTENDS EntityManager, TLC

ValueSymmetry == Permutations(Value)
=============================================================================
