---------------------------- MODULE MCMatchmaking ----------------------------
(***************************************************************************)
(* Matchmaking for TLC.  Three connections over two or three descriptors   *)
(* let a client leave from the front or from behind, its descriptor be     *)
(* used again and the process run out of them; four make two rooms.        *)
(***************************************************************************)
EXTENDS Matchmaking, TLC

ClientSymmetry == Permutations(Client)
=============================================================================
