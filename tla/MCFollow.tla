------------------------------ MODULE MCFollow ------------------------------
(* Follow on a small instance: two pages of one user show the same profile *)
(* (the search and a post both lead to it).  A write concerns one follower *)
(* and one profile, so pages of other pairs would run beside these without *)
(* meeting them.                                                           *)
EXTENDS Follow, TLC

CONSTANTS u1, u2

MCMe == [p \in Pages |-> u1]
MCThem == [p \in Pages |-> u2]
Symmetry == Permutations(Pages)
=============================================================================
