------------------------------ MODULE MCProfile ------------------------------
(* Profile on a small instance.                                            *)
EXTENDS Profile, TLC

Symmetry == Permutations(People) \union Permutations(Names) \union Permutations(Saves)
=============================================================================
