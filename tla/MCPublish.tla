------------------------------ MODULE MCPublish ------------------------------
(* Publish on a small instance.                                            *)
EXTENDS Publish, TLC

Symmetry ==
  Permutations(Users) \union Permutations(Posts) \union Permutations(Names)
    \union Permutations(Drafts) \union Permutations(Devices)
=============================================================================
