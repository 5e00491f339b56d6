---------------------------- MODULE MCPostThread ----------------------------
(* PostThread on a small instance: see the .cfg files for its size.  The   *)
(* liveness property rules symmetry out.                                   *)
EXTENDS PostThread
=============================================================================
