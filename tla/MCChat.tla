------------------------------- MODULE MCChat -------------------------------
(* Chat on a small instance: one user writes twice on one page, and gets   *)
(* a message from a third, so that lists are written by their owner, by    *)
(* another user, and twice by the same client.                             *)
EXTENDS Chat, TLC

CONSTANTS u1, u2, u3, s1, s2, s3

MCFrom == [s \in Sends |-> IF s = s3 THEN u3 ELSE u1]
MCTo == [s \in Sends |-> IF s = s3 THEN u1 ELSE u2]
=============================================================================
