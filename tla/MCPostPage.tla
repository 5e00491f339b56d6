----------------------------- MODULE MCPostPage -----------------------------
(* PostPage on a small instance: two pages, of a post with up to two       *)
(* comments or of one that has a comment of its own.                       *)
EXTENDS PostPage
=============================================================================
