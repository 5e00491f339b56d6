------------------------------ MODULE MCLikes ------------------------------
(* Likes on small instances, one of its parts at a time: one user meets    *)
(* the comment on two screens, another on one; a user meets the post on    *)
(* two screens; and two dialogs change its tags.                           *)
EXTENDS Likes, TLC

CONSTANTS d1, d2, u1, u2, w1, w2, w3

MCMaxSaves == (d1 :> 2) @@ (d2 :> 1)
MCUser == (w1 :> u1) @@ (w2 :> u1) @@ (w3 :> u2)

MCInit == Init /\ Post!Init /\ Comment!Init
TagsUntouched == there /\ \A d \in Dialogs : dialog[d] = "closed"
PostUntouched == live /\ \A s \in Screens : screen[s] = "closed"
CommentUntouched == \A w \in Widgets : view[w] = "closed"
MCNext ==
  \/ CommentUntouched /\ PostUntouched /\ Next /\ UNCHANGED <<postVars, commentVars>>
  \/ CommentUntouched /\ TagsUntouched /\ Post!Next /\ UNCHANGED <<vars, commentVars>>
  \/ PostUntouched /\ TagsUntouched /\ Comment!Next /\ UNCHANGED <<vars, postVars>>
MCSpec == MCInit /\ [][MCNext]_<<vars, postVars, commentVars>>
=============================================================================
