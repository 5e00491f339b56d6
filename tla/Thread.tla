------------------------------- MODULE Thread -------------------------------
(***************************************************************************)
(* What commenting on a post and deleting it (PostThread) promise to the   *)
(* page that shows its comments (PostPage): as long as the post has its    *)
(* audio, every comment it lists is there.                                 *)
(***************************************************************************)
CONSTANTS
  Comments

VARIABLES
  live,         \* the post's document is there
  playable,     \* ... and its audio
  listed,       \* its field `comments'
  stored        \* the comments whose documents are there

thread == <<live, playable, listed, stored>>

ThreadInit == live = TRUE /\ playable = TRUE /\ listed = {} /\ stored = {}

(* A comment is stored, whatever became of the post meanwhile.             *)
Store(c) ==
  /\ stored' = stored \union {c}
  /\ UNCHANGED <<live, playable, listed>>

(* mutant: a comment is listed before it is stored                         *)
ListAny(l) ==
  /\ live
  /\ listed' = l
  /\ UNCHANGED <<live, playable, stored>>

(* The list is replaced by another, that need not have all of its comments. *)
List(l) ==
  /\ live
  /\ playable => l \subseteq stored
  /\ listed' = l
  /\ UNCHANGED <<live, playable, stored>>

(* The deletion of the post begins ...                                     *)
LoseAudio ==
  /\ playable' = FALSE
  /\ UNCHANGED <<live, listed, stored>>

(* mutant: the comments go first                                           *)
RemoveAny(c) ==
  /\ stored' = stored \ {c}
  /\ UNCHANGED <<live, playable, listed>>

Remove(c) ==
  /\ ~playable
  /\ stored' = stored \ {c}
  /\ UNCHANGED <<live, playable, listed>>

(* ... and ends, or skips what comes before.                               *)
Drop ==
  /\ live' = FALSE
  /\ UNCHANGED <<playable, listed, stored>>

ThreadNext ==
  \/ \E c \in Comments : Store(c) \/ Remove(c)
  \/ \E l \in SUBSET Comments : List(l)
  \/ LoseAudio
  \/ Drop

ThreadSpec == ThreadInit /\ [][ThreadNext]_thread
=============================================================================
