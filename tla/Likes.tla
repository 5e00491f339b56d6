-------------------------------- MODULE Likes --------------------------------
(***************************************************************************)
(* What the widgets of a post write on their own: the dialog of its tags   *)
(* (TagsDialog), the heart of the post (PostLikes) and the heart of each   *)
(* of its comments (CommentLikes).  They share no state: the heart of a    *)
(* post goes by the list of its widget, the heart of a comment by a flag.  *)
(***************************************************************************)
EXTENDS TagsDialog

CONSTANTS
  Screens, MaxTaps,             \* of PostLikes
  Widgets, user, MaxPending     \* of CommentLikes

VARIABLES
  live, liked, screen, entries, sent, hasty, passed,
  likes, score, view, isLiked, pending, told, overtaken

postVars == <<live, liked, screen, entries, sent, hasty, passed>>
commentVars == <<likes, score, view, isLiked, pending, told, overtaken>>

Post == INSTANCE PostLikes
Comment == INSTANCE CommentLikes

ASSUME PostAssumption == Post!MaxTapsAssumption
ASSUME CommentAssumption == Comment!WidgetsAssumption

-----------------------------------------------------------------------------
(* PostLikes: a white heart of a post is true, and a red one is unless it  *)
(* was tapped too early.                                                   *)
HeartTells == Post!HeartTells

(* CommentLikes: the score counts the screens that liked last.             *)
ScoreCountsScreens == Comment!ScoreCountsScreens

(* CommentLikes: a settled widget's last tap wins.                         *)
LastTapWins == Comment!LastTapWins
=============================================================================
