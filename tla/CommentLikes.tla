---------------------------- MODULE CommentLikes ----------------------------
(***************************************************************************)
(* Liking one comment (postPage.dart, _CommentWidgetState).                *)
(*                                                                         *)
(* A comment's document has the set of users who like it and a score.      *)
(* Each widget that shows it flips a flag of its own at every tap, and     *)
(* sends the server one update, of both fields, that it does not wait for. *)
(* The updates of one widget are applied in the order they were sent.      *)
(***************************************************************************)
EXTENDS Integers, Sequences, FiniteSets

CONSTANTS
  Widgets,      \* the CommentWidgets, of any number of screens and devices
  user,         \* the user in whose app each of them is
  MaxPending    \* bound: updates of a widget that are not applied yet

(* What is assumed of them.                                               *)
WidgetsAssumption == IsFiniteSet(Widgets) /\ MaxPending \in Nat \ {0}

VARIABLES
  likes,        \* field of the document: who likes the comment
  score,        \* field of the document
  view,         \* life of each widget: closed, loading, loaded, left
  isLiked,      \* the flag of each widget: its heart is red
  pending,      \* the updates it sent: TRUE to like, FALSE to unlike
  told,         \* history: the last of them that was applied
  overtaken     \* history: another widget of the user wrote while it was open

document == <<likes, score>>
vars == <<document, view, isLiked, pending, told, overtaken>>

Readers == {user[w] : w \in Widgets}

TypeOK ==
  /\ likes \subseteq Readers
  /\ score \in Int
  /\ view \in [Widgets -> {"closed", "loading", "loaded", "left"}]
  /\ isLiked \in [Widgets -> BOOLEAN]
  /\ pending \in [Widgets -> Seq(BOOLEAN)]
  /\ told \in [Widgets -> {"nothing", "like", "unlike"}]
  /\ overtaken \in [Widgets -> BOOLEAN]

(* A new comment has no likes; the first increment creates the score at 0. *)
Init ==
  /\ likes = {}
  /\ score = 0
  /\ view = [w \in Widgets |-> "closed"]
  /\ isLiked = [w \in Widgets |-> FALSE]
  /\ pending = [w \in Widgets |-> <<>>]
  /\ told = [w \in Widgets |-> "nothing"]
  /\ overtaken = [w \in Widgets |-> FALSE]

-----------------------------------------------------------------------------
Open(w) ==
  /\ view[w] = "closed"
  /\ view' = [view EXCEPT ![w] = "loading"]
  /\ overtaken' = [overtaken EXCEPT ![w] = FALSE]
  /\ UNCHANGED <<document, isLiked, pending, told>>

(* getComment: the answer sets a local variable `isLiked' that hides the   *)
(* field of that name, which keeps its value.                              *)
Load(w) ==
  /\ view[w] = "loading"
  /\ view' = [view EXCEPT ![w] = "loaded"]
  /\ UNCHANGED <<document, isLiked, pending, told, overtaken>>

(* mutant: the flag is left to the answer of the server                    *)
TapKeepsFlag(w) ==
  /\ view[w] \in {"loading", "loaded"}
  /\ Len(pending[w]) < MaxPending
  /\ pending' = [pending EXCEPT ![w] = Append(@, ~isLiked[w])]
  /\ UNCHANGED <<document, view, isLiked, told, overtaken>>

(* mutant: the flag is flipped before the branch is chosen                 *)
TapFlipsFirst(w) ==
  /\ view[w] \in {"loading", "loaded"}
  /\ Len(pending[w]) < MaxPending
  /\ pending' = [pending EXCEPT ![w] = Append(@, isLiked[w])]
  /\ isLiked' = [isLiked EXCEPT ![w] = ~@]
  /\ UNCHANGED <<document, view, told, overtaken>>

(* likeComment: the flag decides what is sent, and is flipped.             *)
Tap(w) ==
  /\ view[w] \in {"loading", "loaded"}
  /\ Len(pending[w]) < MaxPending
  /\ pending' = [pending EXCEPT ![w] = Append(@, ~isLiked[w])]
  /\ isLiked' = [isLiked EXCEPT ![w] = ~@]
  /\ UNCHANGED <<document, view, told, overtaken>>

(* The server applies the oldest update: arrayUnion or arrayRemove on the  *)
(* set, increment of the score, whatever the set was.                      *)
Apply(w) ==
  /\ pending[w] # <<>>
  /\ LET like == Head(pending[w])
     IN  /\ likes' = IF like THEN likes \union {user[w]} ELSE likes \ {user[w]}
         /\ score' = IF like THEN score + 1 ELSE score - 1
         /\ told' = [told EXCEPT ![w] = IF like THEN "like" ELSE "unlike"]
  /\ pending' = [pending EXCEPT ![w] = Tail(@)]
  /\ overtaken' = [v \in Widgets |-> overtaken[v] \/ (v # w /\ user[v] = user[w])]
  /\ UNCHANGED <<view, isLiked>>

(* The widget goes away, what it sent is still applied ...                 *)
Leave(w) ==
  /\ view[w] \in {"loading", "loaded"}
  /\ view' = [view EXCEPT ![w] = "left"]
  /\ UNCHANGED <<document, isLiked, pending, told, overtaken>>

(* ... but for what the app still had to send when it was killed.          *)
Kill(w) ==
  /\ view[w] # "closed" /\ pending[w] # <<>>
  /\ view' = [view EXCEPT ![w] = "left"]
  /\ pending' = [pending EXCEPT ![w] = <<>>]
  /\ UNCHANGED <<document, isLiked, told, overtaken>>

Next ==
  \E w \in Widgets :
    Open(w) \/ Load(w) \/ Tap(w) \/ Apply(w) \/ Leave(w) \/ Kill(w)

Spec == Init /\ [][Next]_vars

-----------------------------------------------------------------------------
(* Properties                                                              *)

(* Each widget counts at most once in the score, however often and fast it *)
(* is tapped: the score is never negative, and never above the number of   *)
(* screens the comment was liked on.                                       *)
ScoreCountsScreens == score = Cardinality({w \in Widgets : told[w] = "like"})

(* A widget that waits for nothing, and between whose opening and now no    *)
(* other screen of its user reached the server.                            *)
Settled(w) == view[w] = "loaded" /\ pending[w] = <<>> /\ ~overtaken[w]

(* However fast it was tapped, what the heart of a settled widget shows    *)
(* after a tap is what the server has.                                     *)
LastTapWins ==
  \A w \in Widgets :
    Settled(w) /\ told[w] # "nothing" =>
      (isLiked[w] <=> user[w] \in likes)
=============================================================================
