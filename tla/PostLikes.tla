------------------------------ MODULE PostLikes ------------------------------
(***************************************************************************)
(* Liking one post (widget.dart, AudioPlayerWidgetState.likePost).         *)
(*                                                                         *)
(* Unlike the heart of a comment (CommentLikes), this one goes by the list *)
(* of likes that the widget has fetched, and that list changes only after  *)
(* the server has answered: taps in between take the same branch again.    *)
(* It is a list: the same user can come to be in it several times.         *)
(*                                                                         *)
(* The widgets of other users change neither the own entries in that list  *)
(* nor the own entry on the server: one user, on several screens, is       *)
(* enough.                                                                 *)
(***************************************************************************)
EXTENDS Naturals, Sequences

CONSTANTS
  Screens,      \* the AudioPlayerWidgets that show the post to the user
  MaxTaps       \* bound: taps whose update is not answered yet

(* What is assumed of them.                                               *)
MaxTapsAssumption == MaxTaps \in Nat \ {0}

VARIABLES
  live,         \* the post is there
  liked,        \* the user is in its field `likes'
  screen,       \* life of each widget: closed, loading, loaded, left
  entries,      \* how often the user is in its list `likes'
  sent,         \* the updates under way: TRUE to like, FALSE to unlike
  hasty,        \* history: tapped before the post or an answer was there
  passed        \* history: another screen reached the server meanwhile

post == <<live, liked>>
vars == <<post, screen, entries, sent, hasty, passed>>

TypeOK ==
  /\ live \in BOOLEAN /\ liked \in BOOLEAN
  /\ screen \in [Screens -> {"closed", "loading", "loaded", "left"}]
  /\ entries \in [Screens -> Nat]
  /\ sent \in [Screens -> Seq(BOOLEAN)]
  /\ hasty \subseteq Screens /\ passed \subseteq Screens

Init ==
  /\ live = TRUE /\ liked = FALSE
  /\ screen = [s \in Screens |-> "closed"]
  /\ entries = [s \in Screens |-> 0]
  /\ sent = [s \in Screens |-> <<>>]
  /\ hasty = {} /\ passed = {}

-----------------------------------------------------------------------------
(* The widget is built, with an empty list, and asks for the post.         *)
Open(s) ==
  /\ screen[s] = "closed"
  /\ screen' = [screen EXCEPT ![s] = "loading"]
  /\ passed' = passed \ {s}
  /\ UNCHANGED <<post, entries, sent, hasty>>

(* getPostInfo replaces the list by the server's, on top of which the      *)
(* screen sees the updates it has under way.  Without a post it throws.    *)
Load(s) ==
  /\ screen[s] = "loading"
  /\ screen' = [screen EXCEPT ![s] = "loaded"]
  /\ LET sees == IF sent[s] = <<>> THEN liked ELSE sent[s][Len(sent[s])]
     IN  entries' = [entries EXCEPT ![s] = IF ~live THEN @ ELSE IF sees THEN 1 ELSE 0]
  /\ UNCHANGED <<post, sent, hasty, passed>>

(* likePost: the branch is chosen by the list.                             *)
Tap(s) ==
  /\ screen[s] \in {"loading", "loaded"} /\ Len(sent[s]) < MaxTaps
  /\ sent' = [sent EXCEPT ![s] = Append(@, entries[s] = 0)]
  /\ hasty' = IF screen[s] = "loading" \/ sent[s] # <<>>
                THEN hasty \union {s} ELSE hasty
  /\ UNCHANGED <<post, screen, entries, passed>>

(* mutant: only a like changes the list of the screen                      *)
AnswerNeverRemoves(s) ==
  /\ sent[s] # <<>>
  /\ sent' = [sent EXCEPT ![s] = Tail(@)]
  /\ IF live
       THEN /\ liked' = Head(sent[s])
            /\ entries' = [entries EXCEPT ![s] = IF Head(sent[s]) THEN @ + 1 ELSE @]
            /\ passed' = passed \union (Screens \ {s})
       ELSE UNCHANGED <<liked, entries, passed>>
  /\ UNCHANGED <<live, screen, hasty>>

(* The server applies the oldest update, and its answer adds one entry or  *)
(* removes one.  The update of a missing post is refused.                  *)
Answer(s) ==
  /\ sent[s] # <<>>
  /\ sent' = [sent EXCEPT ![s] = Tail(@)]
  /\ IF live
       THEN /\ liked' = Head(sent[s])
            /\ entries' = [entries EXCEPT ![s] =
                 IF Head(sent[s]) THEN @ + 1 ELSE IF @ = 0 THEN 0 ELSE @ - 1]
            /\ passed' = passed \union (Screens \ {s})
       ELSE UNCHANGED <<liked, entries, passed>>
  /\ UNCHANGED <<live, screen, hasty>>

(* The widget goes away, but what it sent is applied ...                   *)
Leave(s) ==
  /\ screen[s] \in {"loading", "loaded"}
  /\ screen' = [screen EXCEPT ![s] = "left"]
  /\ UNCHANGED <<post, entries, sent, hasty, passed>>

(* ... if the app is not killed before it is.                              *)
Kill(s) ==
  /\ screen[s] # "closed" /\ sent[s] # <<>>
  /\ screen' = [screen EXCEPT ![s] = "left"]
  /\ sent' = [sent EXCEPT ![s] = <<>>]
  /\ UNCHANGED <<post, entries, hasty, passed>>

(* The owner deletes the post.                                             *)
Delete ==
  /\ live
  /\ live' = FALSE
  /\ UNCHANGED <<liked, screen, entries, sent, hasty, passed>>

Next ==
  \/ \E s \in Screens : Open(s) \/ Load(s) \/ Tap(s) \/ Answer(s) \/ Leave(s) \/ Kill(s)
  \/ Delete

Spec == Init /\ [][Next]_vars

-----------------------------------------------------------------------------
(* Properties                                                              *)

Settled(s) == screen[s] = "loaded" /\ sent[s] = <<>> /\ s \notin passed

(* On a screen that waits for nothing, and that no other screen of the     *)
(* user came before, a white heart is true however fast it was tapped; a   *)
(* red one is, too, unless it was tapped before the last tap was answered, *)
(* or before the post was there.                                           *)
HeartTells ==
  \A s \in Screens : live /\ Settled(s) =>
    /\ liked => entries[s] > 0
    /\ entries[s] > 0 => liked \/ s \in hasty
=============================================================================
