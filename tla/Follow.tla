------------------------------- MODULE Follow -------------------------------
(***************************************************************************)
(* Following a user (UserProfilePage, _TopSectionState.follow).            *)
(*                                                                         *)
(* A profile page fetches the followers of the profile once and decides    *)
(* from that copy, which it updates itself, what a tap on its button does. *)
(* A tap is two writes, one to each of the two users; the second is sent   *)
(* when the first is answered.  The button is never disabled, so taps      *)
(* overlap; the writes of one page are answered in the order they were     *)
(* sent, those of two pages in any order.                                  *)
(***************************************************************************)
EXTENDS Integers, Sequences, SequencesExt

CONSTANTS
  Users,
  Pages,        \* the profile pages that can be open at the same time
  me,           \* the user of the app a page is shown in ...
  them,         \* ... and the one it shows: any user, from the search
  MaxPending    \* bound: taps of a page that wait for an answer

ASSUME PageAssumption == me \in [Pages -> Users] /\ them \in [Pages -> Users]
ASSUME MaxPendingAssumption == MaxPending \in Nat \ {0}

VARIABLES
  followers,    \* the field of that name in the document of each user
  followings,   \* likewise
  view,         \* progress of getUserData: closed, loading or loaded
  times,        \* how often `me' occurs in the page's copy of `followers'
  sent,         \* the writes of follow() that wait for an answer
  touched,      \* history: another page wrote this follower since the page opened
  halfway       \* history: the follows cut off between their two writes

server == <<followers, followings>>
vars == <<server, view, times, sent, touched, halfway>>

(* Each tap has one write in flight: its first (to the profile shown) or   *)
(* its second (to the user's own document).                                *)
Writes == {"follow1", "follow2", "unfollow1", "unfollow2"}

TypeOK ==
  /\ followers \in [Users -> SUBSET Users]
  /\ followings \in [Users -> SUBSET Users]
  /\ view \in [Pages -> {"closed", "loading", "loaded"}]
  /\ times \in [Pages -> Nat]
  /\ sent \in [Pages -> Seq(Writes)]
  /\ touched \in [Pages -> BOOLEAN]
  /\ halfway \subseteq Users \X Users

(* Accounts are created with both lists empty.                             *)
Init ==
  /\ followers = [u \in Users |-> {}]
  /\ followings = [u \in Users |-> {}]
  /\ view = [p \in Pages |-> "closed"]
  /\ times = [p \in Pages |-> 0]
  /\ sent = [p \in Pages |-> <<>>]
  /\ touched = [p \in Pages |-> FALSE]
  /\ halfway = {}

-----------------------------------------------------------------------------
(* A profile is opened from the search, a post, a comment or a list of     *)
(* users.                                                                  *)
Open(p) ==
  /\ view[p] = "closed" /\ sent[p] = <<>>
  /\ view' = [view EXCEPT ![p] = "loading"]
  /\ times' = [times EXCEPT ![p] = 0]
  /\ touched' = [touched EXCEPT ![p] = FALSE]
  /\ UNCHANGED <<server, sent, halfway>>

(* getUserData: the fetched followers replace the copy of the page.        *)
Load(p) ==
  /\ view[p] = "loading"
  /\ view' = [view EXCEPT ![p] = "loaded"]
  /\ times' = [times EXCEPT ![p] = IF me[p] \in followers[them[p]] THEN 1 ELSE 0]
  /\ UNCHANGED <<server, sent, touched, halfway>>

(* follow() up to its first await.  Nobody waits for getUserData: until it *)
(* answers the copy is empty.                                              *)
Tap(p) ==
  /\ view[p] # "closed"
  /\ Len(sent[p]) < MaxPending
  /\ sent' = [sent EXCEPT ![p] =
                Append(@, IF times[p] > 0 THEN "unfollow1" ELSE "follow1")]
  /\ UNCHANGED <<server, view, times, touched, halfway>>

(* The pages that show the same profile to the same user are overtaken.    *)
TouchOthers(p) ==
  touched' = [q \in Pages |-> touched[q] \/ (q # p /\ me[q] = me[p] /\ them[q] = them[p])]

(* The answer to the oldest write of a page resumes the tap it belongs to. *)
AnswerFirst(p, write, second) ==
  /\ sent[p] # <<>> /\ Head(sent[p]) = write
  /\ sent' = [sent EXCEPT ![p] = Append(Tail(@), second)]
  /\ TouchOthers(p)
  /\ UNCHANGED <<followings, view, times, halfway>>

AnswerSecond(p, write) ==
  /\ sent[p] # <<>> /\ Head(sent[p]) = write
  /\ sent' = [sent EXCEPT ![p] = Tail(@)]
  /\ UNCHANGED <<followers, view, touched, halfway>>

Follow1(p) ==
  /\ AnswerFirst(p, "follow1", "follow2")
  /\ followers' = [followers EXCEPT ![them[p]] = @ \union {me[p]}]

(* mutant: the second write goes to the document of the profile shown      *)
Follow2OnProfile(p) ==
  /\ AnswerSecond(p, "follow2")
  /\ followings' = [followings EXCEPT ![them[p]] = @ \union {them[p]}]
  /\ times' = [times EXCEPT ![p] = @ + 1]

(* mutant: the copy of the page is not brought up to date                  *)
Follow2DropsCopy(p) ==
  /\ AnswerSecond(p, "follow2")
  /\ followings' = [followings EXCEPT ![me[p]] = @ \union {them[p]}]
  /\ UNCHANGED times

Follow2(p) ==
  /\ AnswerSecond(p, "follow2")
  /\ followings' = [followings EXCEPT ![me[p]] = @ \union {them[p]}]
  /\ times' = [times EXCEPT ![p] = @ + 1]

Unfollow1(p) ==
  /\ AnswerFirst(p, "unfollow1", "unfollow2")
  /\ followers' = [followers EXCEPT ![them[p]] = @ \ {me[p]}]

(* The write that should shrink `followings' names a field `following',    *)
(* which no document has: `followings' stays.  List.remove takes out one   *)
(* occurrence, if there is one.                                            *)
Unfollow2(p) ==
  /\ AnswerSecond(p, "unfollow2")
  /\ times' = [times EXCEPT ![p] = IF @ > 0 THEN @ - 1 ELSE 0]
  /\ UNCHANGED followings

(* The page is left; what it has sent, and will send, goes on.             *)
Close(p) ==
  /\ view[p] # "closed"
  /\ view' = [view EXCEPT ![p] = "closed"]
  /\ UNCHANGED <<server, times, sent, touched, halfway>>

(* The app is killed: the rest of the taps of the page is lost.            *)
Kill(p) ==
  /\ view[p] # "closed" \/ sent[p] # <<>>
  /\ view' = [view EXCEPT ![p] = "closed"]
  /\ sent' = [sent EXCEPT ![p] = <<>>]
  /\ halfway' = IF Contains(sent[p], "follow2")
                  THEN halfway \union {<<me[p], them[p]>>} ELSE halfway
  /\ UNCHANGED <<server, times, touched>>

Answer(p) == Follow1(p) \/ Follow2(p) \/ Unfollow1(p) \/ Unfollow2(p)

Next ==
  \E p \in Pages :
    \/ Open(p) \/ Load(p) \/ Tap(p) \/ Answer(p) \/ Close(p) \/ Kill(p)

Spec == Init /\ [][Next]_vars

-----------------------------------------------------------------------------
(* Properties                                                              *)

(* The two documents agree that a follower follows, but for a follow that  *)
(* is under way or was cut off between its two writes: every follower a    *)
(* profile lists sees that profile in the own feed and followings.         *)
FollowersBacked ==
  \A u, v \in Users :
    u \in followers[v] =>
      \/ v \in followings[u]
      \/ <<u, v>> \in halfway
      \/ \E p \in Pages : me[p] = u /\ them[p] = v /\ Contains(sent[p], "follow2")

(* A page that waits for nothing and was not overtaken by another page of  *)
(* the same user.                                                          *)
Settled(p) == view[p] = "loaded" /\ sent[p] = <<>> /\ ~touched[p]

(* Whatever was tapped, and how fast, the page of a follower offers to     *)
(* unfollow.                                                               *)
FollowerCanUnfollow ==
  \A p \in Pages : Settled(p) /\ me[p] \in followers[them[p]] => times[p] > 0

-----------------------------------------------------------------------------
(* What comments in the code say, and the code does not do                 *)

(* UserProfilePage.dart:74 "If the user is already following, unfollow     *)
(* them": with no tap under way or cut off, the two documents agree.       *)
FollowIsSymmetric ==
  (halfway = {} /\ \A p \in Pages : sent[p] = <<>>) =>
    \A u, v \in Users : u \in followers[v] <=> v \in followings[u]
=============================================================================
