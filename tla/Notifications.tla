---------------------------- MODULE Notifications ----------------------------
(***************************************************************************)
(* Which notifications a phone gets (main.dart, settings.dart): the topics *)
(* it is subscribed to, "general" and those named after users, the         *)
(* preference that the switch of the settings sets, and the users who log  *)
(* in and out.  Whoever comments, posts, follows or writes sends to the    *)
(* topic of a user (notification.dart).                                    *)
(*                                                                         *)
(* Nothing here is awaited: the preference is changed in memory and stored *)
(* later; subscriptions wait in a queue of the phone that is sent in       *)
(* order.  A phone shares none of this with another: one is enough.        *)
(***************************************************************************)
EXTENDS Naturals, Sequences, FiniteSets

CONSTANTS
  Users,        \* who uses the phone, all with verified addresses
  General,      \* the topic of everybody
  Nobody,       \* nobody is logged in
  MaxQueue      \* bound: the length of the queue when something is added

ASSUME DistinctAssumption == General \notin Users /\ Nobody \notin Users
ASSUME MaxQueueAssumption == MaxQueue \in Nat

VARIABLES
  user,         \* who is logged in
  inApp,        \* the pages of a user are shown
  notification, \* the preference, as the app has it
  stored,       \* ... and as the phone has stored it
  topics,       \* what the phone is subscribed to
  queue,        \* the subscriptions and their ends that are not sent yet
  switchedBy,   \* history: who was logged in when the switch was last used
  since         \* history: what has happened since: "start", "lost"

phone == <<notification, stored, topics, queue>>
history == <<switchedBy, since>>
vars == <<user, inApp, phone, history>>

Topics == Users \union {General}

TypeOK ==
  /\ user \in Users \union {Nobody}
  /\ inApp \in BOOLEAN
  /\ notification \in BOOLEAN /\ stored \in BOOLEAN
  /\ topics \subseteq Topics
  /\ queue \in Seq([topic : Topics, on : BOOLEAN])
  /\ switchedBy \in Users \union {Nobody}
  /\ since \subseteq {"start", "lost"}

Sub(t) == [topic |-> t, on |-> TRUE]
Unsub(t) == [topic |-> t, on |-> FALSE]

(* The app is started for the first time.                                  *)
Init ==
  /\ user = Nobody /\ inApp = FALSE
  /\ notification = TRUE /\ stored = TRUE
  /\ topics = {} /\ queue = <<Sub(General)>>
  /\ switchedBy = Nobody /\ since = {"start"}

-----------------------------------------------------------------------------
(* initUserNotification of u, if anybody                                   *)
Subscription(u, preference) ==
  IF u # Nobody /\ preference THEN <<Sub(u)>> ELSE <<>>

(* mutant: the subscription is left to the next start of the app           *)
LogInOnly(u) ==
  /\ user = Nobody /\ ~inApp
  /\ user' = u /\ inApp' = TRUE
  /\ UNCHANGED <<phone, history>>

(* A user logs in, and main() hears of it.                                 *)
LogIn(u) ==
  /\ user = Nobody /\ ~inApp
  /\ Len(queue) <= MaxQueue
  /\ user' = u /\ inApp' = TRUE
  /\ queue' = queue \o Subscription(u, notification)
  /\ UNCHANGED <<notification, stored, topics, history>>

(* logout: the subscriptions stay ...                                      *)
LogOut ==
  /\ user # Nobody
  /\ user' = Nobody
  /\ UNCHANGED <<inApp, phone, history>>

(* ... and main() hears of it and shows the page of who is not logged in.  *)
ShowUnLogged ==
  /\ user = Nobody /\ inApp
  /\ inApp' = FALSE
  /\ UNCHANGED <<user, phone, history>>

(* mutant: only the topic of everybody is left                             *)
SwitchGeneral ==
  /\ inApp /\ Len(queue) <= MaxQueue
  /\ notification' = ~notification
  /\ queue' = queue \o
       IF user = Nobody THEN <<>>
       ELSE IF notification' THEN <<Sub(user), Sub(General)>>
       ELSE <<Unsub(General)>>
  /\ switchedBy' = user /\ since' = {}
  /\ UNCHANGED <<user, inApp, stored, topics>>

(* setValues: the preference is changed first; when the user has just      *)
(* logged out, currentUser! throws then.                                   *)
Switch ==
  /\ inApp /\ Len(queue) <= MaxQueue
  /\ notification' = ~notification
  /\ queue' = queue \o
       IF user = Nobody THEN <<>>
       ELSE IF notification' THEN <<Sub(user), Sub(General)>>
       ELSE <<Unsub(user), Unsub(General)>>
  /\ switchedBy' = user /\ since' = {}
  /\ UNCHANGED <<user, inApp, stored, topics>>

(* The preference reaches the phone's storage.                             *)
Store ==
  /\ stored # notification
  /\ stored' = notification
  /\ UNCHANGED <<user, inApp, notification, topics, queue, history>>

(* The server carries out the oldest of what the phone has queued.         *)
Send ==
  /\ queue # <<>>
  /\ queue' = Tail(queue)
  /\ topics' = IF Head(queue).on THEN topics \union {Head(queue).topic}
               ELSE topics \ {Head(queue).topic}
  /\ UNCHANGED <<user, inApp, notification, stored, history>>

(* The app ends, and with it what had not reached the phone's queue or its *)
(* storage, and starts again: initNotification, initSharedPreferences, and *)
(* initUserNotification of who is still logged in.                         *)
Restart ==
  /\ Len(queue) <= MaxQueue
  /\ \E k \in 0..Len(queue) :
       /\ queue' = SubSeq(queue, 1, k) \o <<Sub(General)>> \o Subscription(user, stored)
       /\ since' = since \union {"start"} \union
                     IF k < Len(queue) \/ stored # notification THEN {"lost"} ELSE {}
  /\ notification' = stored
  /\ inApp' = (user # Nobody)
  /\ UNCHANGED <<user, stored, topics, switchedBy>>

Next ==
  \/ \E u \in Users : LogIn(u)
  \/ LogOut \/ ShowUnLogged \/ Switch \/ Store \/ Send \/ Restart

Spec == Init /\ [][Next]_vars

-----------------------------------------------------------------------------
(* Properties                                                              *)

(* Whoever is logged in with the switch on gets the notifications that are *)
(* sent to them, as soon as the queue is sent, whoever used the phone      *)
(* before; a start that lost something makes up for it.                    *)
OnIsOn ==
  user # Nobody /\ notification /\ queue = <<>> => user \in topics

(* With the switch off, and the queue sent, who is logged in still gets    *)
(* their notifications only if it was not they who used it last, or the    *)
(* app ended before that was carried out; and those for everybody only if  *)
(* the app was started since, or it was used after a logout.               *)
OffIsOff ==
  user # Nobody /\ ~notification /\ queue = <<>> =>
    /\ user \in topics => switchedBy # user \/ "lost" \in since
    /\ General \in topics => "start" \in since \/ switchedBy = Nobody
=============================================================================
