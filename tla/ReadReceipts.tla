---------------------------- MODULE ReadReceipts ----------------------------
(***************************************************************************)
(* How messages become "read" (chat.dart): the page of a conversation      *)
(* shows the OTHER user's box, chats/<other>/<me>, and whenever it builds  *)
(* its list, calls markAllAsRead(), which marks what it finds in MY box,   *)
(* chats/<me>/<other>.  A message reaches the sender's box first and the   *)
(* receiver's a round trip later.                                          *)
(*                                                                         *)
(* Two users and their one conversation.  What a killed sender leaves      *)
(* undone is the matter of Chat, whose names differ from those used here:  *)
(* a module can extend both.                                               *)
(***************************************************************************)
EXTENDS Naturals, FiniteSets

CONSTANTS
  Pair,         \* the two of them
  Messages,
  sender,       \* the sender of each message
  Runs          \* bound: the calls of markAllAsRead each can have under way

ASSUME FromAssumption == sender \in [Messages -> Pair]
ASSUME PairAssumption == \A u \in Pair : \E v \in Pair : Pair = {u, v} /\ u # v

Calls == {c \in Pair \X UNION {Runs[u] : u \in Pair} : c[2] \in Runs[c[1]]}

VARIABLES
  sent,         \* which copies of a message there are
  read,         \* the messages whose copy for the receiver has read = true
  open,         \* who has the page open
  asked,        \* ... and waits for getMyInfo
  news,         \* ... and has not been shown the last changes of the box
  getting,      \* the calls of markAllAsRead that wait for the messages
  left,         \* the messages each call has found and not marked yet
  seen,         \* history: the messages that were shown to the receiver
  late,         \* history: those shown before the receiver's copy was there ...
  missed,       \* history: those that a call did not find or mark as it failed ...
                \* ... and that no call has found since
  begun,        \* history: the messages there when the receiver's box was read
  hurried       \* history: who left before the page and its calls were done

calls == <<getting, left, begun>>
pages == <<open, asked, news, seen>>
receiptsVars == <<sent, read, pages, calls, late, missed, hurried>>

Other(u) == CHOOSE v \in Pair : v # u
receiver(m) == Other(sender[m])

ReceiptsTypeOK ==
  /\ sent \in [Messages -> {"no", "own", "both", "cut"}]
  /\ read \subseteq Messages /\ seen \subseteq Messages /\ begun \subseteq Messages
  /\ late \subseteq Messages /\ missed \subseteq Messages
  /\ open \subseteq Pair /\ asked \subseteq open /\ news \subseteq open
  /\ getting \subseteq Calls
  /\ left \in [Calls -> SUBSET Messages]
  /\ hurried \subseteq Pair

ReceiptsInit ==
  /\ sent = [m \in Messages |-> "no"]
  /\ read = {} /\ seen = {} /\ begun = {}
  /\ late = {} /\ missed = {}
  /\ open = {} /\ asked = {} /\ news = {}
  /\ getting = {} /\ left = [c \in Calls |-> {}]
  /\ hurried = {}

-----------------------------------------------------------------------------
(* The receiver's copies.                                                  *)
There == {m \in Messages : sent[m] = "both"}
BoxOf(u) == {m \in There : receiver(m) = u}

Tell(u) == news' = IF u \in open THEN news \union {u} ELSE news

(* markAllAsRead is called, in a call that is free (bound: there is one).  *)
Mark(u) ==
  \E r \in Runs[u] :
    /\ <<u, r>> \notin getting /\ left[<<u, r>>] = {}
    /\ getting' = getting \union {<<u, r>>}
    /\ UNCHANGED left

(* What a call still has to find, or to mark.                              *)
Owed(c) == IF c \in getting THEN BoxOf(c[1]) ELSE left[c]

Calling(u) == \E r \in Runs[u] : <<u, r>> \in getting

-----------------------------------------------------------------------------
(* mutant: the receiver's copy is added first                              *)
AddOwnSecond(m) ==
  /\ sent[m] = "no" /\ sender[m] \in open
  /\ sent' = [sent EXCEPT ![m] = "both"]
  /\ Tell(sender[m])
  /\ UNCHANGED <<read, open, asked, seen, calls, late, missed, hurried>>

(* sendMessage: the copy in the sender's box, which the receiver's page    *)
(* shows ...                                                               *)
AddOwnCopy(m) ==
  /\ sent[m] = "no" /\ sender[m] \in open
  /\ sent' = [sent EXCEPT ![m] = "own"]
  /\ Tell(receiver(m))
  /\ UNCHANGED <<read, open, asked, seen, calls, late, missed, hurried>>

(* ... and, when that is acknowledged, the one in the receiver's box.      *)
AddPeerCopy(m) ==
  /\ sent[m] = "own"
  /\ sent' = [sent EXCEPT ![m] = "both"]
  /\ late' = late \union (seen \cap {m})
  /\ Tell(sender[m])
  /\ UNCHANGED <<read, open, asked, seen, calls, missed, hurried>>

(* The page opens: its list is built once without data.                    *)
Open(u) ==
  /\ u \notin open
  /\ open' = open \union {u} /\ asked' = asked \union {u} /\ news' = news \union {u}
  /\ Mark(u)
  /\ UNCHANGED <<sent, read, seen, begun, late, missed, hurried>>

(* getMyInfo builds the page again, which listens to the box anew.         *)
GetMyInfo(u) ==
  /\ u \in asked
  /\ asked' = asked \ {u} /\ news' = news \union {u}
  /\ Mark(u)
  /\ UNCHANGED <<sent, read, open, seen, begun, late, missed, hurried>>

(* ... if it gets the answer.                                              *)
GetMyInfoFails(u) ==
  /\ u \in asked
  /\ asked' = asked \ {u}
  /\ UNCHANGED <<sent, read, open, news, seen, calls, late, missed, hurried>>

(* mutant: only the opening of the page marks                              *)
BuildOnly(u) ==
  /\ u \in news
  /\ news' = news \ {u}
  /\ seen' = seen \union {m \in Messages : receiver(m) = u /\ sent[m] # "no"}
  /\ UNCHANGED <<sent, read, open, asked, calls, late, missed, hurried>>

(* The list is built with what the other's box holds by now.               *)
Build(u) ==
  /\ u \in news
  /\ news' = news \ {u}
  /\ seen' = seen \union {m \in Messages : receiver(m) = u /\ sent[m] # "no"}
  /\ Mark(u)
  /\ UNCHANGED <<sent, read, open, asked, begun, late, missed, hurried>>

-----------------------------------------------------------------------------
(* markAllAsRead                                                           *)

(* mutant: the box that the page shows is the one that is read             *)
GetShown(u, r) ==
  /\ <<u, r>> \in getting /\ getting' = getting \ {<<u, r>>}
  /\ LET found == {m \in Messages : receiver(m) = u /\ sent[m] # "no"} IN
       /\ left' = [left EXCEPT ![<<u, r>>] = found]
       /\ begun' = begun \union found
       /\ late' = late \ found /\ missed' = missed \ found
  /\ UNCHANGED <<sent, read, pages, hurried>>

(* The messages in the own box are fetched ...                             *)
Get(u, r) ==
  /\ <<u, r>> \in getting /\ getting' = getting \ {<<u, r>>}
  /\ left' = [left EXCEPT ![<<u, r>>] = BoxOf(u)]
  /\ begun' = begun \union BoxOf(u)
  /\ late' = late \ BoxOf(u) /\ missed' = missed \ BoxOf(u)
  /\ UNCHANGED <<sent, read, pages, hurried>>

(* ... and marked one by one.  The sender's page shows the change.         *)
Update(u, r, m) ==
  /\ m \in left[<<u, r>>]
  /\ read' = read \union {m}
  /\ left' = [left EXCEPT ![<<u, r>>] = @ \ {m}]
  /\ IF m \in read THEN UNCHANGED news ELSE Tell(sender[m])
  /\ UNCHANGED <<sent, open, asked, seen, getting, begun, late, missed, hurried>>

(* The get() or an update() fails, or the user has logged out and there is *)
(* no currentUser: the whole loop ends in the catch.                       *)
GiveUp(u, r) ==
  /\ <<u, r>> \in getting \/ left[<<u, r>>] # {}
  /\ getting' = getting \ {<<u, r>>}
  /\ left' = [left EXCEPT ![<<u, r>>] = {}]
  /\ missed' = missed \union Owed(<<u, r>>)
  /\ UNCHANGED <<sent, read, pages, begun, late, hurried>>

-----------------------------------------------------------------------------
(* The page is left: the calls under way go on.                            *)
Leave(u) ==
  /\ u \in open
  /\ open' = open \ {u} /\ asked' = asked \ {u} /\ news' = news \ {u}
  /\ hurried' = IF u \in news \/ Calling(u)
                  THEN hurried \union {u} ELSE hurried
  /\ UNCHANGED <<sent, read, seen, calls, late, missed>>

(* The app is killed: of an update that was issued, or the second copy of  *)
(* a message, the next start may still send what survives.                 *)
KillApp(u) ==
  /\ u \in open \/ Calling(u) \/ \E r \in Runs[u] : left[<<u, r>>] # {}
  /\ open' = open \ {u} /\ asked' = asked \ {u} /\ news' = news \ {u}
  /\ getting' = {c \in getting : c[1] # u}
  /\ \E survives \in SUBSET Messages :
       /\ \A r \in Runs[u] : Cardinality(left[<<u, r>>] \cap survives) <= 1
       /\ left' = [c \in Calls |->
                     IF c[1] = u THEN left[c] \cap survives ELSE left[c]]
       /\ sent' = [m \in Messages |->
                     IF sender[m] = u /\ sent[m] = "own" /\ m \notin survives
                       THEN "cut" ELSE sent[m]]
  /\ missed' = missed \union UNION {Owed(<<u, r>>) : r \in Runs[u]}
  /\ hurried' = hurried \union {u}
  /\ UNCHANGED <<read, seen, begun, late>>

-----------------------------------------------------------------------------
ReceiptsNext ==
  \/ \E m \in Messages : AddOwnCopy(m) \/ AddPeerCopy(m)
  \/ \E u \in Pair :
       \/ Open(u) \/ GetMyInfo(u) \/ GetMyInfoFails(u) \/ Build(u) \/ Leave(u) \/ KillApp(u)
       \/ \E r \in Runs[u] :
            Get(u, r) \/ GiveUp(u, r) \/ \E m \in Messages : Update(u, r, m)

(* Requests are answered or fail, so every call goes on until it ends.     *)
ReceiptsFairness ==
  \A u \in Pair : \A r \in Runs[u] :
    WF_receiptsVars(Get(u, r) \/ GiveUp(u, r) \/ \E m \in Messages : Update(u, r, m))

ReceiptsSpec == ReceiptsInit /\ [][ReceiptsNext]_receiptsVars /\ ReceiptsFairness

-----------------------------------------------------------------------------
(* Properties                                                              *)

(* The flags do what Inbox promises: a message is only marked once it is   *)
(* there, no step takes a mark back, and a message that a call finds gets  *)
(* marked, unless that very call fails or is killed - whoever else is      *)
(* sending, reading or leaving.                                            *)
Boxes == INSTANCE Inbox WITH there <- There, reading <- begun, excused <- missed
MeetsInbox == Boxes!Spec

(* A message that is marked as read was shown to its receiver, or is about *)
(* to be, unless the receiver left before page and calls were done.        *)
ReadWasShown ==
  \A m \in read : m \in seen \/ receiver(m) \in news \/ receiver(m) \in hurried

Idle(u) ==
  u \notin news \union asked /\ ~Calling(u) /\ \A r \in Runs[u] : left[<<u, r>>] = {}

(* On an open page that waits for nothing, what is shown is read, but for  *)
(* what no call has found since it was shown before it reached the         *)
(* receiver's box (chat.dart:167), or since a call for it failed (152): of *)
(* those the page hears nothing more.                                      *)
ShownIsRead ==
  \A m \in seen \cap There :
    receiver(m) \in open /\ Idle(receiver(m)) => m \in read \union late \union missed
=============================================================================
