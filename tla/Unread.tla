------------------------------- MODULE Unread -------------------------------
(***************************************************************************)
(* How many conversations the home page of a user says are unread          *)
(* (home.dart, getNumbersLastMessage): those whose last message is.  Which *)
(* one is the last is told by the text of the time that its writer's phone *)
(* has put in it (chat.dart, sendMessage): a day and an hour from 1 to 24, *)
(* so that what is written in the first hour of a day comes last in it.    *)
(*                                                                         *)
(* Only the user's own boxes count.  What happens in them is what Chat and *)
(* ReadReceipts leave of a message: it is written, comes into the box at   *)
(* some later time and is marked at another, by any device of the user.    *)
(***************************************************************************)
EXTENDS Naturals, FiniteSets

CONSTANTS
  Peers,        \* whom the user talks with
  Me,           \* the user
  Messages,
  from,         \* who writes each of them: Me, or who is in `peer'
  peer,         \* the conversation it belongs to
  Zone,         \* the hours that each one's clock is ahead
  Hours,        \* of a day: 24 in the code
  PerHour,      \* bound: the instants of an hour
  MaxTime,      \* bound: the instants there are
  NotYet

ASSUME UnreadAssumption ==
  /\ from \in [Messages -> Peers \union {Me}] /\ peer \in [Messages -> Peers] /\ Me \notin Peers
  /\ \A m \in Messages : from[m] \in {Me, peer[m]}
  /\ Zone \in [Peers \union {Me} -> Nat] /\ NotYet \notin Nat
  /\ Hours \in Nat \ {0} /\ PerHour \in Nat \ {0} /\ MaxTime \in Nat

VARIABLES
  now,          \* the time
  at,           \* when each message was written
  box,          \* the messages in the user's boxes
  read,         \* those that are marked
  chats,        \* the conversations in the user's document
  home,         \* the home page: away, asking, counting, counted
  todo,         \* the conversations it has not looked at
  counted,      \* those it has found unread: their number is shown
  due           \* history: what was there to be found when it got the list

boxes == <<at, box, read, chats>>
page == <<home, todo, counted, due>>
unreadVars == <<now, boxes, page>>

UnreadTypeOK ==
  /\ now \in 0..MaxTime
  /\ at \in [Messages -> 0..MaxTime \union {NotYet}]
  /\ box \subseteq Messages /\ read \subseteq box
  /\ chats \subseteq Peers
  /\ home \in {"away", "asking", "counting", "counted"}
  /\ todo \subseteq Peers /\ counted \subseteq Peers
  /\ due \subseteq box

UnreadInit ==
  /\ now = 0
  /\ at = [m \in Messages |-> NotYet]
  /\ box = {} /\ read = {} /\ chats = {}
  /\ home = "away" /\ todo = {} /\ counted = {} /\ due = {}

-----------------------------------------------------------------------------
(* The time in a message, 'yyyy-MM-dd kk:mm:ss', ordered as its text is    *)

Local(m) == at[m] + Zone[from[m]] * PerHour
Day(m) == Local(m) \div (Hours * PerHour)
Hour(m) == (Local(m) \div PerHour) % Hours

(* mutant: hours from 1 to 12, as `hh' prints them                         *)
HalfHour(m) == IF Hour(m) % (Hours \div 2) = 0 THEN Hours \div 2 ELSE Hour(m) % (Hours \div 2)

(* `kk'                                                                    *)
TextHour(m) == IF Hour(m) = 0 THEN Hours ELSE Hour(m)

Timestamp(m) == (Day(m) * (Hours + 1) + TextHour(m)) * PerHour + (Local(m) % PerHour)

Box(c) == {m \in box : peer[m] = c}

(* orderBy('timestamp', descending: true).limit(1): of equal ones it may   *)
(* be any.                                                                 *)
Last(c) == {m \in Box(c) : \A o \in Box(c) : Timestamp(o) <= Timestamp(m)}

-----------------------------------------------------------------------------
Tick ==
  /\ now < MaxTime
  /\ now' = now + 1
  /\ UNCHANGED <<boxes, page>>

(* sendMessage: what the user writes is in the own box at once, and read.  *)
Write(m) ==
  /\ at[m] = NotYet
  /\ at' = [at EXCEPT ![m] = now]
  /\ IF from[m] = Me
       THEN box' = box \union {m} /\ read' = read \union {m}
       ELSE UNCHANGED <<box, read>>
  /\ UNCHANGED <<now, chats, page>>

(* What the other has written arrives, unread.                             *)
Arrive(m) ==
  /\ at[m] # NotYet /\ m \notin box
  /\ box' = box \union {m}
  /\ UNCHANGED <<now, at, read, chats, page>>

(* addConversation, once there is a message                                *)
List(c) ==
  /\ Box(c) # {} /\ c \notin chats
  /\ chats' = chats \union {c}
  /\ UNCHANGED <<now, at, box, read, page>>

(* Another client writes back a list that was fetched before.              *)
Lose(c) ==
  /\ c \in chats
  /\ chats' = chats \ {c}
  /\ UNCHANGED <<now, at, box, read, page>>

(* One step of markAllAsRead                                               *)
Mark(m) ==
  /\ m \in box \ read
  /\ read' = read \union {m}
  /\ UNCHANGED <<now, at, box, chats, page>>

-----------------------------------------------------------------------------
(* initState: the user's document is asked for.                            *)
Open ==
  /\ home = "away"
  /\ home' = "asking"
  /\ UNCHANGED <<now, boxes, todo, counted, due>>

GetChats ==
  /\ home = "asking"
  /\ home' = IF chats = {} THEN "counted" ELSE "counting"
  /\ todo' = chats
  /\ due' = {m \in box \ read : peer[m] \in chats}
  /\ UNCHANGED <<now, boxes, counted>>

(* One round of the loop                                                   *)
GetLast(c) ==
  /\ c \in todo
  /\ \E m \in Last(c) : counted' = IF m \in read THEN counted ELSE counted \union {c}
  /\ todo' = todo \ {c}
  /\ home' = IF todo' = {} THEN "counted" ELSE home
  /\ UNCHANGED <<now, boxes, due>>

(* The page is left, or a request fails: what is asked for then comes to   *)
(* nothing.                                                                *)
Leave ==
  /\ home # "away"
  /\ home' = "away" /\ todo' = {} /\ counted' = {} /\ due' = {}
  /\ UNCHANGED <<now, boxes>>

UnreadNext ==
  \/ Tick \/ Open \/ GetChats \/ Leave
  \/ \E m \in Messages : Write(m) \/ Arrive(m) \/ Mark(m)
  \/ \E c \in Peers : List(c) \/ Lose(c) \/ GetLast(c)

UnreadSpec == UnreadInit /\ [][UnreadNext]_unreadVars

-----------------------------------------------------------------------------
(* Properties                                                              *)

(* A read message may hide one that is older, or was written by a clock    *)
(* of another zone; and when it was written in the first hour of a day, it *)
(* hides the rest of that day.                                             *)
MayHide(r, m) ==
  \/ at[r] >= at[m]
  \/ Zone[from[r]] # Zone[from[m]]
  \/ Hour(r) = 0 /\ Day(r) = Day(m)

(* A listed conversation with a message that was unread when the home page *)
(* got the list, and still is, is counted, however messages come, are read *)
(* and answered meanwhile; unless a read one hides it.                     *)
UnreadIsCounted ==
  home = "counted" =>
    \A m \in due \ read :
      peer[m] \in counted \/ \E r \in read : peer[r] = peer[m] /\ MayHide(r, m)
=============================================================================
