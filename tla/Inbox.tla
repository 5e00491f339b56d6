-------------------------------- MODULE Inbox --------------------------------
(***************************************************************************)
(* What the "read" flags of a conversation promise (chat.dart): the        *)
(* receiver's copy of a message appears once, unread, and is read from     *)
(* some moment on; and reading the conversation gets every message read    *)
(* that it finds, unless that attempt fails.                               *)
(***************************************************************************)
CONSTANTS
  Messages

VARIABLES
  there,        \* the messages in the receiver's box
  read,         \* those among them that are read
  reading,      \* those a reader has been asked to read
  excused       \* those whose last reader failed, or was killed

inbox == <<there, read, reading, excused>>

Init == there = {} /\ read = {} /\ reading = {} /\ excused = {}

Arrive ==
  /\ there \subseteq there' /\ there' \subseteq Messages
  /\ UNCHANGED <<read, reading, excused>>

(* Somebody sets about reading what is there: no excuse for it any more.   *)
Begin ==
  /\ reading \subseteq reading' /\ reading' \subseteq there
  /\ excused' \subseteq excused
  /\ UNCHANGED <<there, read>>

Read ==
  /\ read \subseteq read' /\ read' \subseteq there
  /\ UNCHANGED <<there, reading, excused>>

Excuse ==
  /\ excused \subseteq excused' /\ excused' \subseteq Messages
  /\ UNCHANGED <<there, read, reading>>

Next == Arrive \/ Begin \/ Read \/ Excuse

(* What is being read gets read, or its reader fails.                      *)
Finishes == \A m \in Messages : m \in reading ~> m \in read \union excused

Spec == Init /\ [][Next]_inbox /\ Finishes
=============================================================================
