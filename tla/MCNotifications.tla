--------------------------- MODULE MCNotifications ---------------------------
(* What the app tells its user unasked, on small instances: notifications, *)
(* with two people who use the phone, and the number of unread             *)
(* conversations, with two that both sides write in.  They share no state, *)
(* so that one of them moves at a time.                                    *)
(*                                                                         *)
(* The user and the first peer live in one time zone, the second peer an   *)
(* hour behind.                                                            *)
EXTENDS Notifications, Unread, TLC

CONSTANTS here, abroad, m1, m2, m3, m4

MCfrom == (m1 :> here) @@ (m2 :> Me) @@ (m3 :> abroad) @@ (m4 :> Me)
MCpeer == (m1 :> here) @@ (m2 :> here) @@ (m3 :> abroad) @@ (m4 :> abroad)
MCZone == (Me :> 1) @@ (here :> 1) @@ (abroad :> 0)

MCInit == Init /\ UnreadInit
MCNext ==
  \/ UnreadInit /\ Next /\ UNCHANGED unreadVars
  \/ Init /\ UnreadNext /\ UNCHANGED vars
MCSpec == MCInit /\ [][MCNext]_<<vars, unreadVars>>
=============================================================================
