-------------------------------- MODULE Chat --------------------------------
(***************************************************************************)
(* Sending chat messages (chat.dart, _MessageFieldState).                  *)
(*                                                                         *)
(* A message has two copies, one in the box of each user, and each user's  *)
(* document lists the users with whom there is a conversation.  A send     *)
(* adds the sender's copy, then the receiver's, then brings the two lists  *)
(* up to date (addConversation), each by reading the whole list and        *)
(* writing it back.  The writes of one client reach the server in the      *)
(* order they were issued, and a client that reads a document sees its own *)
(* pending writes on top of what the server has; the writes to the lists   *)
(* are not awaited.                                                        *)
(*                                                                         *)
(* A client is one user's app while that user stays logged in.  The code   *)
(* reads auth.currentUser anew after its awaits (285, 294-296), so that a  *)
(* logout ends what is under way as a kill does; that another user of the  *)
(* same phone logs in meanwhile is left out.                               *)
(***************************************************************************)
EXTENDS Naturals, Sequences

CONSTANTS
  Users,
  Sends,        \* the taps on the send button
  from,         \* who taps, for each send ...
  to,           \* ... and in the chat with whom
  Texts,        \* what can be typed
  Empty         \* the empty text

ASSUME SendAssumption ==
  /\ from \in [Sends -> Users] /\ to \in [Sends -> Users]
  /\ \A s \in Sends : from[s] # to[s]
ASSUME TextAssumption == Empty \notin Texts

VARIABLES
  chats,        \* the field of that name in the document of each user
  ownCopy,      \* the message is in the sender's box
  peerCopy,     \* the message is in the receiver's box
  field,        \* the text field of each user's chat page with each other
  phase,        \* progress of each send
  ownText,      \* the text in the sender's copy
  peerText,     \* the text in the receiver's copy
  ownList,      \* the list addConversation fetched, extended, for the sender
  peerList,     \* likewise for the receiver
  outbox,       \* the writes each client has issued that are not yet applied
  edited        \* history: sends whose field was changed before its second reading

server == <<chats, ownCopy, peerCopy>>
texts == <<field, ownText, peerText>>
lists == <<ownList, peerList>>
vars == <<server, texts, lists, phase, outbox, edited>>

Phases == {"idle", "own", "peer", "getOwn", "getPeer", "done", "killed"}
Kinds == {"own", "peer", "ownList", "peerList"}
Pages == {<<from[s], to[s]>> : s \in Sends}
Page(s) == <<from[s], to[s]>>

TypeOK ==
  /\ chats \in [Users -> SUBSET Users]
  /\ ownCopy \in [Sends -> BOOLEAN]
  /\ peerCopy \in [Sends -> BOOLEAN]
  /\ field \in [Pages -> Texts \union {Empty}]
  /\ phase \in [Sends -> Phases]
  /\ ownText \in [Sends -> Texts \union {Empty}]
  /\ peerText \in [Sends -> Texts \union {Empty}]
  /\ ownList \in [Sends -> SUBSET Users]
  /\ peerList \in [Sends -> SUBSET Users]
  /\ outbox \in [Users -> Seq(Kinds \X Sends)]
  /\ edited \subseteq Sends

Init ==
  /\ chats = [u \in Users |-> {}]
  /\ ownCopy = [s \in Sends |-> FALSE]
  /\ peerCopy = [s \in Sends |-> FALSE]
  /\ field = [p \in Pages |-> Empty]
  /\ phase = [s \in Sends |-> "idle"]
  /\ ownText = [s \in Sends |-> Empty]
  /\ peerText = [s \in Sends |-> Empty]
  /\ ownList = [s \in Sends |-> {}]
  /\ peerList = [s \in Sends |-> {}]
  /\ outbox = [u \in Users |-> <<>>]
  /\ edited = {}

Issue(u, writes) == outbox' = [outbox EXCEPT ![u] = @ \o writes]

(* The oldest write of the client of a send is one of that send.           *)
Applies(s, kind) ==
  outbox[from[s]] # <<>> /\ Head(outbox[from[s]]) = <<kind, s>>

(* ... it leaves the outbox, and its callback issues `writes'.             *)
Applied(s, writes) ==
  outbox' = [outbox EXCEPT ![from[s]] = Tail(@) \o writes]

-----------------------------------------------------------------------------
(* sendMessage                                                             *)

(* The field of a page changes, perhaps under a send that goes on to read  *)
(* it.                                                                     *)
SetField(p, t) ==
  /\ field' = [field EXCEPT ![p] = t]
  /\ edited' = IF t = field[p] THEN edited
               ELSE edited \union {s \in Sends : Page(s) = p /\ phase[s] = "own"}

Type(p, t) ==
  /\ SetField(p, t)
  /\ UNCHANGED <<server, ownText, peerText, lists, phase, outbox>>

(* mutant: the field is cleared by the tap                                 *)
TapClears(s) ==
  /\ phase[s] = "idle"
  /\ field[Page(s)] # Empty
  /\ phase' = [phase EXCEPT ![s] = "own"]
  /\ ownText' = [ownText EXCEPT ![s] = field[Page(s)]]
  /\ SetField(Page(s), Empty)
  /\ Issue(from[s], <<<<"own", s>>>>)
  /\ UNCHANGED <<server, peerText, lists>>

(* sendMessage refuses an empty field.                                     *)
Tap(s) ==
  /\ phase[s] = "idle"
  /\ field[Page(s)] # Empty
  /\ phase' = [phase EXCEPT ![s] = "own"]
  /\ ownText' = [ownText EXCEPT ![s] = field[Page(s)]]
  /\ Issue(from[s], <<<<"own", s>>>>)
  /\ UNCHANGED <<server, field, peerText, lists, edited>>

(* mutant: the second add is only issued when the field was edited         *)
AddOwnUnlessSame(s) ==
  /\ Applies(s, "own")
  /\ ownCopy' = [ownCopy EXCEPT ![s] = TRUE]
  /\ phase' = [phase EXCEPT ![s] = "peer"]
  /\ peerText' = [peerText EXCEPT ![s] = field[Page(s)]]
  /\ Applied(s, IF field[Page(s)] = ownText[s] THEN <<>> ELSE <<<<"peer", s>>>>)
  /\ UNCHANGED <<chats, peerCopy, field, ownText, lists, edited>>

(* The sender's copy is there.  The callback reads the text field again,   *)
(* as it is by now, for the receiver's copy.                               *)
AddOwn(s) ==
  /\ Applies(s, "own")
  /\ ownCopy' = [ownCopy EXCEPT ![s] = TRUE]
  /\ IF phase[s] = "own"
       THEN /\ phase' = [phase EXCEPT ![s] = "peer"]
            /\ peerText' = [peerText EXCEPT ![s] = field[Page(s)]]
            /\ edited' = IF field[Page(s)] = ownText[s] THEN edited \ {s} ELSE edited
            /\ Applied(s, <<<<"peer", s>>>>)
       ELSE /\ Applied(s, <<>>)
            /\ UNCHANGED <<phase, peerText, edited>>
  /\ UNCHANGED <<chats, peerCopy, field, ownText, lists>>

(* The receiver's copy is there: addConversation begins, the field clears. *)
AddPeer(s) ==
  /\ Applies(s, "peer")
  /\ peerCopy' = [peerCopy EXCEPT ![s] = TRUE]
  /\ Applied(s, <<>>)
  /\ IF phase[s] = "peer"
       THEN /\ phase' = [phase EXCEPT ![s] = "getOwn"]
            /\ SetField(Page(s), Empty)
       ELSE UNCHANGED <<phase, field, edited>>
  /\ UNCHANGED <<chats, ownCopy, ownText, peerText, lists>>

-----------------------------------------------------------------------------
(* addConversation                                                         *)

(* The writes in the outbox of `u' to the list of `v'.                     *)
Pending(u, v) ==
  {i \in DOMAIN outbox[u] :
     LET s == outbox[u][i][2]
     IN  \/ outbox[u][i][1] = "ownList" /\ from[s] = v
         \/ outbox[u][i][1] = "peerList" /\ to[s] = v}

Written(w) == IF w[1] = "ownList" THEN ownList[w[2]] ELSE peerList[w[2]]

(* What `u' reads in the document of `v'.                                  *)
Reads(u, v, list) ==
  \/ Pending(u, v) = {} /\ list = chats[v]
  \/ \E i \in Pending(u, v) :
       /\ \A j \in Pending(u, v) : j <= i
       /\ list = Written(outbox[u][i])

(* mutant: the fetched list is written back without the receiver           *)
GetOwnForgets(s) ==
  /\ phase[s] = "getOwn"
  /\ phase' = [phase EXCEPT ![s] = "getPeer"]
  /\ \E list \in SUBSET Users :
       /\ Reads(from[s], from[s], list)
       /\ ownList' = [ownList EXCEPT ![s] = list]
       /\ Issue(from[s], <<<<"ownList", s>>>>)
  /\ UNCHANGED <<server, texts, peerList, edited>>

(* mutant: the two ids of the chat are confused                            *)
GetOwnAddsSelf(s) ==
  /\ phase[s] = "getOwn"
  /\ phase' = [phase EXCEPT ![s] = "getPeer"]
  /\ \E list \in SUBSET Users :
       /\ Reads(from[s], from[s], list)
       /\ ownList' = [ownList EXCEPT ![s] = list \union {from[s]}]
       /\ Issue(from[s], <<<<"ownList", s>>>>)
  /\ UNCHANGED <<server, texts, peerList, edited>>

(* The sender's list: written back if the receiver is new in it.           *)
GetOwn(s) ==
  /\ phase[s] = "getOwn"
  /\ phase' = [phase EXCEPT ![s] = "getPeer"]
  /\ \E list \in SUBSET Users :
       /\ Reads(from[s], from[s], list)
       /\ ownList' = [ownList EXCEPT ![s] = list \union {to[s]}]
       /\ IF to[s] \in list THEN UNCHANGED outbox
                            ELSE Issue(from[s], <<<<"ownList", s>>>>)
  /\ UNCHANGED <<server, texts, peerList, edited>>

(* The receiver's list, likewise.                                          *)
GetPeer(s) ==
  /\ phase[s] = "getPeer"
  /\ phase' = [phase EXCEPT ![s] = "done"]
  /\ \E list \in SUBSET Users :
       /\ Reads(from[s], to[s], list)
       /\ peerList' = [peerList EXCEPT ![s] = list \union {from[s]}]
       /\ IF from[s] \in list THEN UNCHANGED outbox
                              ELSE Issue(from[s], <<<<"peerList", s>>>>)
  /\ UNCHANGED <<server, texts, ownList, edited>>

WriteOwnList(s) ==
  /\ Applies(s, "ownList")
  /\ Applied(s, <<>>)
  /\ chats' = [chats EXCEPT ![from[s]] = ownList[s]]
  /\ UNCHANGED <<ownCopy, peerCopy, texts, lists, phase, edited>>

WritePeerList(s) ==
  /\ Applies(s, "peerList")
  /\ Applied(s, <<>>)
  /\ chats' = [chats EXCEPT ![to[s]] = peerList[s]]
  /\ UNCHANGED <<ownCopy, peerCopy, texts, lists, phase, edited>>

(* The sends of a user that a kill of the app cuts short: those that go    *)
(* on, and those that rely on a list which is not yet written.             *)
UnderWay(u) ==
  {s \in Sends :
     /\ from[s] = u
     /\ \/ phase[s] \in {"own", "peer", "getOwn", "getPeer"}
        \/ phase[s] = "done" /\ \E i \in DOMAIN outbox[u] : Page(outbox[u][i][2]) = Page(s)}

(* The app of a user is killed: its callbacks never run.  The writes it    *)
(* had issued are lost in a browser, and sent by the next start elsewhere. *)
Kill(u) ==
  /\ UnderWay(u) # {}
  /\ phase' = [s \in Sends |-> IF s \in UnderWay(u) THEN "killed" ELSE phase[s]]
  /\ outbox' \in {outbox, [outbox EXCEPT ![u] = <<>>]}
  /\ edited' = edited \ {s \in UnderWay(u) : phase[s] = "own"}
  /\ UNCHANGED <<server, texts, lists>>

-----------------------------------------------------------------------------
Apply(s) == AddOwn(s) \/ AddPeer(s) \/ WriteOwnList(s) \/ WritePeerList(s)

Next ==
  \/ \E p \in Pages, t \in Texts \union {Empty} : Type(p, t)
  \/ \E s \in Sends : Tap(s) \/ Apply(s) \/ GetOwn(s) \/ GetPeer(s)
  \/ \E u \in Users : Kill(u)

Spec == Init /\ [][Next]_vars

(* Writes that were issued are applied and documents that are read arrive: *)
(* a send that can go on does.                                             *)
Fairness == \A s \in Sends : WF_vars(Apply(s) \/ GetOwn(s) \/ GetPeer(s))

FairSpec == Spec /\ Fairness

-----------------------------------------------------------------------------
(* Properties                                                              *)

(* A conversation in the list of a user has a message in the box of that   *)
(* user, and one in the box of the other: nobody finds an empty chat.      *)
ListedHasMessages ==
  \A u \in Users : \A v \in chats[u] :
    \E s \in Sends : Page(s) \in {<<u, v>>, <<v, u>>} /\ ownCopy[s] /\ peerCopy[s]

Quiet == \A u \in Users : outbox[u] = <<>>

(* A finished send whose conversation is not in a list lost it to another  *)
(* client's send, which had fetched that list without it.                  *)
LostToAnother(s, u, v) ==
  \E r \in Sends :
    /\ from[r] # from[s]
    /\ \/ from[r] = u /\ ownList[r] # {} /\ v \notin ownList[r]
       \/ to[r] = u /\ peerList[r] # {} /\ v \notin peerList[r]

ListLostOnlyToOthers ==
  Quiet =>
    \A s \in Sends : phase[s] = "done" =>
      /\ to[s] \in chats[from[s]] \/ LostToAnother(s, from[s], to[s])
      /\ from[s] \in chats[to[s]] \/ LostToAnother(s, to[s], from[s])

(* Every message that is sent reaches the receiver, unless the app is      *)
(* killed before.                                                          *)
Delivered ==
  <>[](\A s \in Sends : phase[s] \in {"idle", "killed"} \/ peerCopy[s])

(* Both copies of a message have the same text, unless somebody typed, or  *)
(* an earlier message of the page arrived and cleared the field, in the    *)
(* moment between the tap and the arrival of the first copy.               *)
SameText ==
  \A s \in Sends : peerCopy[s] /\ peerText[s] # ownText[s] => s \in edited
=============================================================================
