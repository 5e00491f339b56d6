----------------------------- MODULE ChatProofs -----------------------------
(* The invariants of Chat, for any users, sends and texts, and those of    *)
(* ReadReceipts, for any messages between two users and any calls.         *)
EXTENDS Chat, ReadReceipts, TLAPS

Writes == Kinds \X Sends

Holds(q, w) == \E i \in 1..Len(q) : q[i] = w

(* The two have a message in both of their boxes.                          *)
Backed(u, v) ==
  \E s \in Sends : Page(s) \in {<<u, v>>, <<v, u>>} /\ ownCopy[s] /\ peerCopy[s]

(* addConversation only begins when both copies are there, so that every   *)
(* list that travels names conversations with messages alone.              *)
ListsBacked ==
  /\ \A s \in Sends : phase[s] \in {"peer", "getOwn", "getPeer"} => ownCopy[s]
  /\ \A s \in Sends : phase[s] \in {"getOwn", "getPeer"} => peerCopy[s]
  /\ \A u \in Users : \A v \in chats[u] : Backed(u, v)
  /\ \A s \in Sends : \A v \in ownList[s] : Backed(from[s], v)
  /\ \A s \in Sends : \A v \in peerList[s] : Backed(to[s], v)

(* The receiver's copy is there, or waits to be sent.                      *)
PeerIssued(s) == peerCopy[s] \/ Holds(outbox[from[s]], <<"peer", s>>)

(* Until the field is read again it holds what was sent or is noted as     *)
(* edited; from then on the two texts agree or the send stays noted.       *)
TextsAgree ==
  \A s \in Sends :
    /\ phase[s] = "own" => field[Page(s)] = ownText[s] \/ s \in edited
    /\ PeerIssued(s) => /\ phase[s] \notin {"idle", "own"}
                        /\ peerText[s] = ownText[s] \/ s \in edited

-----------------------------------------------------------------------------
(* The writes to one list, in the order in which a client has issued them. *)

On(w, d) ==
  \/ w[1] = "ownList" /\ from[w[2]] = d
  \/ w[1] = "peerList" /\ to[w[2]] = d

(* What addConversation adds to the list that it writes.                   *)
Adds(w) == IF w[1] = "ownList" THEN to[w[2]] ELSE from[w[2]]

OnAt(q, d) == {i \in 1..Len(q) : On(q[i], d)}

(* Some write on `d' after the p-th and up to the j-th adds `v'.           *)
AddedIn(q, d, v, p, j) == \E i \in OnAt(q, d) : p < i /\ i <= j /\ Adds(q[i]) = v

(* Whoever is in a list of the queue, `wr' of a write, is in the list      *)
(* before the queue and in every earlier one of it, unless somebody else   *)
(* overwrote it (`lost') or a write in between adds it.                    *)
Linked(q, d, base, wr, lost) ==
  \A j \in OnAt(q, d) : \A v \in wr[q[j]] :
    /\ v \in base \/ v \in lost \/ AddedIn(q, d, v, 0, j)
    /\ \A p \in OnAt(q, d) :
         p < j => v \in wr[q[p]] \/ v \in lost \/ AddedIn(q, d, v, p, j)

(* What the client reads, and that `v' is in it.                           *)
ReadsIn(q, d, base, wr, list) ==
  \/ OnAt(q, d) = {} /\ list = base
  \/ \E j \in OnAt(q, d) : (\A i \in OnAt(q, d) : i <= j) /\ list = wr[q[j]]

Shown(q, d, base, wr, v) ==
  \/ OnAt(q, d) = {} /\ v \in base
  \/ \E j \in OnAt(q, d) : (\A i \in OnAt(q, d) : i <= j) /\ v \in wr[q[j]]

(* The list that a write writes                                            *)
ListOf(w) ==
  IF w[1] = "ownList" THEN ownList[w[2]] ELSE IF w[1] = "peerList" THEN peerList[w[2]] ELSE {}

Lists == [w \in Writes |-> ListOf(w)]

(* Those that another client than that of `u' has fetched the list of `d'  *)
(* without.                                                                *)
LostIn(u, d) ==
  {v \in Users : \E w \in Writes : /\ On(w, d) /\ from[w[2]] # u
                                  /\ ListOf(w) # {} /\ v \notin ListOf(w)}

Told(u, d, v) == Shown(outbox[u], d, chats[d], Lists, v) \/ v \in LostIn(u, d)

(* A list is written as it was extended, by the client that fetched it;    *)
(* the lists of a client are linked; and what it has added it reads, until *)
(* another client overwrites it.                                           *)
ListsKept ==
  /\ \A s \in Sends :
       /\ phase[s] \in {"idle", "own", "peer", "getOwn"} => ownList[s] = {}
       /\ phase[s] \in {"idle", "own", "peer", "getOwn", "getPeer"} => peerList[s] = {}
  /\ \A u \in Users : \A w \in Writes : Holds(outbox[u], w) =>
       /\ from[w[2]] = u
       /\ w[1] \in {"ownList", "peerList"} => Adds(w) \in ListOf(w)
  /\ \A u, d \in Users : Linked(outbox[u], d, chats[d], Lists, LostIn(u, d))
  /\ \A s \in Sends :
       /\ phase[s] \in {"getPeer", "done"} => Told(from[s], from[s], to[s])
       /\ phase[s] = "done" => Told(from[s], to[s], from[s])

IInv == TypeOK /\ ListsBacked /\ TextsAgree /\ ListsKept

-----------------------------------------------------------------------------
(* What a write more, or less, does to a queue.                            *)
LEMMA QueueAdd ==
  ASSUME NEW q \in Seq(Writes), NEW w \in Writes
  PROVE  /\ q \o <<w>> \in Seq(Writes) /\ q \o <<>> = q
         /\ \A v : Holds(q \o <<w>>, v) <=> Holds(q, v) \/ v = w
<1> DEFINE r == q \o <<w>>
<1>1. /\ r \in Seq(Writes) /\ q \o <<>> = q
      /\ Len(q) \in Nat
      /\ Len(r) = Len(q) + 1
      /\ \A i \in 1..Len(q) : r[i] = q[i]
      /\ r[Len(r)] = w
  OBVIOUS
<1> HIDE DEF r
<1>2. \A v : Holds(r, v) <=> Holds(q, v) \/ v = w
  BY <1>1 DEF Holds
<1> QED
  BY <1>1, <1>2 DEF r

LEMMA QueueTail ==
  ASSUME NEW q \in Seq(Writes), q # <<>>
  PROVE  /\ Tail(q) \in Seq(Writes) /\ Head(q) \in Writes
         /\ Holds(q, Head(q))
         /\ \A v : Holds(Tail(q), v) => Holds(q, v)
<1> DEFINE r == Tail(q)
<1>1. /\ r \in Seq(Writes)
      /\ Len(q) \in Nat /\ Len(q) >= 1
      /\ Len(r) = Len(q) - 1
      /\ \A i \in 1..Len(r) : r[i] = q[i + 1]
      /\ Head(q) = q[1] /\ q[1] \in Writes
  OBVIOUS
<1> HIDE DEF r
<1>2. \A v : Holds(r, v) => Holds(q, v)
  <2> SUFFICES ASSUME NEW v, NEW i \in 1..Len(r), r[i] = v PROVE Holds(q, v)
    BY DEF Holds
  <2>1. i + 1 \in 1..Len(q) /\ q[i + 1] = v
    BY <1>1
  <2> QED
    BY <2>1 DEF Holds
<1>3. Holds(q, Head(q))
  BY <1>1 DEF Holds
<1> QED
  BY <1>1, <1>2, <1>3 DEF r

(* The two ways in which the queue of a client changes.                    *)
LEMMA Issues ==
  ASSUME TypeOK, NEW u \in Users, NEW w \in Writes, Issue(u, <<w>>)
  PROVE  /\ outbox' \in [Users -> Seq(Writes)]
         /\ \A x \in Users : \A v : Holds(outbox'[x], v) => Holds(outbox[x], v) \/ v = w
BY QueueAdd DEF TypeOK, Issue, Writes

LEMMA Answers ==
  ASSUME TypeOK, NEW s \in Sends, NEW kind, Applies(s, kind), Applied(s, <<>>)
  PROVE  /\ outbox' \in [Users -> Seq(Writes)]
         /\ Holds(outbox[from[s]], <<kind, s>>)
         /\ \A x \in Users : \A v : Holds(outbox'[x], v) => Holds(outbox[x], v)
<1> DEFINE q == outbox[from[s]]
<1>1. from[s] \in Users /\ q \in Seq(Writes) /\ q # <<>> /\ Head(q) = <<kind, s>>
  BY SendAssumption DEF TypeOK, Applies, Writes
<1>2. Tail(q) \in Seq(Writes) /\ Tail(q) \o <<>> = Tail(q)
  BY <1>1, QueueTail
<1>3. outbox' = [outbox EXCEPT ![from[s]] = Tail(q)]
  BY <1>2 DEF Applied
<1> QED
  BY <1>1, <1>2, <1>3, QueueTail DEF TypeOK, Writes

LEMMA AnswersOwn ==
  ASSUME TypeOK, NEW s \in Sends, NEW kind, Applies(s, kind), Applied(s, <<<<"peer", s>>>>)
  PROVE  /\ outbox' \in [Users -> Seq(Writes)]
         /\ \A x \in Users : \A v : Holds(outbox'[x], v) => Holds(outbox[x], v) \/ v = <<"peer", s>>
<1> DEFINE q == outbox[from[s]]
           w == <<"peer", s>>
<1>1. from[s] \in Users /\ q \in Seq(Writes) /\ q # <<>> /\ w \in Writes
  BY SendAssumption DEF TypeOK, Applies, Writes, Kinds
<1>2. outbox' = [outbox EXCEPT ![from[s]] = Tail(q) \o <<w>>]
  BY DEF Applied
<1> HIDE DEF w
<1>3. /\ Tail(q) \o <<w>> \in Seq(Writes)
      /\ \A v : Holds(Tail(q) \o <<w>>, v) => Holds(q, v) \/ v = w
  <2>1. Tail(q) \in Seq(Writes) /\ \A v : Holds(Tail(q), v) => Holds(q, v)
    BY <1>1, QueueTail
  <2> HIDE DEF q
  <2> QED
    BY <1>1, <2>1, QueueAdd
<1> QED
  BY <1>1, <1>2, <1>3 DEF TypeOK, Writes, w

(* A kill leaves the queue, or empties it.                                 *)
LEMMA Kills ==
  ASSUME TypeOK, NEW u \in Users, Kill(u)
  PROVE  /\ outbox' \in [Users -> Seq(Writes)]
         /\ \A x \in Users : \A v : Holds(outbox'[x], v) => Holds(outbox[x], v)
<1>1. <<>> \in Seq(Writes) /\ \A v : ~Holds(<<>>, v)
  BY DEF Holds
<1>2. outbox \in [Users -> Seq(Writes)]
  BY DEF TypeOK, Writes
<1>3. CASE outbox' = outbox
  BY <1>2, <1>3
<1>4. CASE outbox' = [outbox EXCEPT ![u] = <<>>]
  <2>1. \A x \in Users : outbox'[x] = IF x = u THEN <<>> ELSE outbox[x]
    BY <1>2, <1>4
  <2>2. outbox' \in [Users -> Seq(Writes)]
    BY <1>1, <1>2, <1>4
  <2> QED
    BY <1>1, <2>1, <2>2
<1> QED
  BY <1>3, <1>4 DEF Kill

-----------------------------------------------------------------------------
LEMMA SendFacts ==
  \A s \in Sends : /\ from[s] \in Users /\ to[s] \in Users /\ Page(s) \in Pages
                   /\ \A k \in Kinds : <<k, s>> \in Writes
BY SendAssumption DEF Page, Pages, Writes

(* What a client reads in a document is what is there, or a list it wrote. *)
LEMMA ReadsWhat ==
  ASSUME TypeOK, NEW u \in Users, NEW v \in Users, NEW list, Reads(u, v, list)
  PROVE  \/ list = chats[v]
         \/ \E r \in Sends : \/ from[r] = v /\ list = ownList[r]
                             \/ to[r] = v /\ list = peerList[r]
<1>1. CASE list = chats[v]
  BY <1>1
<1>2. CASE list # chats[v]
  <2>1. PICK i \in Pending(u, v) : list = Written(outbox[u][i])
    BY <1>2 DEF Reads
  <2>2. outbox[u] \in Seq(Writes) /\ i \in DOMAIN outbox[u]
    BY <2>1 DEF TypeOK, Pending, Writes
  <2>3. outbox[u][i] \in Kinds \X Sends
    BY <2>2 DEF Writes
  <2>4. outbox[u][i][2] \in Sends
    BY <2>3
  <2> QED
    BY <2>1, <2>4 DEF Pending, Written
<1> QED
  BY <1>1, <1>2

LEMMA TypeStep == ASSUME TypeOK, [Next]_vars PROVE TypeOK'
<1> USE SendFacts DEF TypeOK, Phases, server, texts, lists
<1>1. ASSUME NEW p \in Pages, NEW t \in Texts \union {Empty}, Type(p, t) PROVE TypeOK'
  BY <1>1 DEF Type, SetField
<1>2. ASSUME NEW s \in Sends, Tap(s) PROVE TypeOK'
  <2>1. outbox' \in [Users -> Seq(Writes)]
    BY <1>2, Issues DEF Tap, Kinds
  <2> QED
    BY <1>2, <2>1 DEF Tap, Writes
<1>3. ASSUME NEW s \in Sends, AddOwn(s) PROVE TypeOK'
  <2>1. outbox' \in [Users -> Seq(Writes)]
    BY <1>3, Answers, AnswersOwn DEF AddOwn
  <2> QED
    <3>1. field[Page(s)] \in Texts \union {Empty}
      OBVIOUS
    <3>2. phase' \in [Sends -> Phases] /\ peerText' \in [Sends -> Texts \union {Empty}]
      BY <1>3, <3>1 DEF AddOwn
    <3>3. ownCopy' \in [Sends -> BOOLEAN] /\ edited' \subseteq Sends
      BY <1>3 DEF AddOwn
    <3> QED
      BY <1>3, <2>1, <3>2, <3>3 DEF AddOwn, Writes
<1>4. ASSUME NEW s \in Sends, AddPeer(s) PROVE TypeOK'
  <2>1. outbox' \in [Users -> Seq(Writes)]
    BY <1>4, Answers DEF AddPeer
  <2> QED
    BY <1>4, <2>1 DEF AddPeer, SetField, Writes
<1>5. ASSUME NEW s \in Sends, WriteOwnList(s) \/ WritePeerList(s) PROVE TypeOK'
  <2>1. outbox' \in [Users -> Seq(Writes)]
    BY <1>5, Answers DEF WriteOwnList, WritePeerList
  <2> QED
    BY <1>5, <2>1 DEF WriteOwnList, WritePeerList, Writes
<1>6. ASSUME NEW s \in Sends, GetOwn(s) \/ GetPeer(s) PROVE TypeOK'
  <2>1. PICK w \in {<<"ownList", s>>, <<"peerList", s>>} :
          UNCHANGED outbox \/ Issue(from[s], <<w>>)
    BY <1>6 DEF GetOwn, GetPeer
  <2>2. w \in Writes
    BY DEF Kinds
  <2>3. outbox' \in [Users -> Seq(Writes)]
    <3>1. CASE UNCHANGED outbox
      BY <3>1 DEF Writes
    <3>2. CASE Issue(from[s], <<w>>)
      BY <2>2, <3>2, Issues
    <3> QED
      BY <2>1, <3>1, <3>2
  <2>4. ownList' \in [Sends -> SUBSET Users] /\ peerList' \in [Sends -> SUBSET Users]
    <3>1. CASE GetOwn(s)
      <4>1. PICK list \in SUBSET Users : ownList' = [ownList EXCEPT ![s] = list \union {to[s]}]
        BY <3>1 DEF GetOwn
      <4>2. list \union {to[s]} \in SUBSET Users
        OBVIOUS
      <4> QED
        BY <3>1, <4>1, <4>2 DEF GetOwn
    <3>2. CASE GetPeer(s)
      <4>1. PICK list \in SUBSET Users : peerList' = [peerList EXCEPT ![s] = list \union {from[s]}]
        BY <3>2 DEF GetPeer
      <4>2. list \union {from[s]} \in SUBSET Users
        OBVIOUS
      <4> QED
        BY <3>2, <4>1, <4>2 DEF GetPeer
    <3> QED
      BY <1>6, <3>1, <3>2
  <2>5. phase' \in [Sends -> Phases]
    BY <1>6 DEF GetOwn, GetPeer
  <2> QED
    BY <1>6, <2>3, <2>4, <2>5 DEF GetOwn, GetPeer, Writes
<1>7. ASSUME NEW u \in Users, Kill(u) PROVE TypeOK'
  <2>1. outbox' \in [Users -> Seq(Writes)]
    BY <1>7, Kills
  <2>2. phase' \in [Sends -> Phases] /\ edited' \subseteq Sends
    BY <1>7 DEF Kill
  <2> QED
    BY <1>7, <2>1, <2>2 DEF Kill, Writes
<1>8. CASE UNCHANGED vars
  BY <1>8 DEF vars
<1> QED
  BY <1>1, <1>2, <1>3, <1>4, <1>5, <1>6, <1>7, <1>8 DEF Next, Apply

(* The type invariant, for any users, sends and texts.                     *)
THEOREM TypeCorrect == Spec => []TypeOK
<1>1. Init => TypeOK
  BY DEF Init, TypeOK, Phases
<1> QED
  BY <1>1, TypeStep, PTL DEF Spec

-----------------------------------------------------------------------------
(* Copies stay, and with them the grounds for listing a conversation.      *)
LEMMA BackedStays ==
  ASSUME \A s \in Sends : (ownCopy[s] => ownCopy'[s]) /\ (peerCopy[s] => peerCopy'[s]),
         NEW u, NEW v, Backed(u, v)
  PROVE  Backed(u, v)'
BY DEF Backed

LEMMA ListsStep == ASSUME IInv, [Next]_vars PROVE ListsBacked'
<1> USE SendFacts DEF server, texts, lists
<1>1. ASSUME NEW p \in Pages, NEW t \in Texts \union {Empty}, Type(p, t) PROVE ListsBacked'
  BY <1>1 DEF Type, IInv, ListsBacked, Backed
<1>2. ASSUME NEW s \in Sends, Tap(s) PROVE ListsBacked'
  BY <1>2 DEF Tap, IInv, TypeOK, ListsBacked, Backed
<1>3. ASSUME NEW s \in Sends, AddOwn(s) \/ AddPeer(s) PROVE ListsBacked'
  <2>1. \A r \in Sends : (ownCopy[r] => ownCopy'[r]) /\ (peerCopy[r] => peerCopy'[r])
    BY <1>3 DEF AddOwn, AddPeer, IInv, TypeOK
  <2>2. \A u, v : Backed(u, v) => Backed(u, v)'
    BY <2>1, BackedStays
  <2>3. UNCHANGED <<chats, lists>>
    BY <1>3 DEF AddOwn, AddPeer
  <2>4. \A r \in Sends : /\ phase'[r] \in {"peer", "getOwn", "getPeer"} => ownCopy'[r]
                         /\ phase'[r] \in {"getOwn", "getPeer"} => peerCopy'[r]
    BY <1>3 DEF AddOwn, AddPeer, IInv, TypeOK, ListsBacked
  <2> HIDE DEF server
  <2> QED
    BY <2>2, <2>3, <2>4 DEF IInv, ListsBacked
<1>4. ASSUME NEW s \in Sends, GetOwn(s) PROVE ListsBacked'
  <2>1. PICK list \in SUBSET Users :
          Reads(from[s], from[s], list) /\ ownList' = [ownList EXCEPT ![s] = list \union {to[s]}]
    BY <1>4 DEF GetOwn
  <2>2. \A v \in list : Backed(from[s], v)
    BY <2>1, ReadsWhat DEF IInv, ListsBacked
  <2>3. Backed(from[s], to[s])
    BY <1>4 DEF GetOwn, IInv, ListsBacked, Backed, Page
  <2>4. \A u, v : Backed(u, v)' <=> Backed(u, v)
    BY <1>4 DEF GetOwn, Backed
  <2> QED
    BY <1>4, <2>1, <2>2, <2>3, <2>4 DEF GetOwn, IInv, TypeOK, ListsBacked
<1>5. ASSUME NEW s \in Sends, GetPeer(s) PROVE ListsBacked'
  <2>1. PICK list \in SUBSET Users :
          Reads(from[s], to[s], list) /\ peerList' = [peerList EXCEPT ![s] = list \union {from[s]}]
    BY <1>5 DEF GetPeer
  <2>2. \A v \in list : Backed(to[s], v)
    BY <2>1, ReadsWhat DEF IInv, ListsBacked
  <2>3. Backed(to[s], from[s])
    BY <1>5 DEF GetPeer, IInv, ListsBacked, Backed, Page
  <2>4. \A u, v : Backed(u, v)' <=> Backed(u, v)
    BY <1>5 DEF GetPeer, Backed
  <2> QED
    BY <1>5, <2>1, <2>2, <2>3, <2>4 DEF GetPeer, IInv, TypeOK, ListsBacked
<1>6. ASSUME NEW s \in Sends, WriteOwnList(s) \/ WritePeerList(s) PROVE ListsBacked'
  <2>1. \A u, v : Backed(u, v)' <=> Backed(u, v)
    BY <1>6 DEF WriteOwnList, WritePeerList, Backed
  <2>2. CASE WriteOwnList(s)
    BY <2>1, <2>2 DEF WriteOwnList, IInv, TypeOK, ListsBacked
  <2>3. CASE WritePeerList(s)
    BY <2>1, <2>3 DEF WritePeerList, IInv, TypeOK, ListsBacked
  <2> QED
    BY <1>6, <2>2, <2>3
<1>7. ASSUME NEW u \in Users, Kill(u) PROVE ListsBacked'
  <2>1. \A w, v : Backed(w, v)' <=> Backed(w, v)
    BY <1>7 DEF Kill, Backed
  <2> QED
    BY <1>7, <2>1 DEF Kill, IInv, TypeOK, ListsBacked
<1>8. CASE UNCHANGED vars
  BY <1>8 DEF vars, IInv, ListsBacked, Backed
<1> QED
  BY <1>1, <1>2, <1>3, <1>4, <1>5, <1>6, <1>7, <1>8 DEF Next, Apply

-----------------------------------------------------------------------------
(* Nothing but the reading of the field issues the receiver's copy.        *)
LEMMA TextsStep == ASSUME IInv, [Next]_vars PROVE TextsAgree'
<1> USE SendFacts DEF IInv, TypeOK, server, texts, lists
<1>1. ASSUME NEW p \in Pages, NEW t \in Texts \union {Empty}, Type(p, t) PROVE TextsAgree'
  BY <1>1 DEF Type, SetField, TextsAgree, PeerIssued
<1>2. ASSUME NEW s \in Sends, Tap(s) PROVE TextsAgree'
  <2>1. \A r \in Sends : PeerIssued(r)' => PeerIssued(r)
    <3>1. <<"own", s>> \in Writes /\ \A r : <<"own", s>> # <<"peer", r>>
      BY DEF Kinds
    <3>2. \A x \in Users : \A v : Holds(outbox'[x], v) => Holds(outbox[x], v) \/ v = <<"own", s>>
      BY <1>2, <3>1, Issues DEF Tap
    <3> QED
      BY <1>2, <3>1, <3>2 DEF Tap, PeerIssued
  <2> QED
    BY <1>2, <2>1 DEF Tap, TextsAgree
<1>3. ASSUME NEW s \in Sends, AddOwn(s) PROVE TextsAgree'
  <2>1. CASE phase[s] = "own"
    <3>1. \A x \in Users : \A v : Holds(outbox'[x], v) => Holds(outbox[x], v) \/ v = <<"peer", s>>
      BY <1>3, <2>1, AnswersOwn DEF AddOwn
    <3>2. \A r \in Sends : r # s => (PeerIssued(r)' => PeerIssued(r))
      BY <1>3, <3>1 DEF AddOwn, PeerIssued
    <3> QED
      BY <1>3, <2>1, <3>2 DEF AddOwn, TextsAgree
  <2>2. CASE phase[s] # "own"
    <3>1. \A x \in Users : \A v : Holds(outbox'[x], v) => Holds(outbox[x], v)
      BY <1>3, <2>2, Answers DEF AddOwn
    <3> QED
      BY <1>3, <2>2, <3>1 DEF AddOwn, TextsAgree, PeerIssued
  <2> QED
    BY <2>1, <2>2
<1>4. ASSUME NEW s \in Sends, AddPeer(s) PROVE TextsAgree'
  <2>1. /\ Holds(outbox[from[s]], <<"peer", s>>)
        /\ \A x \in Users : \A v : Holds(outbox'[x], v) => Holds(outbox[x], v)
    BY <1>4, Answers DEF AddPeer
  <2>2. \A r \in Sends : PeerIssued(r)' => PeerIssued(r)
    BY <1>4, <2>1 DEF AddPeer, PeerIssued
  <2> QED
    BY <1>4, <2>2 DEF AddPeer, SetField, TextsAgree
<1>5. ASSUME NEW s \in Sends, GetOwn(s) \/ GetPeer(s) PROVE TextsAgree'
  <2>1. \A x \in Users, r \in Sends :
          Holds(outbox'[x], <<"peer", r>>) => Holds(outbox[x], <<"peer", r>>)
    <3>1. \A k \in {"ownList", "peerList"} : <<k, s>> \in Writes /\ \A r : <<k, s>> # <<"peer", r>>
      BY DEF Kinds
    <3>2. \/ UNCHANGED outbox
          \/ \E k \in {"ownList", "peerList"} : Issue(from[s], <<<<k, s>>>>)
      BY <1>5 DEF GetOwn, GetPeer
    <3> QED
      BY <3>1, <3>2, Issues
  <2> QED
    BY <1>5, <2>1 DEF GetOwn, GetPeer, TextsAgree, PeerIssued
<1>6. ASSUME NEW s \in Sends, WriteOwnList(s) \/ WritePeerList(s) PROVE TextsAgree'
  <2>1. \A x \in Users : \A v : Holds(outbox'[x], v) => Holds(outbox[x], v)
    BY <1>6, Answers DEF WriteOwnList, WritePeerList
  <2> QED
    BY <1>6, <2>1 DEF WriteOwnList, WritePeerList, TextsAgree, PeerIssued
<1>7. ASSUME NEW u \in Users, Kill(u) PROVE TextsAgree'
  <2>1. \A x \in Users : \A v : Holds(outbox'[x], v) => Holds(outbox[x], v)
    BY <1>7, Kills
  <2>2. \A r \in Sends : PeerIssued(r)' => PeerIssued(r)
    BY <1>7, <2>1 DEF Kill, PeerIssued
  <2> QED
    BY <1>7, <2>2 DEF Kill, TextsAgree
<1>8. CASE UNCHANGED vars
  BY <1>8 DEF vars, TextsAgree, PeerIssued
<1> QED
  BY <1>1, <1>2, <1>3, <1>4, <1>5, <1>6, <1>7, <1>8 DEF Next, Apply

-----------------------------------------------------------------------------
(* The queue of a client, for one list.                                    *)
LEMMA AddLength ==
  ASSUME NEW q \in Seq(Writes), NEW w \in Writes
  PROVE  /\ Len(q) \in Nat /\ q \o <<w>> \in Seq(Writes)
         /\ Len(q \o <<w>>) = Len(q) + 1
         /\ \A i \in 1..Len(q) : (q \o <<w>>)[i] = q[i] /\ q[i] \in Writes
         /\ (q \o <<w>>)[Len(q) + 1] = w
OBVIOUS

LEMMA TailLength ==
  ASSUME NEW q \in Seq(Writes), q # <<>>
  PROVE  /\ Len(q) \in Nat \ {0} /\ Tail(q) \in Seq(Writes)
         /\ Len(Tail(q)) = Len(q) - 1
         /\ \A i \in 1..(Len(q) - 1) : Tail(q)[i] = q[i + 1] /\ q[i] \in Writes
         /\ Head(q) = q[1] /\ q[1] \in Writes
OBVIOUS

(* The links of a queue depend on its own writes, and on less and less as  *)
(* more is overwritten.                                                    *)
LEMMA LinkedSame ==
  ASSUME NEW q, NEW d, NEW base, NEW wr, NEW lost, NEW bases, NEW wrs, NEW losses,
         Linked(q, d, base, wr, lost),
         \A i \in 1..Len(q) : wrs[q[i]] = wr[q[i]],
         lost \subseteq losses, base \subseteq bases \union losses
  PROVE  Linked(q, d, bases, wrs, losses)
<1>1. \A i \in OnAt(q, d) : wrs[q[i]] = wr[q[i]]
  BY DEF OnAt
<1> QED
  BY <1>1 DEF Linked

LEMMA LinkedOther ==
  ASSUME NEW q \in Seq(Writes), NEW w \in Writes, NEW d, NEW base, NEW wr, NEW lost,
         Linked(q, d, base, wr, lost), ~On(w, d)
  PROVE  /\ Linked(q \o <<w>>, d, base, wr, lost)
         /\ \A v : Shown(q, d, base, wr, v) => Shown(q \o <<w>>, d, base, wr, v)
<1> DEFINE r == q \o <<w>>
<1>1. OnAt(r, d) = OnAt(q, d) /\ \A i \in OnAt(q, d) : r[i] = q[i]
  BY AddLength DEF OnAt
<1> HIDE DEF r
<1>2. \A v, p, j : AddedIn(r, d, v, p, j) <=> AddedIn(q, d, v, p, j)
  BY <1>1 DEF AddedIn
<1>3. Linked(r, d, base, wr, lost)
  BY <1>1, <1>2 DEF Linked
<1>4. \A v : Shown(q, d, base, wr, v) => Shown(r, d, base, wr, v)
  BY <1>1 DEF Shown
<1> QED
  BY <1>3, <1>4 DEF r

(* A write that adds a name to what its client read is linked, and shows   *)
(* that name and what was shown.                                           *)
LEMMA LinkedAdd ==
  ASSUME NEW q \in Seq(Writes), NEW w \in Writes, NEW d, NEW base, NEW wr, NEW lost,
         NEW list, Linked(q, d, base, wr, lost), On(w, d),
         ReadsIn(q, d, base, wr, list), wr[w] = list \union {Adds(w)}
  PROVE  /\ Linked(q \o <<w>>, d, base, wr, lost)
         /\ \A v : v = Adds(w) \/ Shown(q, d, base, wr, v) => Shown(q \o <<w>>, d, base, wr, v)
<1> DEFINE r == q \o <<w>>
           n == Len(q) + 1
<1>1. /\ OnAt(r, d) = OnAt(q, d) \union {n} /\ \A i \in OnAt(q, d) : r[i] = q[i]
      /\ r[n] = w
      /\ OnAt(q, d) \subseteq 1..Len(q) /\ Len(q) \in Nat
  BY AddLength DEF OnAt
<1> HIDE DEF r
<1>2. \A v, p, j : AddedIn(q, d, v, p, j) => AddedIn(r, d, v, p, j)
  BY <1>1 DEF AddedIn
<1>3. ASSUME NEW v, v = Adds(w) \/ Shown(q, d, base, wr, v)
      PROVE  Shown(r, d, base, wr, v)
  <2>1. v \in wr[w]
    BY <1>1, <1>3 DEF Shown, ReadsIn
  <2>2. n \in OnAt(r, d) /\ \A i \in OnAt(r, d) : i <= n
    BY <1>1
  <2> QED
    BY <1>1, <2>1, <2>2 DEF Shown
<1>4. ASSUME NEW j \in OnAt(r, d), NEW v \in wr[r[j]]
      PROVE  /\ v \in base \/ v \in lost \/ AddedIn(r, d, v, 0, j)
             /\ \A p \in OnAt(r, d) :
                  p < j => v \in wr[r[p]] \/ v \in lost \/ AddedIn(r, d, v, p, j)
  <2>1. CASE j \in OnAt(q, d)
    <3>1. \A p \in OnAt(r, d) : p < j => p \in OnAt(q, d)
      BY <1>1, <2>1
    <3> QED
      BY <1>1, <1>2, <2>1, <3>1 DEF Linked
  <2>2. CASE j = n /\ v = Adds(w)
    <3>1. \A p \in OnAt(r, d) \union {0} : p < j => AddedIn(r, d, v, p, j)
      BY <1>1, <2>2 DEF AddedIn
    <3>2. 0 < j
      BY <1>1, <2>2
    <3> QED
      BY <3>1, <3>2
  <2>3. CASE j = n /\ v \in list
    <3>1. CASE OnAt(q, d) = {}
      <4>1. v \in base
        BY <2>3, <3>1 DEF ReadsIn
      <4>2. \A p \in OnAt(r, d) : ~(p < j)
        BY <1>1, <2>3, <3>1
      <4> QED
        BY <4>1, <4>2
    <3>2. CASE OnAt(q, d) # {}
      <4>1. PICK m \in OnAt(q, d) : (\A i \in OnAt(q, d) : i <= m) /\ list = wr[q[m]]
        BY <3>2 DEF ReadsIn
      <4>2. \A p : AddedIn(q, d, v, p, m) => AddedIn(r, d, v, p, j)
        BY <1>1, <2>3 DEF AddedIn
      <4>3. v \in base \/ v \in lost \/ AddedIn(r, d, v, 0, j)
        BY <2>3, <4>1, <4>2 DEF Linked
      <4>4. ASSUME NEW p \in OnAt(r, d), p < j
            PROVE  v \in wr[r[p]] \/ v \in lost \/ AddedIn(r, d, v, p, j)
        <5>1. p \in OnAt(q, d) /\ r[p] = q[p] /\ (p = m \/ p < m)
          BY <1>1, <2>3, <4>1, <4>4
        <5> QED
          BY <2>3, <4>1, <4>2, <5>1 DEF Linked
      <4> QED
        BY <4>3, <4>4
    <3> QED
      BY <3>1, <3>2
  <2> QED
    BY <1>1, <2>1, <2>2, <2>3
<1> QED
  BY <1>3, <1>4 DEF Linked, r

(* A queue that loses its first write, which is carried out if it is one   *)
(* to the list.                                                            *)
LEMMA LinkedTail ==
  ASSUME NEW q \in Seq(Writes), q # <<>>, NEW d, NEW base, NEW wr, NEW lost, NEW bases,
         Linked(q, d, base, wr, lost),
         bases = IF On(Head(q), d) THEN wr[Head(q)] ELSE base
  PROVE  /\ Linked(Tail(q), d, bases, wr, lost)
         /\ \A v : Shown(q, d, base, wr, v) => Shown(Tail(q), d, bases, wr, v)
<1> DEFINE r == Tail(q)
<1>1. /\ Len(q) \in Nat \ {0} /\ Head(q) = q[1]
      /\ \A i : i \in OnAt(r, d) <=> i \in 1..(Len(q) - 1) /\ i + 1 \in OnAt(q, d)
      /\ \A i \in OnAt(r, d) : r[i] = q[i + 1]
      /\ OnAt(q, d) \subseteq 1..Len(q) /\ OnAt(r, d) \subseteq 1..(Len(q) - 1)
  BY TailLength DEF OnAt
<1>2. 1 \in OnAt(q, d) <=> On(Head(q), d)
  BY <1>1 DEF OnAt
<1> HIDE DEF r
<1>3. ASSUME NEW v, NEW p \in Nat, NEW j \in OnAt(r, d), AddedIn(q, d, v, p + 1, j + 1)
      PROVE  AddedIn(r, d, v, p, j)
  <2>1. PICK i \in OnAt(q, d) : p + 1 < i /\ i <= j + 1 /\ Adds(q[i]) = v
    BY <1>3 DEF AddedIn
  <2>2. i - 1 \in 1..(Len(q) - 1) /\ i - 1 + 1 = i
    BY <1>1, <2>1
  <2>3. i - 1 \in OnAt(r, d) /\ r[i - 1] = q[i]
    BY <1>1, <2>1, <2>2
  <2>4. p < i - 1 /\ i - 1 <= j
    BY <1>1, <2>1, <2>2
  <2> QED
    BY <2>1, <2>3, <2>4 DEF AddedIn
<1>4. ASSUME NEW j \in OnAt(r, d), NEW v \in wr[r[j]]
      PROVE  v \in bases \/ v \in lost \/ AddedIn(r, d, v, 0, j)
  <2>1. j + 1 \in OnAt(q, d) /\ r[j] = q[j + 1] /\ 1 < j + 1
    BY <1>1
  <2>2. CASE On(Head(q), d)
    <3>1. v \in wr[q[1]] \/ v \in lost \/ AddedIn(q, d, v, 1, j + 1)
      BY <1>2, <2>1, <2>2 DEF Linked
    <3> QED
      BY <1>1, <1>3, <2>2, <3>1
  <2>3. CASE ~On(Head(q), d)
    <3>1. v \in base \/ v \in lost \/ AddedIn(q, d, v, 0, j + 1)
      BY <2>1 DEF Linked
    <3>2. AddedIn(q, d, v, 0, j + 1) => AddedIn(q, d, v, 1, j + 1)
      BY <1>1, <1>2, <2>3 DEF AddedIn
    <3> QED
      BY <1>3, <2>3, <3>1, <3>2
  <2> QED
    BY <2>2, <2>3
<1>5. ASSUME NEW j \in OnAt(r, d), NEW v \in wr[r[j]], NEW p \in OnAt(r, d), p < j
      PROVE  v \in wr[r[p]] \/ v \in lost \/ AddedIn(r, d, v, p, j)
  <2>1. /\ j + 1 \in OnAt(q, d) /\ r[j] = q[j + 1] /\ p \in Nat
        /\ p + 1 \in OnAt(q, d) /\ r[p] = q[p + 1] /\ p + 1 < j + 1
    BY <1>1, <1>5
  <2>2. v \in wr[q[p + 1]] \/ v \in lost \/ AddedIn(q, d, v, p + 1, j + 1)
    BY <2>1 DEF Linked
  <2> QED
    BY <1>3, <2>1, <2>2
<1>6. ASSUME NEW v, Shown(q, d, base, wr, v) PROVE Shown(r, d, bases, wr, v)
  <2>1. ASSUME NEW i \in OnAt(q, d), i # 1
        PROVE  i - 1 \in OnAt(r, d)
    <3>1. i - 1 \in 1..(Len(q) - 1) /\ i - 1 + 1 = i
      BY <1>1, <2>1
    <3> QED
      BY <1>1, <2>1, <3>1
  <2>2. CASE OnAt(q, d) = {}
    <3>1. OnAt(r, d) = {} /\ ~On(Head(q), d)
      BY <1>1, <1>2, <2>2
    <3> QED
      BY <1>6, <2>2, <3>1 DEF Shown
  <2>3. CASE OnAt(q, d) # {}
    <3>1. PICK j \in OnAt(q, d) : (\A i \in OnAt(q, d) : i <= j) /\ v \in wr[q[j]]
      BY <1>6, <2>3 DEF Shown
    <3>2. CASE j = 1
      <4>1. OnAt(r, d) = {}
        BY <1>1, <3>1, <3>2
      <4> QED
        BY <1>1, <1>2, <3>1, <3>2, <4>1 DEF Shown
    <3>3. CASE j # 1
      <4>1. j - 1 \in OnAt(r, d) /\ r[j - 1] = q[j]
        BY <1>1, <2>1, <3>3
      <4>2. \A i \in OnAt(r, d) : i <= j - 1
        BY <1>1, <3>1
      <4> QED
        BY <3>1, <4>1, <4>2 DEF Shown
    <3> QED
      BY <3>2, <3>3
  <2> QED
    BY <2>2, <2>3
<1> QED
  BY <1>4, <1>5, <1>6 DEF Linked, r

(* What a client reads is on the server, was overwritten or is on its way. *)
LEMMA LinkedShown ==
  ASSUME NEW q \in Seq(Writes), NEW d, NEW base, NEW wr, NEW lost, NEW v,
         Linked(q, d, base, wr, lost), Shown(q, d, base, wr, v)
  PROVE  v \in base \/ v \in lost \/ \E i \in OnAt(q, d) : Adds(q[i]) = v
BY DEF Shown, Linked, AddedIn

-----------------------------------------------------------------------------
LEMMA WritesFacts ==
  ASSUME TypeOK
  PROVE  /\ \A u \in Users : outbox[u] \in Seq(Writes)
         /\ \A u \in Users : \A i \in 1..Len(outbox[u]) :
              outbox[u][i] \in Writes /\ Holds(outbox[u], outbox[u][i])
         /\ \A w \in Writes : /\ w[1] \in Kinds /\ w[2] \in Sends /\ w = <<w[1], w[2]>>
                            /\ ListOf(w) \in SUBSET Users /\ Adds(w) \in Users
         /\ \A w \in Writes : Lists[w] = ListOf(w)
         /\ \A d \in Users : chats[d] \in SUBSET Users
BY SendFacts DEF TypeOK, Writes, Holds, Lists, ListOf, Adds

LEMMA ReadsInQueue ==
  ASSUME TypeOK, NEW u \in Users, NEW d \in Users, NEW list, Reads(u, d, list)
  PROVE  ReadsIn(outbox[u], d, chats[d], Lists, list)
<1>1. Pending(u, d) = OnAt(outbox[u], d)
  BY WritesFacts DEF Pending, OnAt, On
<1>2. \A i \in Pending(u, d) : Written(outbox[u][i]) = Lists[outbox[u][i]]
  BY <1>1, WritesFacts DEF OnAt, On, Written, ListOf
<1> QED
  BY <1>1, <1>2 DEF Reads, ReadsIn

(* Nothing of the lists changes but the queues, by other writes.           *)
LEMMA Passing ==
  ASSUME TypeOK, ListsKept, TypeOK', UNCHANGED <<chats, ownList, peerList>>,
         \A u \in Users :
           \/ outbox'[u] = outbox[u]
           \/ \E s \in Sends, k \in {"own", "peer"} :
                \/ outbox'[u] = outbox[u] \o <<<<k, s>>>>
                \/ /\ outbox[u] # <<>> /\ Head(outbox[u]) = <<k, s>>
                   /\ outbox'[u] = Tail(outbox[u])
                \/ /\ outbox[u] # <<>> /\ Head(outbox[u]) = <<k, s>>
                   /\ \E r \in Sends : outbox'[u] = Tail(outbox[u]) \o <<<<"peer", r>>>>
  PROVE  \A u, d \in Users :
           /\ Linked(outbox'[u], d, chats'[d], Lists', LostIn(u, d)')
           /\ \A v : Told(u, d, v) => Told(u, d, v)'
<1>1. Lists' = Lists /\ \A u, d : LostIn(u, d)' = LostIn(u, d)
  BY DEF Lists, LostIn, ListOf
<1> SUFFICES ASSUME NEW u \in Users, NEW d \in Users
             PROVE  /\ Linked(outbox'[u], d, chats[d], Lists, LostIn(u, d))
                    /\ \A v : Shown(outbox[u], d, chats[d], Lists, v)
                                => Shown(outbox'[u], d, chats[d], Lists, v)
  BY <1>1 DEF Told
<1> DEFINE q == outbox[u]
           Fits(r) == /\ Linked(r, d, chats[d], Lists, LostIn(u, d))
                      /\ \A v : Shown(q, d, chats[d], Lists, v) => Shown(r, d, chats[d], Lists, v)
<1>2. q \in Seq(Writes) /\ Fits(q)
  BY WritesFacts DEF ListsKept
<1>3. \A s \in Sends, k \in {"own", "peer"} : <<k, s>> \in Writes /\ ~On(<<k, s>>, d)
  BY DEF Writes, Kinds, On
<1>4. ASSUME NEW r \in Seq(Writes), Fits(r), NEW s \in Sends, NEW k \in {"own", "peer"}
      PROVE  Fits(r \o <<<<k, s>>>>)
  BY <1>3, <1>4, LinkedOther
<1>5. ASSUME NEW s \in Sends, NEW k \in {"own", "peer"}, q # <<>>, Head(q) = <<k, s>>
      PROVE  Tail(q) \in Seq(Writes) /\ Fits(Tail(q))
  <2>1. ~On(Head(q), d) /\ Tail(q) \in Seq(Writes)
    BY <1>2, <1>3, <1>5, TailLength
  <2> QED
    BY <1>2, <1>5, <2>1, LinkedTail
<1> HIDE DEF Fits, q
<1>6. Fits(outbox'[u])
  <2>1. CASE outbox'[u] = q
    BY <1>2, <2>1
  <2>2. ASSUME NEW s \in Sends, NEW k \in {"own", "peer"}, outbox'[u] = q \o <<<<k, s>>>>
        PROVE  Fits(outbox'[u])
    BY <1>2, <1>4, <2>2
  <2>3. ASSUME NEW s \in Sends, NEW k \in {"own", "peer"}, q # <<>>, Head(q) = <<k, s>>,
               outbox'[u] = Tail(q) \/ \E r \in Sends : outbox'[u] = Tail(q) \o <<<<"peer", r>>>>
        PROVE  Fits(outbox'[u])
    BY <1>4, <1>5, <2>3
  <2> QED
    BY <2>1, <2>2, <2>3 DEF q
<1> QED
  BY <1>6 DEF Fits, q

(* A client adds a name to the list that it has read.                      *)
LEMMA Adding ==
  ASSUME TypeOK, ListsKept, TypeOK', UNCHANGED chats,
         NEW s \in Sends, NEW w \in Writes, w[2] = s, NEW d \in Users, On(w, d),
         NEW list \in SUBSET Users, Reads(from[s], d, list),
         ListOf(w) = {}, ListOf(w)' = list \union {Adds(w)},
         \A x \in Writes : x # w => ListOf(x)' = ListOf(x),
         IF Adds(w) \in list THEN UNCHANGED outbox ELSE Issue(from[s], <<w>>)
  PROVE  /\ \A u, e \in Users :
              /\ Linked(outbox'[u], e, chats'[e], Lists', LostIn(u, e)')
              /\ \A v : Told(u, e, v) => Told(u, e, v)'
         /\ Told(from[s], d, Adds(w))'
<1> DEFINE c == from[s]
           wr == Lists
           wrs == Lists'
<1>1. /\ c \in Users /\ wrs[w] = list \union {Adds(w)}
      /\ \A x \in Writes : x # w => wrs[x] = wr[x]
  BY SendFacts, WritesFacts DEF Lists
<1>2. \A u \in Users : ~Holds(outbox[u], w)
  BY DEF ListsKept, On
<1>3. \A u \in Users : \A i \in 1..Len(outbox[u]) : wrs[outbox[u][i]] = wr[outbox[u][i]]
  BY <1>1, <1>2, WritesFacts
<1>4. \A u, e \in Users : LostIn(u, e) \subseteq LostIn(u, e)'
  BY DEF LostIn
<1>5. \A e \in Users : On(w, e) <=> e = d
  BY DEF On
<1> HIDE DEF wrs, wr
<1>6. ASSUME NEW u \in Users, NEW e \in Users
      PROVE  /\ Linked(outbox[u], e, chats[e], wrs, LostIn(u, e)')
             /\ \A v : Shown(outbox[u], e, chats[e], wr, v) <=> Shown(outbox[u], e, chats[e], wrs, v)
  <2>1. Linked(outbox[u], e, chats[e], wr, LostIn(u, e))
    BY DEF ListsKept, wr
  <2>2. Linked(outbox[u], e, chats[e], wrs, LostIn(u, e)')
    BY <1>3, <1>4, <2>1, LinkedSame
  <2> QED
    BY <1>3, <2>2 DEF Shown, OnAt
<1>7. ReadsIn(outbox[c], d, chats[d], wrs, list)
  <2>1. ReadsIn(outbox[c], d, chats[d], wr, list)
    BY <1>1, ReadsInQueue DEF wr
  <2> QED
    BY <1>1, <1>3, <2>1 DEF ReadsIn, OnAt
<1>8. CASE Adds(w) \in list
  <2>1. Shown(outbox[c], d, chats[d], wrs, Adds(w))
    BY <1>7, <1>8 DEF ReadsIn, Shown
  <2> QED
    BY <1>4, <1>6, <1>8, <2>1 DEF Told, wr, wrs
<1>9. CASE Adds(w) \notin list
  <2>1. \A u \in Users : outbox'[u] = IF u = c THEN outbox[u] \o <<w>> ELSE outbox[u]
    BY <1>9 DEF Issue, TypeOK
  <2>2. \A u \in Users : outbox[u] \in Seq(Writes)
    BY WritesFacts
  <2>3. ASSUME NEW u \in Users, NEW e \in Users
        PROVE  /\ Linked(outbox'[u], e, chats[e], wrs, LostIn(u, e)')
               /\ \A v : Shown(outbox[u], e, chats[e], wrs, v) => Shown(outbox'[u], e, chats[e], wrs, v)
    <3>1. CASE u # c
      BY <1>6, <2>1, <3>1
    <3>2. CASE u = c /\ e # d
      BY <1>5, <1>6, <2>1, <2>2, <3>2, LinkedOther
    <3>3. CASE u = c /\ e = d
      BY <1>1, <1>6, <1>7, <2>1, <2>2, <3>3, LinkedAdd
    <3> QED
      BY <3>1, <3>2, <3>3
  <2>4. Shown(outbox'[c], d, chats[d], wrs, Adds(w))
    BY <1>1, <1>6, <1>7, <2>1, <2>2, LinkedAdd
  <2> QED
    BY <1>4, <1>6, <2>3, <2>4 DEF Told, wr, wrs
<1> QED
  BY <1>8, <1>9

LEMMA AddingQueues ==
  ASSUME TypeOK, ListsKept,
         NEW s \in Sends, NEW w \in Writes, w[2] = s,
         NEW list, ListOf(w)' = list \union {Adds(w)},
         \A x \in Writes : x # w => ListOf(x)' = ListOf(x),
         IF Adds(w) \in list THEN UNCHANGED outbox ELSE Issue(from[s], <<w>>)
  PROVE  \A u \in Users : \A x \in Writes : Holds(outbox'[u], x) =>
           /\ from[x[2]] = u
           /\ x[1] \in {"ownList", "peerList"} => Adds(x) \in ListOf(x)'
<1>1. \A u \in Users : \A x \in Writes : Holds(outbox'[u], x) =>
         Holds(outbox[u], x) \/ (u = from[s] /\ x = w)
  <2>1. CASE outbox' = outbox
    BY <2>1
  <2>2. CASE Issue(from[s], <<w>>)
    <3>1. \A u \in Users : outbox'[u] = IF u = from[s] THEN outbox[u] \o <<w>> ELSE outbox[u]
      BY <2>2 DEF Issue, TypeOK
    <3> QED
      BY <3>1, WritesFacts, QueueAdd
  <2> QED
    BY <2>1, <2>2
<1> SUFFICES ASSUME NEW u \in Users, NEW x \in Writes, Holds(outbox'[u], x)
             PROVE  /\ from[x[2]] = u
                    /\ x[1] \in {"ownList", "peerList"} => Adds(x) \in ListOf(x)'
  OBVIOUS
<1>2. CASE x = w
  BY <1>1, <1>2 DEF ListsKept
<1>3. CASE x # w
  BY <1>1, <1>3 DEF ListsKept
<1> QED
  BY <1>2, <1>3

(* A list is written: the other clients lose what it lacks.                *)
LEMMA Applying ==
  ASSUME TypeOK, ListsKept, TypeOK', UNCHANGED lists,
         NEW w \in Writes, w[1] \in {"ownList", "peerList"}, NEW d \in Users, On(w, d),
         NEW c \in Users, outbox[c] # <<>>, Head(outbox[c]) = w,
         outbox' = [outbox EXCEPT ![c] = Tail(@)],
         chats' = [chats EXCEPT ![d] = ListOf(w)]
  PROVE  \A u, e \in Users :
           /\ Linked(outbox'[u], e, chats'[e], Lists', LostIn(u, e)')
           /\ \A v : Told(u, e, v) => Told(u, e, v)'
<1>1. Lists' = Lists /\ \A u, e : LostIn(u, e)' = LostIn(u, e)
  BY DEF Lists, LostIn, ListOf, lists
<1>2. \A e \in Users : On(w, e) <=> e = d
  BY DEF On
<1>3. \A e \in Users : chats'[e] = IF On(w, e) THEN Lists[w] ELSE chats[e]
  BY <1>2, WritesFacts DEF TypeOK
<1>4. /\ from[w[2]] = c /\ Adds(w) \in ListOf(w)
      /\ \A u \in Users : outbox'[u] = IF u = c THEN Tail(outbox[u]) ELSE outbox[u]
  BY WritesFacts, QueueTail DEF ListsKept, TypeOK
<1> SUFFICES ASSUME NEW u \in Users, NEW e \in Users
             PROVE  /\ Linked(outbox'[u], e, chats'[e], Lists, LostIn(u, e))
                    /\ \A v : Shown(outbox[u], e, chats[e], Lists, v)
                          => Shown(outbox'[u], e, chats'[e], Lists, v) \/ v \in LostIn(u, e)
  BY <1>1 DEF Told
<1>5. outbox[u] \in Seq(Writes) /\ Linked(outbox[u], e, chats[e], Lists, LostIn(u, e))
  BY WritesFacts DEF ListsKept
<1>6. CASE u = c
  BY <1>3, <1>4, <1>5, <1>6, LinkedTail
<1>7. CASE u # c
  <2>1. chats[e] \subseteq chats'[e] \union LostIn(u, e)
    <3> SUFFICES ASSUME NEW v \in chats[e], v \notin chats'[e] PROVE v \in LostIn(u, e)
      OBVIOUS
    <3>1. On(w, e) /\ v \notin ListOf(w) /\ v \in Users
      BY <1>3, WritesFacts
    <3> QED
      BY <1>4, <1>7, <3>1 DEF LostIn
  <2>2. Linked(outbox[u], e, chats'[e], Lists, LostIn(u, e))
    BY <1>5, <2>1, LinkedSame
  <2> QED
    BY <1>4, <1>7, <2>1, <2>2 DEF Shown
<1> QED
  BY <1>6, <1>7

(* The queue of a client is emptied: it reads what is there again, and     *)
(* that has what the client added, but for the sends that relied on the    *)
(* queue.                                                                  *)
LEMMA Killing ==
  ASSUME TypeOK, ListsKept, TypeOK', NEW c \in Users, Kill(c)
  PROVE  /\ \A u, e \in Users : Linked(outbox'[u], e, chats'[e], Lists', LostIn(u, e)')
         /\ \A s \in Sends, e \in Users : \A v :
              /\ Told(from[s], e, v)
              /\ s \notin UnderWay(c)
              /\ phase[s] = "done" /\ <<e, v>> \in {<<from[s], to[s]>>, <<to[s], from[s]>>}
              => Told(from[s], e, v)'
<1>1. Lists' = Lists /\ \A u, e : LostIn(u, e)' = LostIn(u, e)
  BY DEF Kill, server, lists, Lists, LostIn, ListOf
<1>2. \A e : OnAt(<<>>, e) = {}
  BY DEF OnAt
<1>3. CASE outbox' = outbox
  BY <1>1, <1>3 DEF Kill, server, ListsKept, Told
<1>4. CASE outbox' = [outbox EXCEPT ![c] = <<>>]
  <2>1. \A u \in Users : outbox'[u] = IF u = c THEN <<>> ELSE outbox[u]
    BY <1>4 DEF TypeOK
  <2>2. UNCHANGED chats
    BY DEF Kill, server
  <2>3. \A u, e \in Users : Linked(outbox'[u], e, chats'[e], Lists', LostIn(u, e)')
    BY <1>1, <1>2, <2>1, <2>2 DEF ListsKept, Linked
  <2>4. ASSUME NEW s \in Sends, NEW e \in Users, NEW v, Told(from[s], e, v), s \notin UnderWay(c),
               phase[s] = "done", <<e, v>> \in {<<from[s], to[s]>>, <<to[s], from[s]>>}
        PROVE  Told(from[s], e, v)'
    <3>1. CASE from[s] # c
      BY <1>1, <2>1, <2>2, <2>4, <3>1, SendFacts DEF Told
    <3>2. CASE from[s] = c
      <4>1. v \in chats[e] \/ v \in LostIn(c, e) \/ \E i \in OnAt(outbox[c], e) : Adds(outbox[c][i]) = v
        BY <2>4, <3>2, WritesFacts, LinkedShown DEF Told, ListsKept
      <4>2. ASSUME NEW i \in OnAt(outbox[c], e), Adds(outbox[c][i]) = v PROVE FALSE
        <5>1. /\ i \in 1..Len(outbox[c]) /\ On(outbox[c][i], e) /\ outbox[c][i][2] \in Sends
              /\ from[outbox[c][i][2]] = c
          BY WritesFacts DEF OnAt, ListsKept
        <5>2. from[s] # to[s] /\ from[outbox[c][i][2]] # to[outbox[c][i][2]]
          BY <5>1, SendAssumption
        <5>3. Page(outbox[c][i][2]) = Page(s)
          BY <2>4, <3>2, <4>2, <5>1, <5>2 DEF On, Adds, Page
        <5>4. i \in DOMAIN outbox[c]
          BY <5>1, WritesFacts
        <5> QED
          BY <2>4, <3>2, <5>3, <5>4 DEF UnderWay
      <4>3. v \in chats[e] => Shown(<<>>, e, chats[e], Lists, v)
        BY <1>2 DEF Shown
      <4> QED
        BY <1>1, <2>1, <2>2, <3>2, <4>1, <4>2, <4>3 DEF Told
    <3> QED
      BY <3>1, <3>2
  <2> QED
    BY <2>3, <2>4
<1> QED
  BY <1>3, <1>4 DEF Kill

LEMMA ListsKeptStep == ASSUME IInv, [Next]_vars PROVE ListsKept'
<1>0. TypeOK /\ TypeOK' /\ ListsKept
  BY TypeStep DEF IInv
<1> DEFINE Links == \A u, e \in Users : Linked(outbox[u], e, chats[e], Lists, LostIn(u, e))
           Keeps == \A u, e \in Users : \A v : Told(u, e, v) => Told(u, e, v)'
           Fetches == \A s \in Sends :
             /\ phase[s] \in {"idle", "own", "peer", "getOwn"} => ownList[s] = {}
             /\ phase[s] \in {"idle", "own", "peer", "getOwn", "getPeer"} => peerList[s] = {}
           Queues == \A u \in Users : \A w \in Writes : Holds(outbox[u], w) =>
             /\ from[w[2]] = u
             /\ w[1] \in {"ownList", "peerList"} => Adds(w) \in ListOf(w)
           Tells == \A s \in Sends :
             /\ phase[s] \in {"getPeer", "done"} => Told(from[s], from[s], to[s])
             /\ phase[s] = "done" => Told(from[s], to[s], from[s])
<1>1. ASSUME Links', Fetches', Queues', Tells' PROVE ListsKept'
  BY <1>1 DEF ListsKept
<1>2. Links /\ Fetches /\ Queues /\ Tells
  BY <1>0 DEF ListsKept
<1>4. ASSUME UNCHANGED <<chats, ownList, peerList, phase, outbox>> PROVE ListsKept'
  <2>1. \A w : ListOf(w)' = ListOf(w)
    BY <1>4 DEF ListOf
  <2>2. Lists' = Lists
    BY <2>1 DEF Lists
  <2>3. \A u, e : LostIn(u, e)' = LostIn(u, e)
    BY <2>1 DEF LostIn
  <2>4. \A u, e, v : Told(u, e, v)' <=> Told(u, e, v)
    BY <1>4, <2>2, <2>3 DEF Told
  <2>5. Links' /\ Tells'
    BY <1>2, <1>4, <2>2, <2>3, <2>4
  <2>6. Fetches' /\ Queues'
    BY <1>2, <1>4, <2>1
  <2> QED
    BY <1>1, <2>5, <2>6
<1>5. ASSUME NEW s \in Sends, Tap(s) \/ AddOwn(s) \/ AddPeer(s) PROVE ListsKept'
  <2>1. UNCHANGED <<chats, ownList, peerList>>
    BY <1>5 DEF Tap, AddOwn, AddPeer, server, lists
  <2>2. \A u \in Users :
           \/ outbox'[u] = outbox[u]
           \/ \E r \in Sends, k \in {"own", "peer"} :
                \/ outbox'[u] = outbox[u] \o <<<<k, r>>>>
                \/ /\ outbox[u] # <<>> /\ Head(outbox[u]) = <<k, r>>
                   /\ outbox'[u] = Tail(outbox[u])
                \/ /\ outbox[u] # <<>> /\ Head(outbox[u]) = <<k, r>>
                   /\ \E x \in Sends : outbox'[u] = Tail(outbox[u]) \o <<<<"peer", x>>>>
    <3>1. CASE Tap(s)
      BY <1>0, <3>1, SendFacts DEF Tap, Issue, TypeOK
    <3>2. CASE AddOwn(s) \/ AddPeer(s)
      <4>1. PICK k \in {"own", "peer"} : Applies(s, k) /\ (Applied(s, <<>>) \/ Applied(s, <<<<"peer", s>>>>))
        BY <3>2 DEF AddOwn, AddPeer
      <4>2. \A q \in Seq(Writes) : q # <<>> => Tail(q) \o <<>> = Tail(q)
        BY QueueTail, QueueAdd
      <4>3. outbox[from[s]] # <<>> /\ Head(outbox[from[s]]) = <<k, s>>
        BY <4>1 DEF Applies
      <4>4. \A u \in Users : u # from[s] => outbox'[u] = outbox[u]
        BY <1>0, <4>1 DEF Applied, TypeOK
      <4>5. \/ outbox'[from[s]] = Tail(outbox[from[s]])
            \/ outbox'[from[s]] = Tail(outbox[from[s]]) \o <<<<"peer", s>>>>
        BY <1>0, <4>1, <4>2, <4>3, SendFacts, WritesFacts DEF Applied, TypeOK
      <4> QED
        BY <4>3, <4>4, <4>5
    <3> QED
      BY <1>5, <3>1, <3>2
  <2>3. Links' /\ Keeps
    BY <1>0, <2>1, <2>2, Passing
  <2>4. \A u \in Users : \A w \in Writes : Holds(outbox'[u], w) =>
           Holds(outbox[u], w) \/ (u = from[s] /\ w \in {<<"own", s>>, <<"peer", s>>})
    <3>1. CASE Tap(s)
      <4>1. \A u \in Users : outbox'[u] = IF u = from[s] THEN outbox[u] \o <<<<"own", s>>>> ELSE outbox[u]
        BY <1>0, <3>1 DEF Tap, Issue, TypeOK
      <4>2. <<"own", s>> \in Writes
        BY SendFacts DEF Kinds
      <4>3. \A w : Holds(outbox'[from[s]], w) => Holds(outbox[from[s]], w) \/ w = <<"own", s>>
        <5> DEFINE k == <<"own", s>>
        <5> HIDE DEF k
        <5>1. k \in Writes /\ outbox'[from[s]] = outbox[from[s]] \o <<k>>
          BY <4>1, <4>2, SendFacts DEF k
        <5>2. \A w : Holds(outbox'[from[s]], w) => Holds(outbox[from[s]], w) \/ w = k
          BY <1>0, <5>1, WritesFacts, QueueAdd, SendFacts
        <5> QED
          BY <5>2 DEF k
      <4> QED
        BY <4>1, <4>3
    <3>2. CASE AddOwn(s) \/ AddPeer(s)
      <4>1. PICK k \in {"own", "peer"} : Applies(s, k) /\ (Applied(s, <<>>) \/ Applied(s, <<<<"peer", s>>>>))
        BY <3>2 DEF AddOwn, AddPeer
      <4>2. \A u \in Users : u # from[s] => outbox'[u] = outbox[u]
        BY <1>0, <4>1 DEF Applied, TypeOK
      <4> QED
        BY <1>0, <4>1, <4>2, Answers, AnswersOwn
    <3> QED
      BY <1>5, <3>1, <3>2
  <2>5. Queues'
    <3> SUFFICES ASSUME NEW u \in Users, NEW w \in Writes, Holds(outbox'[u], w)
                 PROVE  /\ from[w[2]] = u
                        /\ w[1] \in {"ownList", "peerList"} => Adds(w) \in ListOf(w)
      BY <2>1 DEF ListOf
    <3> QED
      BY <1>2, <2>4
  <2>6. /\ \A r \in Sends : r # s => phase'[r] = phase[r]
        /\ phase'[s] = phase[s] \/ (phase'[s] \in {"own", "peer", "getOwn"} /\ phase[s] \in {"idle", "own", "peer"})
    BY <1>5, <1>0 DEF Tap, AddOwn, AddPeer, TypeOK
  <2>7. Fetches' /\ Tells'
    BY <1>2, <2>1, <2>3, <2>6, SendFacts
  <2> QED
    BY <1>1, <2>3, <2>5, <2>7
<1>6. ASSUME NEW s \in Sends, GetOwn(s) PROVE ListsKept'
  <2> DEFINE w == <<"ownList", s>>
  <2>1. PICK list \in SUBSET Users :
          /\ Reads(from[s], from[s], list)
          /\ ownList' = [ownList EXCEPT ![s] = list \union {to[s]}]
          /\ IF to[s] \in list THEN UNCHANGED outbox ELSE Issue(from[s], <<<<"ownList", s>>>>)
    BY <1>6 DEF GetOwn
  <2>2. /\ w \in Writes /\ w[1] = "ownList" /\ w[2] = s /\ On(w, from[s]) /\ Adds(w) = to[s]
        /\ from[s] \in Users /\ ListOf(w) = ownList[s] /\ ListOf(w)' = ownList'[s]
    BY SendFacts DEF On, Adds, ListOf, Kinds
  <2>3. /\ phase[s] = "getOwn" /\ phase' = [phase EXCEPT ![s] = "getPeer"]
        /\ UNCHANGED chats /\ peerList' = peerList
    BY <1>6 DEF GetOwn, server
  <2>4. \A r \in Sends : ownList'[r] = IF r = s THEN list \union {to[s]} ELSE ownList[r]
    BY <1>0, <2>1 DEF TypeOK
  <2>5. \A x \in Writes : x # w => ListOf(x)' = ListOf(x)
    BY <1>0, <2>3, <2>4, WritesFacts DEF ListOf
  <2>6. ownList[s] = {} /\ (Adds(w) \notin list => Issue(from[s], <<w>>)) /\ (Adds(w) \in list => UNCHANGED outbox)
    BY <1>2, <2>1, <2>2, <2>3
  <2> HIDE DEF w
  <2>7. Links' /\ Keeps /\ Queues' /\ Told(from[s], from[s], Adds(w))'
    BY <1>0, <2>1, <2>2, <2>3, <2>4, <2>5, <2>6, Adding, AddingQueues
  <2>8. \A r \in Sends : phase'[r] = IF r = s THEN "getPeer" ELSE phase[r]
    BY <1>0, <2>3 DEF TypeOK
  <2>9. Fetches' /\ Tells'
    BY <1>2, <2>2, <2>3, <2>4, <2>7, <2>8, SendFacts
  <2> QED
    BY <1>1, <2>7, <2>9
<1>10. ASSUME NEW s \in Sends, GetPeer(s) PROVE ListsKept'
  <2> DEFINE w == <<"peerList", s>>
  <2>1. PICK list \in SUBSET Users :
          /\ Reads(from[s], to[s], list)
          /\ peerList' = [peerList EXCEPT ![s] = list \union {from[s]}]
          /\ IF from[s] \in list THEN UNCHANGED outbox ELSE Issue(from[s], <<<<"peerList", s>>>>)
    BY <1>10 DEF GetPeer
  <2>2. /\ w \in Writes /\ w[1] = "peerList" /\ w[2] = s /\ On(w, to[s]) /\ Adds(w) = from[s]
        /\ to[s] \in Users /\ ListOf(w) = peerList[s] /\ ListOf(w)' = peerList'[s]
    BY SendFacts DEF On, Adds, ListOf, Kinds
  <2>3. /\ phase[s] = "getPeer" /\ phase' = [phase EXCEPT ![s] = "done"]
        /\ UNCHANGED chats /\ ownList' = ownList
    BY <1>10 DEF GetPeer, server
  <2>4. \A r \in Sends : peerList'[r] = IF r = s THEN list \union {from[s]} ELSE peerList[r]
    BY <1>0, <2>1 DEF TypeOK
  <2>5. \A x \in Writes : x # w => ListOf(x)' = ListOf(x)
    <3> SUFFICES ASSUME NEW x \in Writes, x # w PROVE ListOf(x)' = ListOf(x)
      OBVIOUS
    <3>1. x[2] \in Sends /\ x = <<x[1], x[2]>> /\ x[1] \in Kinds
      BY <1>0, WritesFacts
    <3>2. CASE x[1] = "ownList"
      BY <2>3, <3>2 DEF ListOf
    <3>3. CASE x[1] # "ownList" /\ x[2] # s
      BY <2>4, <3>1, <3>3 DEF ListOf
    <3>4. CASE x[1] # "ownList" /\ x[2] = s
      BY <3>1, <3>4 DEF ListOf
    <3> QED
      BY <3>2, <3>3, <3>4
  <2>6. peerList[s] = {} /\ (Adds(w) \notin list => Issue(from[s], <<w>>)) /\ (Adds(w) \in list => UNCHANGED outbox)
    BY <1>2, <2>1, <2>2, <2>3
  <2> HIDE DEF w
  <2>7. Links' /\ Keeps /\ Queues' /\ Told(from[s], to[s], Adds(w))'
    BY <1>0, <2>1, <2>2, <2>3, <2>4, <2>5, <2>6, Adding, AddingQueues
  <2>8. \A r \in Sends : phase'[r] = IF r = s THEN "done" ELSE phase[r]
    BY <1>0, <2>3 DEF TypeOK
  <2>9. Fetches' /\ Tells'
    BY <1>2, <2>2, <2>3, <2>4, <2>7, <2>8, SendFacts
  <2> QED
    BY <1>1, <2>7, <2>9
<1>7. ASSUME NEW s \in Sends, WriteOwnList(s) \/ WritePeerList(s) PROVE ListsKept'
  <2> DEFINE w == IF WriteOwnList(s) THEN <<"ownList", s>> ELSE <<"peerList", s>>
             d == IF WriteOwnList(s) THEN from[s] ELSE to[s]
  <2>1. /\ w \in Writes /\ w[1] \in {"ownList", "peerList"} /\ d \in Users /\ On(w, d)
        /\ chats' = [chats EXCEPT ![d] = ListOf(w)]
    BY <1>7, SendFacts DEF WriteOwnList, WritePeerList, ListOf, On, Kinds
  <2>2. /\ outbox[from[s]] # <<>> /\ Head(outbox[from[s]]) = w
        /\ Applied(s, <<>>) /\ Applies(s, w[1])
        /\ UNCHANGED lists /\ UNCHANGED phase
    BY <1>7 DEF WriteOwnList, WritePeerList, Applies
  <2> HIDE DEF w, d
  <2>3. outbox' = [outbox EXCEPT ![from[s]] = Tail(@)]
    <3>1. outbox[from[s]] \in Seq(Writes)
      BY <1>0, WritesFacts, SendFacts
    <3>2. Tail(outbox[from[s]]) \in Seq(Writes)
      BY <2>2, <3>1, QueueTail
    <3>3. Tail(outbox[from[s]]) \o <<>> = Tail(outbox[from[s]])
      BY <2>1, <3>2, QueueAdd
    <3> QED
      BY <2>2, <3>3 DEF Applied
  <2>4. Links' /\ Keeps
    BY <1>0, <2>1, <2>2, <2>3, Applying, SendFacts
  <2>5. \A u \in Users : \A x : Holds(outbox'[u], x) => Holds(outbox[u], x)
    BY <1>0, <2>2, Answers
  <2>6. Queues' /\ Fetches' /\ Tells'
    BY <1>2, <2>2, <2>4, <2>5, SendFacts DEF lists, ListOf
  <2> QED
    BY <1>1, <2>4, <2>6
<1>8. ASSUME NEW c \in Users, Kill(c) PROVE ListsKept'
  <2>1. \A u \in Users : \A x : Holds(outbox'[u], x) => Holds(outbox[u], x)
    BY <1>0, <1>8, Kills
  <2>2. UNCHANGED lists /\ \A s \in Sends : phase'[s] = IF s \in UnderWay(c) THEN "killed" ELSE phase[s]
    BY <1>8 DEF Kill
  <2>3. Queues' /\ Fetches'
    BY <1>2, <2>1, <2>2 DEF lists, ListOf
  <2>4. ASSUME NEW s \in Sends
        PROVE  /\ phase'[s] \in {"getPeer", "done"} => Told(from[s], from[s], to[s])'
               /\ phase'[s] = "done" => Told(from[s], to[s], from[s])'
    <3>1. CASE phase'[s] \in {"getPeer", "done"} /\ from[s] = c
      <4>1. s \notin UnderWay(c) /\ phase[s] = "done" /\ phase'[s] = "done"
        BY <2>2, <3>1 DEF UnderWay
      <4>2. Told(from[s], from[s], to[s]) /\ Told(from[s], to[s], from[s])
        BY <1>2, <4>1
      <4> QED
        BY <1>0, <1>8, <4>1, <4>2, Killing, SendFacts
    <3>2. CASE phase'[s] \in {"getPeer", "done"} /\ from[s] # c
      <4>1. phase[s] = phase'[s]
        BY <2>2, <3>2
      <4>2. outbox'[from[s]] = outbox[from[s]] /\ UNCHANGED <<chats, lists>>
        BY <1>0, <1>8, <3>2, SendFacts DEF Kill, server, TypeOK
      <4>3. Lists' = Lists /\ \A u, e : LostIn(u, e)' = LostIn(u, e)
        BY <4>2 DEF lists, Lists, LostIn, ListOf
      <4>4. \A e, v : Told(from[s], e, v) => Told(from[s], e, v)'
        BY <4>2, <4>3 DEF Told
      <4> QED
        BY <1>2, <4>1, <4>4
    <3> QED
      BY <3>1, <3>2
  <2>5. Links'
    BY <1>0, <1>8, Killing
  <2> QED
    BY <1>1, <2>3, <2>4, <2>5
<1>9. ASSUME (\E p \in Pages, t \in Texts \union {Empty} : Type(p, t)) \/ UNCHANGED vars
      PROVE  ListsKept'
  <2>1. UNCHANGED <<chats, ownList, peerList, phase, outbox>>
    BY <1>9 DEF Type, vars, server, lists
  <2> QED
    BY <1>4, <2>1
<1> QED
  BY <1>5, <1>6, <1>7, <1>8, <1>9, <1>10 DEF Next, Apply

LEMMA Inductive == Spec => []IInv
<1>1. Init => IInv
  <2> SUFFICES ASSUME Init PROVE IInv
    OBVIOUS
  <2>1. TypeOK
    BY DEF Init, TypeOK, Phases
  <2>2. ListsBacked
    BY SendFacts DEF Init, ListsBacked
  <2>3. TextsAgree
    BY SendFacts DEF Init, TextsAgree, PeerIssued, Holds
  <2>4. ListsKept
    <3>1. \A u \in Users : outbox[u] = <<>> /\ \A w : ~Holds(outbox[u], w)
      <4>1. \A w : ~Holds(<<>>, w)
        BY DEF Holds
      <4> QED
        BY <4>1 DEF Init
    <3>2. \A d : OnAt(<<>>, d) = {}
      BY DEF OnAt
    <3> QED
      BY <3>1, <3>2, SendFacts DEF Init, ListsKept, Linked
  <2> QED
    BY <2>1, <2>2, <2>3, <2>4 DEF IInv
<1>2. IInv /\ [Next]_vars => IInv'
  BY TypeStep, ListsStep, TextsStep, ListsKeptStep DEF IInv
<1> QED
  BY <1>1, <1>2, PTL DEF Spec

-----------------------------------------------------------------------------
(* No listed conversation is empty, for either user.                       *)
THEOREM ListedIsBacked == Spec => []ListedHasMessages
<1>1. IInv => ListedHasMessages
  BY DEF IInv, ListsBacked, Backed, ListedHasMessages
<1> QED
  BY <1>1, Inductive, PTL

(* The two copies differ only if the field was changed in between.         *)
THEOREM TextsAreTheSame == Spec => []SameText
<1>1. IInv => SameText
  BY DEF IInv, TextsAgree, PeerIssued, SameText
<1> QED
  BY <1>1, Inductive, PTL

(* Once all writes are done, a finished send's conversation is missing     *)
(* from a list only if another client had fetched that list without it.    *)
THEOREM ListsAreKept == Spec => []ListLostOnlyToOthers
<1>1. ASSUME IInv, Quiet, NEW s \in Sends, NEW e \in Users, NEW v, Told(from[s], e, v)
      PROVE  v \in chats[e] \/ LostToAnother(s, e, v)
  <2>1. outbox[from[s]] = <<>> /\ OnAt(<<>>, e) = {}
    BY <1>1, SendFacts DEF Quiet, OnAt
  <2>2. CASE v \in LostIn(from[s], e)
    <3>1. PICK w \in Writes : /\ On(w, e) /\ from[w[2]] # from[s]
                              /\ ListOf(w) # {} /\ v \notin ListOf(w)
      BY <2>2 DEF LostIn
    <3>2. w[2] \in Sends
      BY <3>1 DEF Writes
    <3> QED
      BY <3>1, <3>2 DEF On, ListOf, LostToAnother
  <2>3. CASE Shown(outbox[from[s]], e, chats[e], Lists, v)
    BY <2>1, <2>3 DEF Shown
  <2> QED
    BY <1>1, <2>2, <2>3 DEF Told
<1>2. IInv => ListLostOnlyToOthers
  BY <1>1, SendFacts DEF ListLostOnlyToOthers, IInv, ListsKept
<1> QED
  BY <1>2, Inductive, PTL

-----------------------------------------------------------------------------
(* ReadReceipts: the inductive invariant                                   *)

WasShown(m) == m \in seen \/ receiver(m) \in news \/ receiver(m) \in hurried

(* Who has the page open has been told of every message in the box that it *)
(* shows.                                                                  *)
IsTold ==
  \A m \in Messages : sent[m] # "no" /\ receiver(m) \in open => m \in seen \/ receiver(m) \in news

(* Calls go on after the page only if it was left in a hurry; what they    *)
(* find is there and was shown.                                            *)
CallsOnOpen == \A c \in getting : c[1] \in open \union hurried
FoundFits == \A c \in Calls : \A m \in left[c] : receiver(m) = c[1] /\ m \in There /\ WasShown(m)
ReadFits == \A m \in read : m \in There /\ WasShown(m)

(* What an open page has shown is marked, or some call will find or mark   *)
(* it, unless it was shown too early or missed by a call that failed.      *)
WillBeRead(m) ==
  \/ m \in read \union late \union missed
  \/ Calling(receiver(m))
  \/ \E r \in Runs[receiver(m)] : m \in left[<<receiver(m), r>>]
SeenIsMarked == \A m \in seen \cap There : receiver(m) \in open => WillBeRead(m)

ReceiptsIInv ==
  /\ ReceiptsTypeOK /\ begun \subseteq There
  /\ IsTold /\ CallsOnOpen /\ FoundFits /\ ReadFits /\ SeenIsMarked

LEMMA ReceiverIsOther ==
  /\ \A u \in Pair : Other(u) \in Pair /\ Other(u) # u
  /\ \A m \in Messages : receiver(m) \in Pair /\ receiver(m) # sender[m] /\ sender[m] \in Pair
<1>1. ASSUME NEW u \in Pair PROVE Other(u) \in Pair /\ Other(u) # u
  <2>1. PICK v \in Pair : Pair = {u, v} /\ u # v
    BY PairAssumption
  <2>. QED BY <2>1 DEF Other
<1>. QED BY <1>1, FromAssumption DEF receiver

LEMMA CallOf ==
  /\ \A u \in Pair : \A r \in Runs[u] : <<u, r>> \in Calls /\ <<u, r>>[1] = u
  /\ \A c \in Calls : c[1] \in Pair /\ c[2] \in Runs[c[1]] /\ c = <<c[1], c[2]>>
BY DEF Calls

(* A call of markAllAsRead begins.                                         *)
LEMMA Marking ==
  ASSUME ReceiptsTypeOK, NEW u \in Pair, Mark(u)
  PROVE  /\ getting' \subseteq Calls /\ getting \subseteq getting' /\ UNCHANGED left
         /\ \A c \in getting' : c \in getting \/ c[1] = u
         /\ Calling(u)' /\ \A v \in Pair : Calling(v) => Calling(v)'
<1>1. PICK r \in Runs[u] : getting' = getting \union {<<u, r>>} /\ UNCHANGED left
  BY DEF Mark
<1>. QED BY <1>1, CallOf DEF Calling, ReceiptsTypeOK

(* The page is told of a change.                                           *)
LEMMA Telling ==
  ASSUME ReceiptsTypeOK, NEW u \in Pair, Tell(u)
  PROVE  /\ news \subseteq news' /\ news' \subseteq open
         /\ u \in open => u \in news'
BY DEF Tell, ReceiptsTypeOK

LEMMA AddOwnCopyStep ==
  ASSUME ReceiptsIInv, NEW m \in Messages, AddOwnCopy(m) PROVE ReceiptsIInv'
<1>1. /\ sent[m] = "no" /\ sent' = [sent EXCEPT ![m] = "own"] /\ Tell(receiver(m))
      /\ UNCHANGED <<read, open, asked, seen, getting, left, begun, late, missed, hurried>>
  BY DEF AddOwnCopy, calls
<1>2. news \subseteq news' /\ news' \subseteq open /\ (receiver(m) \in open => receiver(m) \in news')
  BY <1>1, Telling, ReceiverIsOther DEF ReceiptsIInv
<1>3. UNCHANGED There /\ \A n \in Messages : n # m => sent'[n] = sent[n]
  BY <1>1 DEF ReceiptsIInv, ReceiptsTypeOK, There
<1>4. \A n \in Messages : WasShown(n) => WasShown(n)'
  BY <1>1, <1>2 DEF WasShown, receiver
<1>5. ReceiptsTypeOK'
  BY <1>1, <1>2 DEF ReceiptsIInv, ReceiptsTypeOK
<1>6. IsTold'
  BY <1>1, <1>2, <1>3 DEF ReceiptsIInv, IsTold, receiver
<1>7. FoundFits' /\ ReadFits'
  BY <1>1, <1>3, <1>4 DEF ReceiptsIInv, ReceiptsTypeOK, FoundFits, ReadFits, receiver
<1>8. CallsOnOpen' /\ SeenIsMarked' /\ (begun \subseteq There)'
  BY <1>1, <1>3 DEF ReceiptsIInv, CallsOnOpen, SeenIsMarked, WillBeRead, Calling, receiver
<1>. QED BY <1>5, <1>6, <1>7, <1>8 DEF ReceiptsIInv

LEMMA AddPeerCopyStep ==
  ASSUME ReceiptsIInv, NEW m \in Messages, AddPeerCopy(m) PROVE ReceiptsIInv'
<1>1. /\ sent[m] = "own" /\ sent' = [sent EXCEPT ![m] = "both"] /\ Tell(sender[m])
      /\ late' = late \union (seen \cap {m})
      /\ UNCHANGED <<read, open, asked, seen, getting, left, begun, missed, hurried>>
  BY DEF AddPeerCopy, calls
<1>2. news \subseteq news' /\ news' \subseteq open
  BY <1>1, Telling, ReceiverIsOther DEF ReceiptsIInv
<1>3. There' = There \union {m} /\ \A n \in Messages : n # m => sent'[n] = sent[n]
  BY <1>1 DEF ReceiptsIInv, ReceiptsTypeOK, There
<1>4. \A n \in Messages : WasShown(n) => WasShown(n)'
  BY <1>1, <1>2 DEF WasShown, receiver
<1>5. ReceiptsTypeOK'
  BY <1>1, <1>2 DEF ReceiptsIInv, ReceiptsTypeOK
<1>6. IsTold'
  BY <1>1, <1>2, <1>3 DEF ReceiptsIInv, IsTold, receiver
<1>7. FoundFits' /\ ReadFits'
  BY <1>1, <1>3, <1>4 DEF ReceiptsIInv, ReceiptsTypeOK, FoundFits, ReadFits, receiver
<1>8. CallsOnOpen' /\ SeenIsMarked' /\ (begun \subseteq There)'
  BY <1>1, <1>3 DEF ReceiptsIInv, CallsOnOpen, SeenIsMarked, WillBeRead, Calling, receiver
<1>. QED BY <1>5, <1>6, <1>7, <1>8 DEF ReceiptsIInv

LEMMA OpenStep ==
  ASSUME ReceiptsIInv, NEW u \in Pair, Open(u) \/ GetMyInfo(u) PROVE ReceiptsIInv'
<1>1. /\ Mark(u) /\ open' = open \union {u} /\ asked' \subseteq open' /\ news' = news \union {u}
      /\ UNCHANGED <<sent, read, seen, begun, late, missed, hurried>>
  BY DEF Open, GetMyInfo, ReceiptsIInv, ReceiptsTypeOK
<1>2. /\ getting' \subseteq Calls /\ getting \subseteq getting' /\ UNCHANGED left
      /\ \A c \in getting' : c \in getting \/ c[1] = u
      /\ Calling(u)' /\ \A v \in Pair : Calling(v) => Calling(v)'
  BY <1>1, Marking DEF ReceiptsIInv
<1>3. UNCHANGED There /\ \A n \in Messages : WasShown(n) => WasShown(n)'
  BY <1>1 DEF There, WasShown, receiver
<1>4. ReceiptsTypeOK'
  BY <1>1, <1>2 DEF ReceiptsIInv, ReceiptsTypeOK
<1>5. IsTold' /\ CallsOnOpen'
  BY <1>1, <1>2 DEF ReceiptsIInv, IsTold, CallsOnOpen, receiver
<1>6. FoundFits' /\ ReadFits' /\ (begun \subseteq There)'
  BY <1>1, <1>2, <1>3 DEF ReceiptsIInv, ReceiptsTypeOK, FoundFits, ReadFits, receiver
<1>7. SeenIsMarked'
  <2>1. ASSUME NEW m \in seen \cap There, receiver(m) \in open' PROVE WillBeRead(m)'
    <3>1. receiver(m) \in Pair /\ receiver(m)' = receiver(m)
      BY ReceiverIsOther DEF There, receiver
    <3>2. CASE receiver(m) = u
      BY <1>2, <3>1, <3>2 DEF WillBeRead
    <3>3. CASE receiver(m) # u
      <4>1. WillBeRead(m)
        BY <1>1, <2>1, <3>3 DEF ReceiptsIInv, SeenIsMarked
      <4>. QED BY <1>1, <1>2, <3>1, <4>1 DEF WillBeRead
    <3>. QED BY <3>2, <3>3
  <2>. QED BY <1>1, <1>3, <2>1 DEF SeenIsMarked, receiver
<1>. QED BY <1>4, <1>5, <1>6, <1>7 DEF ReceiptsIInv

LEMMA BuildStep ==
  ASSUME ReceiptsIInv, NEW u \in Pair, Build(u) PROVE ReceiptsIInv'
<1>1. /\ Mark(u) /\ u \in news /\ news' = news \ {u}
      /\ seen' = seen \union {m \in Messages : receiver(m) = u /\ sent[m] # "no"}
      /\ UNCHANGED <<sent, read, open, asked, begun, late, missed, hurried>>
  BY DEF Build
<1>2. /\ getting' \subseteq Calls /\ getting \subseteq getting' /\ UNCHANGED left
      /\ \A c \in getting' : c \in getting \/ c[1] = u
      /\ Calling(u)' /\ \A v \in Pair : Calling(v) => Calling(v)'
  BY <1>1, Marking DEF ReceiptsIInv
<1>3. UNCHANGED There /\ \A n \in There : WasShown(n) => WasShown(n)'
  BY <1>1 DEF There, WasShown, receiver
<1>4. ReceiptsTypeOK' /\ u \in open
  BY <1>1, <1>2 DEF ReceiptsIInv, ReceiptsTypeOK
<1>5. IsTold' /\ CallsOnOpen'
  BY <1>1, <1>2, <1>4 DEF ReceiptsIInv, IsTold, CallsOnOpen, receiver
<1>6. FoundFits' /\ ReadFits' /\ (begun \subseteq There)'
  BY <1>1, <1>2, <1>3 DEF ReceiptsIInv, ReceiptsTypeOK, FoundFits, ReadFits, receiver
<1>7. SeenIsMarked'
  <2>1. ASSUME NEW m \in seen' \cap There, receiver(m) \in open PROVE WillBeRead(m)'
    <3>1. receiver(m) \in Pair /\ receiver(m)' = receiver(m)
      BY ReceiverIsOther DEF There, receiver
    <3>2. CASE receiver(m) = u
      BY <1>2, <3>1, <3>2 DEF WillBeRead
    <3>3. CASE receiver(m) # u
      <4>1. WillBeRead(m)
        BY <1>1, <2>1, <3>3 DEF ReceiptsIInv, SeenIsMarked
      <4>. QED BY <1>1, <1>2, <3>1, <4>1 DEF WillBeRead
    <3>. QED BY <3>2, <3>3
  <2>. QED BY <1>1, <1>3, <2>1 DEF SeenIsMarked, receiver
<1>. QED BY <1>4, <1>5, <1>6, <1>7 DEF ReceiptsIInv

LEMMA GetStep ==
  ASSUME ReceiptsIInv, NEW u \in Pair, NEW r \in Runs[u], Get(u, r) PROVE ReceiptsIInv'
<1>. DEFINE found == BoxOf(u)
<1>1. /\ <<u, r>> \in getting /\ getting' = getting \ {<<u, r>>}
      /\ left' = [left EXCEPT ![<<u, r>>] = found] /\ begun' = begun \union found
      /\ late' \subseteq late /\ missed' \subseteq missed
      /\ \A m \in (late \union missed) \ found : m \in late' \union missed'
      /\ UNCHANGED <<sent, read, open, asked, news, seen, hurried, There>>
  BY DEF Get, pages, There
<1>2. /\ \A c \in Calls : left'[c] = IF c = <<u, r>> THEN found ELSE left[c]
      /\ <<u, r>> \in Calls /\ <<u, r>>[1] = u
  BY <1>1, CallOf DEF ReceiptsIInv, ReceiptsTypeOK
<1>3. found \subseteq There /\ found \subseteq Messages
  BY DEF BoxOf, There
<1>4. \A m \in found : receiver(m) = u /\ WasShown(m)
  <2>1. u \in open \union hurried
    BY <1>1, <1>2 DEF ReceiptsIInv, CallsOnOpen
  <2>. QED BY <2>1 DEF ReceiptsIInv, IsTold, WasShown, BoxOf, There
<1>5. \A m \in Messages : receiver(m)' = receiver(m) /\ (WasShown(m) => WasShown(m)')
  BY <1>1 DEF WasShown, receiver
<1>6. \A m \in There : receiver(m) = u => m \in left'[<<u, r>>]
  BY <1>2 DEF BoxOf
<1>. HIDE DEF found
<1>7. ReceiptsTypeOK'
  BY <1>1, <1>3 DEF ReceiptsIInv, ReceiptsTypeOK
<1>8. IsTold' /\ CallsOnOpen' /\ ReadFits' /\ (begun \subseteq There)'
  BY <1>1, <1>3, <1>5
  DEF ReceiptsIInv, ReceiptsTypeOK, IsTold, CallsOnOpen, ReadFits, receiver
<1>9. FoundFits'
  <2>1. ASSUME NEW c \in Calls, NEW m \in left'[c] PROVE receiver(m) = c[1] /\ m \in There /\ WasShown(m)
    BY <1>2, <1>3, <1>4, <2>1 DEF ReceiptsIInv, FoundFits
  <2>. QED BY <1>1, <1>5, <2>1 DEF FoundFits, There
<1>10. SeenIsMarked'
  <2>1. ASSUME NEW m \in seen \cap There, receiver(m) \in open PROVE WillBeRead(m)'
    <3>1. receiver(m) \in Pair /\ receiver(m)' = receiver(m)
      BY ReceiverIsOther DEF There, receiver
    <3>2. CASE receiver(m) = u
      BY <1>6, <3>1, <3>2 DEF WillBeRead
    <3>3. CASE receiver(m) # u
      <4>1. WillBeRead(m)
        BY <2>1 DEF ReceiptsIInv, SeenIsMarked
      <4>2. Calling(receiver(m)) => Calling(receiver(m))'
        BY <1>1, <3>1, <3>3 DEF Calling
      <4>3. \A s \in Runs[receiver(m)] : left'[<<receiver(m), s>>] = left[<<receiver(m), s>>]
        BY <1>2, <3>1, <3>3, CallOf
      <4>4. m \notin found
        BY <1>4, <3>3
      <4>. QED BY <1>1, <3>1, <4>1, <4>2, <4>3, <4>4 DEF WillBeRead
    <3>. QED BY <3>2, <3>3
  <2>. QED BY <1>1, <1>5, <2>1 DEF SeenIsMarked, There
<1>. QED BY <1>7, <1>8, <1>9, <1>10 DEF ReceiptsIInv

LEMMA UpdateStep ==
  ASSUME ReceiptsIInv, NEW u \in Pair, NEW r \in Runs[u], NEW m \in Messages, Update(u, r, m)
  PROVE  ReceiptsIInv'
<1>1. /\ m \in left[<<u, r>>] /\ read' = read \union {m}
      /\ left' = [left EXCEPT ![<<u, r>>] = @ \ {m}]
      /\ UNCHANGED <<sent, open, asked, seen, getting, begun, late, missed, hurried, There>>
      /\ news \subseteq news' /\ news' \subseteq open
  BY Telling, ReceiverIsOther DEF Update, ReceiptsIInv, ReceiptsTypeOK, There
<1>2. /\ \A c \in Calls : left'[c] = IF c = <<u, r>> THEN left[c] \ {m} ELSE left[c]
      /\ <<u, r>> \in Calls /\ <<u, r>>[1] = u
  BY <1>1, CallOf DEF ReceiptsIInv, ReceiptsTypeOK
<1>3. m \in There /\ WasShown(m)
  BY <1>1, <1>2 DEF ReceiptsIInv, FoundFits
<1>4. \A n \in Messages : receiver(n)' = receiver(n) /\ (WasShown(n) => WasShown(n)')
  BY <1>1 DEF WasShown, receiver
<1>5. ReceiptsTypeOK'
  BY <1>1, <1>2 DEF ReceiptsIInv, ReceiptsTypeOK
<1>6. IsTold' /\ CallsOnOpen' /\ ReadFits' /\ (begun \subseteq There)'
  BY <1>1, <1>3, <1>4
  DEF ReceiptsIInv, ReceiptsTypeOK, IsTold, CallsOnOpen, ReadFits, receiver
<1>7. FoundFits'
  <2>1. \A c \in Calls : left'[c] \subseteq left[c]
    BY <1>2
  <2>. QED BY <1>1, <1>4, <2>1 DEF ReceiptsIInv, FoundFits, There
<1>8. SeenIsMarked'
  <2>1. ASSUME NEW n \in seen \cap There, receiver(n) \in open PROVE WillBeRead(n)'
    <3>1. receiver(n) \in Pair /\ receiver(n)' = receiver(n)
      BY ReceiverIsOther DEF There, receiver
    <3>2. WillBeRead(n)
      BY <2>1 DEF ReceiptsIInv, SeenIsMarked
    <3>3. \A s \in Runs[receiver(n)] : n \in left[<<receiver(n), s>>] =>
            n \in left'[<<receiver(n), s>>] \/ n = m
      BY <1>2, <3>1, CallOf
    <3>. QED BY <1>1, <3>1, <3>2, <3>3 DEF WillBeRead, Calling
  <2>. QED BY <1>1, <1>4, <2>1 DEF SeenIsMarked, There
<1>. QED BY <1>5, <1>6, <1>7, <1>8 DEF ReceiptsIInv

(* What a call owes is in its receiver's box.                              *)
LEMMA OwedFits ==
  ASSUME ReceiptsIInv, NEW u \in Pair, NEW r \in Runs[u]
  PROVE  Owed(<<u, r>>) \subseteq Messages
<1>1. <<u, r>> \in Calls
  BY CallOf
<1>. QED BY <1>1 DEF ReceiptsIInv, ReceiptsTypeOK, Owed, BoxOf, There

LEMMA GiveUpStep ==
  ASSUME ReceiptsIInv, NEW u \in Pair, NEW r \in Runs[u], GiveUp(u, r)
  PROVE  ReceiptsIInv'
<1>1. /\ getting' = getting \ {<<u, r>>}
      /\ left' = [left EXCEPT ![<<u, r>>] = {}]
      /\ missed' = missed \union Owed(<<u, r>>)
      /\ UNCHANGED <<sent, read, open, asked, news, seen, begun, late, hurried, There>>
  BY DEF GiveUp, pages, There
<1>2. /\ \A c \in Calls : left'[c] = IF c = <<u, r>> THEN {} ELSE left[c]
      /\ <<u, r>> \in Calls /\ <<u, r>>[1] = u
  BY <1>1, CallOf DEF ReceiptsIInv, ReceiptsTypeOK
<1>3. \A n \in Messages : receiver(n)' = receiver(n) /\ (WasShown(n) => WasShown(n)')
  BY <1>1 DEF WasShown, receiver
<1>4. ReceiptsTypeOK'
  BY <1>1, OwedFits DEF ReceiptsIInv, ReceiptsTypeOK
<1>5. IsTold' /\ CallsOnOpen' /\ ReadFits' /\ (begun \subseteq There)'
  BY <1>1, <1>3 DEF ReceiptsIInv, ReceiptsTypeOK, IsTold, CallsOnOpen, ReadFits, receiver
<1>6. FoundFits'
  <2>1. \A c \in Calls : left'[c] \subseteq left[c]
    BY <1>2
  <2>. QED BY <1>1, <1>3, <2>1 DEF ReceiptsIInv, FoundFits, There
<1>7. SeenIsMarked'
  <2>1. ASSUME NEW n \in seen \cap There, receiver(n) \in open PROVE WillBeRead(n)'
    <3>1. receiver(n) \in Pair /\ receiver(n)' = receiver(n)
      BY ReceiverIsOther DEF There, receiver
    <3>2. WillBeRead(n)
      BY <2>1 DEF ReceiptsIInv, SeenIsMarked
    <3>3. CASE \E s \in Runs[receiver(n)] : n \in left[<<receiver(n), s>>]
      <4>1. PICK s \in Runs[receiver(n)] : n \in left[<<receiver(n), s>>]
        BY <3>3
      <4>2. CASE <<receiver(n), s>> = <<u, r>>
        <5>1. n \in BoxOf(u)
          BY <2>1, <4>2 DEF BoxOf
        <5>2. n \in Owed(<<u, r>>)
          BY <1>2, <4>1, <4>2, <5>1 DEF Owed
        <5>. QED BY <1>1, <5>2 DEF WillBeRead
      <4>3. CASE <<receiver(n), s>> # <<u, r>>
        <5>1. left'[<<receiver(n), s>>] = left[<<receiver(n), s>>]
          BY <1>2, <3>1, <4>3, CallOf
        <5>. QED BY <3>1, <4>1, <5>1 DEF WillBeRead
      <4>. QED BY <4>2, <4>3
    <3>4. CASE Calling(receiver(n))
      <4>1. PICK s \in Runs[receiver(n)] : <<receiver(n), s>> \in getting
        BY <3>4 DEF Calling
      <4>2. CASE <<receiver(n), s>> = <<u, r>>
        <5>1. n \in Owed(<<u, r>>)
          BY <1>2, <2>1, <4>1, <4>2 DEF Owed, BoxOf
        <5>. QED BY <1>1, <5>1 DEF WillBeRead
      <4>3. CASE <<receiver(n), s>> # <<u, r>>
        BY <1>1, <3>1, <4>1, <4>3 DEF WillBeRead, Calling
      <4>. QED BY <4>2, <4>3
    <3>. QED BY <1>1, <3>2, <3>3, <3>4 DEF WillBeRead
  <2>. QED BY <1>1, <1>3, <2>1 DEF SeenIsMarked, There
<1>. QED BY <1>4, <1>5, <1>6, <1>7 DEF ReceiptsIInv

LEMMA GetMyInfoFailsStep ==
  ASSUME ReceiptsIInv, NEW u \in Pair, GetMyInfoFails(u) PROVE ReceiptsIInv'
<1>1. /\ asked' = asked \ {u}
      /\ UNCHANGED <<sent, read, open, news, seen, getting, left, begun, late, missed, hurried>>
  BY DEF GetMyInfoFails, calls
<1>2. ReceiptsTypeOK' /\ (begun \subseteq There)'
  BY <1>1 DEF ReceiptsIInv, ReceiptsTypeOK, There
<1>3. IsTold' /\ CallsOnOpen' /\ FoundFits' /\ ReadFits'
  BY <1>1 DEF ReceiptsIInv, IsTold, CallsOnOpen, FoundFits, ReadFits, WasShown, There, receiver
<1>4. SeenIsMarked'
  BY <1>1 DEF ReceiptsIInv, SeenIsMarked, WillBeRead, Calling, There, receiver
<1>. QED BY <1>2, <1>3, <1>4 DEF ReceiptsIInv

LEMMA LeaveStep ==
  ASSUME ReceiptsIInv, NEW u \in Pair, Leave(u) PROVE ReceiptsIInv'
<1>1. /\ open' = open \ {u} /\ asked' = asked \ {u} /\ news' = news \ {u}
      /\ hurried' = IF u \in news \/ Calling(u) THEN hurried \union {u} ELSE hurried
      /\ UNCHANGED <<sent, read, seen, getting, left, begun, late, missed, There>>
  BY DEF Leave, calls, There
<1>2. \A n \in Messages : receiver(n)' = receiver(n) /\ (WasShown(n) => WasShown(n)')
  BY <1>1 DEF WasShown, receiver
<1>3. ReceiptsTypeOK'
  BY <1>1 DEF ReceiptsIInv, ReceiptsTypeOK
<1>4. IsTold' /\ ReadFits' /\ FoundFits' /\ (begun \subseteq There)'
  BY <1>1, <1>2 DEF ReceiptsIInv, ReceiptsTypeOK, IsTold, ReadFits, FoundFits, There
<1>5. CallsOnOpen'
  <2>1. ASSUME NEW c \in getting PROVE c[1] \in open' \union hurried'
    <3>1. c[1] = u => Calling(u)
      BY CallOf DEF ReceiptsIInv, ReceiptsTypeOK, Calling
    <3>. QED BY <1>1, <3>1 DEF ReceiptsIInv, CallsOnOpen
  <2>. QED BY <1>1, <2>1 DEF CallsOnOpen
<1>6. SeenIsMarked'
  BY <1>1, <1>2 DEF ReceiptsIInv, SeenIsMarked, WillBeRead, Calling, There
<1>. QED BY <1>3, <1>4, <1>5, <1>6 DEF ReceiptsIInv

LEMMA KillAppStep ==
  ASSUME ReceiptsIInv, NEW u \in Pair, KillApp(u)
  PROVE  ReceiptsIInv' /\ UNCHANGED There /\ missed \subseteq missed'
<1>1. /\ open' = open \ {u} /\ asked' = asked \ {u} /\ news' = news \ {u}
      /\ getting' = {c \in getting : c[1] # u}
      /\ hurried' = hurried \union {u}
      /\ missed' = missed \union UNION {Owed(<<u, r>>) : r \in Runs[u]}
      /\ UNCHANGED <<read, seen, begun, late>>
  BY DEF KillApp
<1>0. missed \subseteq missed' /\ missed' \subseteq Messages
  <2>1. \A r \in Runs[u] : Owed(<<u, r>>) \subseteq Messages
    BY OwedFits
  <2>2. UNION {Owed(<<u, r>>) : r \in Runs[u]} \subseteq Messages
    BY <2>1
  <2>3. missed \subseteq Messages
    BY DEF ReceiptsIInv, ReceiptsTypeOK
  <2>. QED BY <1>1, <2>2, <2>3
<1>2. PICK survives \in SUBSET Messages :
        /\ left' = [c \in Calls |-> IF c[1] = u THEN left[c] \cap survives ELSE left[c]]
        /\ sent' = [m \in Messages |->
                      IF sender[m] = u /\ sent[m] = "own" /\ m \notin survives
                        THEN "cut" ELSE sent[m]]
  BY DEF KillApp
<1>3. /\ UNCHANGED There
      /\ \A m \in Messages : sent'[m] # "no" => sent[m] # "no"
      /\ \A c \in Calls : left'[c] \subseteq left[c] /\ (c[1] # u => left'[c] = left[c])
  BY <1>2 DEF There
<1>4. \A n \in Messages : receiver(n)' = receiver(n) /\ (WasShown(n) => WasShown(n)')
  BY <1>1 DEF WasShown, receiver
<1>5. ReceiptsTypeOK'
  BY <1>0, <1>1, <1>2 DEF ReceiptsIInv, ReceiptsTypeOK
<1>6. IsTold' /\ CallsOnOpen' /\ ReadFits' /\ FoundFits' /\ (begun \subseteq There)'
  <2>1. IsTold' /\ CallsOnOpen'
    BY <1>1, <1>3, <1>4 DEF ReceiptsIInv, IsTold, CallsOnOpen
  <2>2. ReadFits' /\ FoundFits' /\ (begun \subseteq There)'
    BY <1>1, <1>3, <1>4 DEF ReceiptsIInv, ReceiptsTypeOK, ReadFits, FoundFits
  <2>. QED BY <2>1, <2>2
<1>7. SeenIsMarked'
  <2>1. ASSUME NEW n \in seen \cap There, receiver(n) \in open' PROVE WillBeRead(n)'
    <3>1. receiver(n) \in Pair /\ receiver(n)' = receiver(n) /\ receiver(n) # u
      BY <1>1, <2>1, ReceiverIsOther DEF There, receiver
    <3>2. WillBeRead(n)
      BY <1>1, <2>1 DEF ReceiptsIInv, SeenIsMarked
    <3>3. \A s \in Runs[receiver(n)] : left'[<<receiver(n), s>>] = left[<<receiver(n), s>>]
      BY <1>3, <3>1, CallOf
    <3>4. Calling(receiver(n)) => Calling(receiver(n))'
      BY <1>1, <3>1, CallOf DEF Calling
    <3>. QED BY <1>0, <1>1, <3>1, <3>2, <3>3, <3>4 DEF WillBeRead
  <2>. QED BY <1>1, <1>3, <1>4, <2>1 DEF SeenIsMarked, There
<1>. QED BY <1>0, <1>3, <1>5, <1>6, <1>7 DEF ReceiptsIInv

LEMMA ReceiptsStart == ReceiptsInit => ReceiptsIInv
BY DEF ReceiptsInit, ReceiptsIInv, ReceiptsTypeOK, IsTold, CallsOnOpen, FoundFits, ReadFits,
       SeenIsMarked, There

LEMMA ReceiptsStep == ReceiptsIInv /\ [ReceiptsNext]_receiptsVars => ReceiptsIInv'
<1>. SUFFICES ASSUME ReceiptsIInv, [ReceiptsNext]_receiptsVars PROVE ReceiptsIInv'
  OBVIOUS
<1>1. ASSUME NEW m \in Messages, AddOwnCopy(m) \/ AddPeerCopy(m) PROVE ReceiptsIInv'
  BY <1>1, AddOwnCopyStep, AddPeerCopyStep
<1>2. ASSUME NEW u \in Pair,
             \/ Open(u) \/ GetMyInfo(u) \/ GetMyInfoFails(u)
             \/ Build(u) \/ Leave(u) \/ KillApp(u)
      PROVE  ReceiptsIInv'
  BY <1>2, OpenStep, GetMyInfoFailsStep, BuildStep, LeaveStep, KillAppStep
<1>3. ASSUME NEW u \in Pair, NEW r \in Runs[u], Get(u, r) \/ GiveUp(u, r) PROVE ReceiptsIInv'
  BY <1>3, GetStep, GiveUpStep
<1>4. ASSUME NEW u \in Pair, NEW r \in Runs[u], NEW m \in Messages, Update(u, r, m)
      PROVE  ReceiptsIInv'
  BY <1>4, UpdateStep
<1>5. CASE UNCHANGED receiptsVars
  BY <1>5 DEF receiptsVars, pages, calls, ReceiptsIInv, ReceiptsTypeOK, IsTold, CallsOnOpen, FoundFits,
              ReadFits, SeenIsMarked, WillBeRead, Calling, WasShown, There, receiver
<1>. QED BY <1>1, <1>2, <1>3, <1>4, <1>5 DEF ReceiptsNext

(* A message that is marked as read was shown to its receiver, or is about *)
(* to be, unless the receiver left in a hurry (markAllAsRead marks another *)
(* box than the page shows).                                               *)
THEOREM MarkedWasShown == ReceiptsSpec => []ReadWasShown
<1>1. ReceiptsIInv => ReadWasShown
  BY DEF ReceiptsIInv, ReadFits, WasShown, ReadWasShown
<1>. QED BY <1>1, ReceiptsStart, ReceiptsStep, PTL DEF ReceiptsSpec

(* On an open page that waits for nothing all that is shown is read, but   *)
(* for what no call has found since it was shown before the receiver's     *)
(* copy was there, or since a call for it failed.                          *)
THEOREM ShownGetsRead == ReceiptsSpec => []ShownIsRead
<1>1. ASSUME ReceiptsIInv PROVE ShownIsRead
  <2>1. SUFFICES ASSUME NEW m \in seen \cap There, receiver(m) \in open, Idle(receiver(m))
                 PROVE  m \in read \union late \union missed
    BY DEF ShownIsRead
  <2>2. WillBeRead(m)
    BY <1>1, <2>1 DEF ReceiptsIInv, SeenIsMarked
  <2>. QED BY <2>1, <2>2 DEF WillBeRead, Idle
<1>. QED BY <1>1, ReceiptsStart, ReceiptsStep, PTL DEF ReceiptsSpec

(* The flags do what Inbox promises at each step: a message is marked only *)
(* once its receiver's copy is there, no mark is taken back, and what a    *)
(* call finds is there to be marked; only calls that fail leave it.  (That *)
(* the others mark it in the end is the rest of Inbox's promise.)          *)
THEOREM MarksFitInbox == ReceiptsSpec => Boxes!Init /\ [][Boxes!Next]_(Boxes!inbox)
<1>1. ReceiptsInit => Boxes!Init
  BY DEF ReceiptsInit, There, Boxes!Init
<1>2. ASSUME ReceiptsIInv, ReceiptsIInv', [ReceiptsNext]_receiptsVars
      PROVE  [Boxes!Next]_(Boxes!inbox)
  <2>1. ASSUME NEW m \in Messages, AddOwnCopy(m) \/ AddPeerCopy(m) PROVE [Boxes!Next]_(Boxes!inbox)
    <3>1. UNCHANGED <<read, begun, missed>> /\ There \subseteq There' /\ There' \subseteq Messages
      BY <1>2, <2>1 DEF AddOwnCopy, AddPeerCopy, calls, There, ReceiptsIInv, ReceiptsTypeOK
    <3>. QED BY <3>1 DEF Boxes!Next, Boxes!Arrive
  <2>2. ASSUME NEW u \in Pair, Open(u) \/ GetMyInfo(u) \/ GetMyInfoFails(u) \/ Build(u) \/ Leave(u)
        PROVE  [Boxes!Next]_(Boxes!inbox)
    <3>1. UNCHANGED <<read, begun, missed, There>>
      BY <2>2 DEF Open, GetMyInfo, GetMyInfoFails, Build, Leave, calls, There
    <3>. QED BY <3>1 DEF Boxes!inbox
  <2>3. ASSUME NEW u \in Pair, KillApp(u) \/ \E r \in Runs[u] : GiveUp(u, r)
        PROVE  [Boxes!Next]_(Boxes!inbox)
    <3>1. UNCHANGED <<read, begun, There>> /\ missed \subseteq missed'
      BY <1>2, <2>3, KillAppStep DEF KillApp, GiveUp, pages, There
    <3>2. missed' \subseteq Messages
      BY <1>2 DEF ReceiptsIInv, ReceiptsTypeOK
    <3>. QED BY <3>1, <3>2 DEF Boxes!Next, Boxes!Excuse
  <2>4. ASSUME NEW u \in Pair, NEW r \in Runs[u], Get(u, r) PROVE [Boxes!Next]_(Boxes!inbox)
    <3>1. UNCHANGED <<read, There>> /\ begun \subseteq begun' /\ missed' \subseteq missed
      BY <2>4 DEF Get, pages, There
    <3>2. begun' \subseteq There
      BY <1>2, <3>1 DEF ReceiptsIInv
    <3>. QED BY <3>1, <3>2 DEF Boxes!Next, Boxes!Begin
  <2>5. ASSUME NEW u \in Pair, NEW r \in Runs[u], NEW m \in Messages, Update(u, r, m)
        PROVE  [Boxes!Next]_(Boxes!inbox)
    <3>1. UNCHANGED <<begun, missed, There>> /\ read \subseteq read'
      BY <2>5 DEF Update, There
    <3>2. read' \subseteq There'
      BY <1>2 DEF ReceiptsIInv, ReadFits
    <3>. QED BY <3>1, <3>2 DEF Boxes!Next, Boxes!Read
  <2>6. CASE UNCHANGED receiptsVars
    <3>1. UNCHANGED <<read, begun, missed, There>>
      BY <2>6 DEF receiptsVars, calls, There
    <3>. QED BY <3>1 DEF Boxes!inbox
  <2>. QED BY <1>2, <2>1, <2>2, <2>3, <2>4, <2>5, <2>6 DEF ReceiptsNext
<1>. QED BY <1>1, <1>2, ReceiptsStart, ReceiptsStep, PTL DEF ReceiptsSpec
=============================================================================
