------------------------ MODULE NotificationsProofs ------------------------
(* The invariants of Notifications, for any users of the phone and any     *)
(* number of subscriptions that wait to be sent; and that of Unread, for   *)
(* any conversations, zones and length of the day.                         *)
EXTENDS Notifications, Unread, TLAPS

Operations == [topic : Topics, on : BOOLEAN]

(* What the phone will be subscribed to once its queue `q' is sent.        *)
Ends(q, T, t) ==
  \/ \E i \in 1..Len(q) : q[i] = Sub(t) /\ \A j \in (i + 1)..Len(q) : q[j] # Unsub(t)
  \/ t \in T /\ \A j \in 1..Len(q) : q[j] # Unsub(t)

Will(t) == Ends(queue, topics, t)

(* With the switch on, who is logged in will get their notifications.      *)
OnWillBe == user # Nobody /\ notification => Will(user)

(* With the switch off, nobody who could log in will, unless somebody else *)
(* was the last to use it or its effect was lost.                          *)
OffWillBe ==
  ~notification =>
    /\ \A u \in Users : Will(u) => switchedBy # u \/ "lost" \in since
    /\ Will(General) => "start" \in since \/ switchedBy = Nobody

IInv == TypeOK /\ OnWillBe /\ OffWillBe

-----------------------------------------------------------------------------
(* What one more operation does to the end of a queue.                     *)
LEMMA EndsAppend ==
  ASSUME NEW q \in Seq(Operations), NEW o \in Operations, NEW T, NEW t
  PROVE  /\ Append(q, o) \in Seq(Operations)
         /\ Ends(Append(q, o), T, t) <=> o = Sub(t) \/ (o # Unsub(t) /\ Ends(q, T, t))
<1> DEFINE r == Append(q, o)
<1>1. /\ r \in Seq(Operations)
      /\ Len(q) \in Nat
      /\ Len(r) = Len(q) + 1
      /\ \A i \in 1..Len(q) : r[i] = q[i]
      /\ r[Len(r)] = o
  OBVIOUS
<1> HIDE DEF r
<1>2. Sub(t) # Unsub(t)
  BY DEF Sub, Unsub
<1>3. ASSUME Ends(r, T, t) PROVE o = Sub(t) \/ (o # Unsub(t) /\ Ends(q, T, t))
  <2>1. ASSUME NEW i \in 1..Len(r), r[i] = Sub(t),
               \A j \in (i + 1)..Len(r) : r[j] # Unsub(t), o # Sub(t)
        PROVE  o # Unsub(t) /\ Ends(q, T, t)
    <3>1. i \in 1..Len(q) /\ i + 1 \in 1..Len(r)
      BY <1>1, <2>1
    <3>2. o # Unsub(t)
      BY <1>1, <2>1, <3>1
    <3>3. \A j \in (i + 1)..Len(q) : q[j] # Unsub(t)
      BY <1>1, <2>1, <3>1
    <3> QED
      BY <1>1, <2>1, <3>1, <3>2, <3>3 DEF Ends
  <2>2. ASSUME t \in T, \A j \in 1..Len(r) : r[j] # Unsub(t)
        PROVE  o # Unsub(t) /\ Ends(q, T, t)
    BY <1>1, <2>2 DEF Ends
  <2> QED
    BY <1>3, <2>1, <2>2 DEF Ends
<1>4. ASSUME o = Sub(t) PROVE Ends(r, T, t)
  <2>1. Len(r) \in 1..Len(r) /\ \A j \in (Len(r) + 1)..Len(r) : r[j] # Unsub(t)
    BY <1>1
  <2> QED
    BY <1>1, <1>4, <2>1 DEF Ends
<1>5. ASSUME o # Unsub(t), Ends(q, T, t) PROVE Ends(r, T, t)
  <2>1. ASSUME NEW i \in 1..Len(q), q[i] = Sub(t),
               \A j \in (i + 1)..Len(q) : q[j] # Unsub(t)
        PROVE  Ends(r, T, t)
    <3>1. i \in 1..Len(r) /\ r[i] = Sub(t)
      BY <1>1, <2>1
    <3>2. \A j \in (i + 1)..Len(r) : r[j] # Unsub(t)
      BY <1>1, <1>5, <2>1
    <3> QED
      BY <3>1, <3>2 DEF Ends
  <2>2. ASSUME t \in T, \A j \in 1..Len(q) : q[j] # Unsub(t) PROVE Ends(r, T, t)
    <3>1. \A j \in 1..Len(r) : r[j] # Unsub(t)
      BY <1>1, <1>5, <2>2
    <3> QED
      BY <2>2, <3>1 DEF Ends
  <2> QED
    BY <1>5, <2>1, <2>2 DEF Ends
<1> QED
  BY <1>1, <1>3, <1>4, <1>5 DEF r

(* What an operation does is told by its fields.                           *)
LEMMA IsSubUnsub ==
  ASSUME NEW o \in Operations, NEW t
  PROVE  /\ o = Sub(t) <=> o.on /\ o.topic = t
         /\ o = Unsub(t) <=> ~o.on /\ o.topic = t
<1>1. PICK a \in Topics, b \in BOOLEAN : o = [topic |-> a, on |-> b]
  BY DEF Operations
<1>2. o.topic = a /\ o.on = b
  BY <1>1
<1>3. CASE b = TRUE
  BY <1>1, <1>2, <1>3 DEF Sub, Unsub
<1>4. CASE b = FALSE
  BY <1>1, <1>2, <1>4 DEF Sub, Unsub
<1> QED
  BY <1>3, <1>4

(* Sending the oldest operation does not change what it will come to.      *)
LEMMA EndsSend ==
  ASSUME NEW q \in Seq(Operations), q # <<>>, NEW T, NEW S, NEW t,
         S = IF Head(q).on THEN T \union {Head(q).topic} ELSE T \ {Head(q).topic}
  PROVE  /\ Tail(q) \in Seq(Operations)
         /\ Ends(Tail(q), S, t) => Ends(q, T, t)
         /\ Ends(q, T, t) => Ends(Tail(q), S, t)
<1> DEFINE r == Tail(q)
<1>1. /\ r \in Seq(Operations)
      /\ Len(q) \in Nat /\ Len(q) >= 1
      /\ Len(r) = Len(q) - 1
      /\ \A i \in 1..Len(r) : r[i] = q[i + 1]
      /\ Head(q) = q[1] /\ q[1] \in Operations
  OBVIOUS
<1> HIDE DEF r
<1>2. \A i \in 2..Len(q) : i - 1 \in 1..Len(r) /\ r[i - 1] = q[i]
  BY <1>1
<1>3. q[1] = Sub(t) <=> q[1].on /\ q[1].topic = t
  BY <1>1, IsSubUnsub
<1>4. q[1] = Unsub(t) <=> ~q[1].on /\ q[1].topic = t
  BY <1>1, IsSubUnsub
<1>5. t \in S <=> q[1] = Sub(t) \/ (t \in T /\ q[1] # Unsub(t))
  BY <1>1, <1>3, <1>4
<1>6. ASSUME Ends(r, S, t) PROVE Ends(q, T, t)
  <2>1. ASSUME NEW i \in 1..Len(r), r[i] = Sub(t),
               \A j \in (i + 1)..Len(r) : r[j] # Unsub(t)
        PROVE  Ends(q, T, t)
    <3>1. i + 1 \in 1..Len(q) /\ q[i + 1] = Sub(t)
      BY <1>1, <2>1
    <3>2. \A j \in ((i + 1) + 1)..Len(q) : q[j] # Unsub(t)
      <4>1. SUFFICES ASSUME NEW j \in ((i + 1) + 1)..Len(q) PROVE q[j] # Unsub(t)
        OBVIOUS
      <4>2. j - 1 \in (i + 1)..Len(r) /\ r[j - 1] = q[j]
        BY <1>1, <1>2
      <4> QED
        BY <2>1, <4>2
    <3> QED
      BY <3>1, <3>2 DEF Ends
  <2>2. ASSUME t \in S, \A j \in 1..Len(r) : r[j] # Unsub(t) PROVE Ends(q, T, t)
    <3>1. \A j \in 2..Len(q) : q[j] # Unsub(t)
      BY <1>2, <2>2
    <3>2. CASE q[1] = Sub(t)
      <4>1. 1 \in 1..Len(q) /\ \A j \in (1 + 1)..Len(q) : q[j] # Unsub(t)
        BY <1>1, <3>1
      <4> QED
        BY <3>2, <4>1 DEF Ends
    <3>3. CASE t \in T /\ q[1] # Unsub(t)
      <4>1. \A j \in 1..Len(q) : q[j] # Unsub(t)
        BY <1>1, <3>1, <3>3
      <4> QED
        BY <3>3, <4>1 DEF Ends
    <3> QED
      BY <1>5, <2>2, <3>2, <3>3
  <2> QED
    BY <1>6, <2>1, <2>2 DEF Ends
<1>7. ASSUME Ends(q, T, t) PROVE Ends(r, S, t)
  <2>1. ASSUME NEW i \in 1..Len(q), q[i] = Sub(t),
               \A j \in (i + 1)..Len(q) : q[j] # Unsub(t)
        PROVE  Ends(r, S, t)
    <3>1. ASSUME NEW j \in 1..Len(r), j + 1 > i PROVE r[j] # Unsub(t)
      <4>1. j + 1 \in (i + 1)..Len(q) /\ r[j] = q[j + 1]
        BY <1>1, <3>1
      <4> QED
        BY <2>1, <4>1
    <3>2. CASE i = 1
      <4>1. t \in S /\ \A j \in 1..Len(r) : r[j] # Unsub(t)
        BY <1>1, <1>5, <2>1, <3>1, <3>2
      <4> QED
        BY <4>1 DEF Ends
    <3>3. CASE i # 1
      <4>1. i - 1 \in 1..Len(r) /\ r[i - 1] = Sub(t)
        BY <1>1, <1>2, <2>1, <3>3
      <4>2. \A j \in ((i - 1) + 1)..Len(r) : r[j] # Unsub(t)
        BY <1>1, <3>1
      <4> QED
        BY <4>1, <4>2 DEF Ends
    <3> QED
      BY <3>2, <3>3
  <2>2. ASSUME t \in T, \A j \in 1..Len(q) : q[j] # Unsub(t) PROVE Ends(r, S, t)
    <3>1. t \in S /\ \A j \in 1..Len(r) : r[j] # Unsub(t)
      BY <1>1, <1>5, <2>2
    <3> QED
      BY <3>1 DEF Ends
  <2> QED
    BY <1>7, <2>1, <2>2 DEF Ends
<1> QED
  BY <1>1, <1>6, <1>7 DEF r

(* A queue that was sent to its end.                                       *)
LEMMA EndsEmpty == ASSUME NEW T, NEW t PROVE Ends(<<>>, T, t) <=> t \in T
  BY DEF Ends

(* The handlers add no operation, one or two.                              *)
LEMMA Adds ==
  ASSUME NEW q \in Seq(Operations), NEW a \in Operations, NEW b \in Operations
  PROVE  /\ q \o <<>> = q
         /\ q \o <<a>> = Append(q, a)
         /\ q \o <<a, b>> = Append(Append(q, a), b)
OBVIOUS

LEMMA SubUnsub ==
  /\ \A t \in Topics : Sub(t) \in Operations /\ Unsub(t) \in Operations
  /\ \A t, u : Sub(t) # Unsub(u)
  /\ \A t, u : (Sub(t) = Sub(u) => t = u) /\ (Unsub(t) = Unsub(u) => t = u)
BY DEF Operations, Sub, Unsub

-----------------------------------------------------------------------------
(* What Subscription adds is a subscription or nothing.                    *)
LEMMA Subscribes ==
  ASSUME NEW q \in Seq(Operations), NEW u \in Users \union {Nobody}, NEW on \in BOOLEAN
  PROVE  LET r == q \o Subscription(u, on)
         IN  IF u # Nobody /\ on THEN r = Append(q, Sub(u)) ELSE r = q
BY Adds, SubUnsub DEF Subscription, Topics

LEMMA InitIInv == Init => IInv
<1> SUFFICES ASSUME Init PROVE IInv
  OBVIOUS
<1>1. TypeOK
  <2>1. Sub(General) \in Operations
    BY SubUnsub DEF Topics
  <2>2. queue \in Seq(Operations)
    BY <2>1 DEF Init
  <2> QED
    BY <2>2 DEF Init, TypeOK, Operations
<1> QED
  BY <1>1 DEF Init, IInv, OnWillBe, OffWillBe

(* One step for all: what each action adds to the queue, and what becomes  *)
(* of the phone.                                                           *)
LEMMA Step == ASSUME IInv, [Next]_vars PROVE IInv'
<1> USE DistinctAssumption
<1>0. queue \in Seq(Operations)
  BY DEF IInv, TypeOK, Operations
<1>1. ASSUME NEW u \in Users, LogIn(u) PROVE IInv'
  <2>1. queue' = IF notification THEN Append(queue, Sub(u)) ELSE queue
    BY <1>0, <1>1, Subscribes DEF LogIn, IInv, TypeOK
  <2>2. TypeOK'
    <3>1. Sub(u) \in Operations
      BY SubUnsub DEF Topics
    <3>2. queue' \in Seq(Operations)
      BY <1>0, <2>1, <3>1
    <3> QED
      BY <1>1, <3>2 DEF LogIn, IInv, TypeOK, Operations, history
  <2>3. OnWillBe'
    BY <1>0, <1>1, <2>1, EndsAppend, SubUnsub DEF LogIn, OnWillBe, Will, Topics, history
  <2>4. OffWillBe'
    BY <1>1, <2>1 DEF LogIn, IInv, OffWillBe, Will, history
  <2> QED
    BY <2>2, <2>3, <2>4 DEF IInv
<1>2. CASE LogOut
  BY <1>2 DEF LogOut, IInv, TypeOK, OnWillBe, OffWillBe, Will, phone, history
<1>3. CASE ShowUnLogged
  BY <1>3 DEF ShowUnLogged, IInv, TypeOK, OnWillBe, OffWillBe, Will, phone, history
<1>4. CASE Switch
  <2>1. CASE user = Nobody
    <3>1. queue' = queue
      BY <1>0, <1>4, <2>1, Adds, SubUnsub DEF Switch
    <3> QED
      BY <1>4, <2>1, <3>1 DEF Switch, IInv, TypeOK, OnWillBe, OffWillBe, Will
  <2>2. CASE user # Nobody /\ notification'
    <3> DEFINE q == Append(queue, Sub(user))
    <3>1. user \in Users /\ Sub(user) \in Operations /\ Sub(General) \in Operations
      BY <2>2, SubUnsub DEF IInv, TypeOK, Topics
    <3>2. queue' = Append(q, Sub(General)) /\ q \in Seq(Operations)
      BY <1>0, <1>4, <2>2, <3>1, Adds DEF Switch
    <3>3. Ends(q, topics, user)
      BY <1>0, <3>1, EndsAppend
    <3> HIDE DEF q
    <3>4. Ends(Append(q, Sub(General)), topics, user) /\ queue' \in Seq(Operations)
      BY <3>1, <3>2, <3>3, EndsAppend, SubUnsub
    <3>5. Will(user)'
      BY <1>4, <3>2, <3>4 DEF Switch, Will
    <3> QED
      BY <1>4, <2>2, <3>4, <3>5 DEF Switch, IInv, TypeOK, OnWillBe, OffWillBe, Operations
  <2>3. CASE user # Nobody /\ ~notification'
    <3> DEFINE q == Append(queue, Unsub(user))
    <3>1. user \in Users /\ Unsub(user) \in Operations /\ Unsub(General) \in Operations
      BY <2>3, SubUnsub DEF IInv, TypeOK, Topics
    <3>2. queue' = Append(q, Unsub(General)) /\ q \in Seq(Operations)
      BY <1>0, <1>4, <2>3, <3>1, Adds DEF Switch
    <3>3. ~Ends(q, topics, user)
      BY <1>0, <3>1, EndsAppend, SubUnsub
    <3> HIDE DEF q
    <3>4. /\ ~Ends(Append(q, Unsub(General)), topics, user)
          /\ ~Ends(Append(q, Unsub(General)), topics, General)
          /\ queue' \in Seq(Operations)
      BY <3>1, <3>2, <3>3, EndsAppend, SubUnsub
    <3>5. ~Will(user)' /\ ~Will(General)'
      BY <1>4, <3>2, <3>4 DEF Switch, Will
    <3> QED
      BY <1>4, <2>3, <3>4, <3>5 DEF Switch, IInv, TypeOK, OnWillBe, OffWillBe, Operations
  <2> QED
    BY <2>1, <2>2, <2>3
<1>5. CASE Store
  BY <1>5 DEF Store, IInv, TypeOK, OnWillBe, OffWillBe, Will, history
<1>6. CASE Send
  <2>1. \A t : Will(t)' <=> Will(t)
    BY <1>0, <1>6, EndsSend DEF Send, Will
  <2>2. TypeOK'
    <3>1. Head(queue).topic \in Topics /\ Tail(queue) \in Seq(Operations)
      <4>1. Head(queue) \in Operations /\ Tail(queue) \in Seq(Operations)
        BY <1>0, <1>6 DEF Send
      <4> QED
        BY <4>1 DEF Operations
    <3> QED
      BY <1>6, <3>1 DEF Send, IInv, TypeOK, Operations, history
  <2> QED
    BY <1>6, <2>1, <2>2 DEF Send, IInv, OnWillBe, OffWillBe, history
<1>7. CASE Restart
  <2>1. PICK k \in 0..Len(queue) :
          /\ queue' = SubSeq(queue, 1, k) \o <<Sub(General)>> \o Subscription(user, stored)
          /\ since' = since \union {"start"} \union
                        IF k < Len(queue) \/ stored # notification THEN {"lost"} ELSE {}
    BY <1>7 DEF Restart
  <2> DEFINE q == Append(SubSeq(queue, 1, k), Sub(General))
  <2>2. SubSeq(queue, 1, k) \in Seq(Operations) /\ Sub(General) \in Operations
    BY <1>0, SubUnsub DEF Topics
  <2>3. q \in Seq(Operations) /\ queue' = q \o Subscription(user, stored)
    BY <2>1, <2>2, Adds
  <2>4. k = Len(queue) => SubSeq(queue, 1, k) = queue
    BY <1>0
  <2>5. /\ \A u \in Users : k = Len(queue) => (Ends(q, topics, u) => Will(u))
        /\ q \in Seq(Operations)
    BY <2>2, <2>3, <2>4, EndsAppend, SubUnsub DEF Will
  <2> HIDE DEF q
  <2>6. IF user # Nobody /\ stored THEN queue' = Append(q, Sub(user)) ELSE queue' = q
    BY <2>3, Subscribes DEF IInv, TypeOK
  <2>7. TypeOK'
    <3>1. user # Nobody => Sub(user) \in Operations
      BY SubUnsub DEF IInv, TypeOK, Topics
    <3>2. queue' \in Seq(Operations)
      BY <2>5, <2>6, <3>1
    <3> QED
      BY <1>7, <2>1, <3>2 DEF Restart, IInv, TypeOK, Operations
  <2>8. OnWillBe'
    <3> SUFFICES ASSUME user # Nobody, stored PROVE Will(user)'
      BY <1>7 DEF Restart, OnWillBe
    <3>1. Sub(user) \in Operations
      BY SubUnsub DEF IInv, TypeOK, Topics
    <3>2. Ends(Append(q, Sub(user)), topics, user)
      BY <2>5, <3>1, EndsAppend
    <3> QED
      BY <1>7, <2>6, <3>2 DEF Restart, Will
  <2>9. OffWillBe'
    <3> SUFFICES ASSUME ~stored
                 PROVE  /\ \A u \in Users : Will(u)' => switchedBy # u \/ "lost" \in since'
                        /\ "start" \in since'
      BY <1>7 DEF Restart, OffWillBe
    <3>1. "start" \in since' /\ since \subseteq since'
      BY <2>1
    <3>2. \A u \in Users : Will(u)' => Ends(q, topics, u)
      BY <1>7, <2>6 DEF Restart, Will
    <3>3. CASE k < Len(queue) \/ stored # notification
      BY <2>1, <3>1, <3>3
    <3>4. CASE ~(k < Len(queue) \/ stored # notification)
      <4>1. k = Len(queue) /\ ~notification
        BY <1>0, <3>4
      <4> QED
        BY <2>5, <3>1, <3>2, <4>1 DEF IInv, OffWillBe
    <3> QED
      BY <3>3, <3>4
  <2> QED
    BY <2>7, <2>8, <2>9 DEF IInv
<1>8. CASE UNCHANGED vars
  BY <1>8 DEF vars, phone, history, IInv, TypeOK, OnWillBe, OffWillBe, Will
<1> QED
  BY <1>1, <1>2, <1>3, <1>4, <1>5, <1>6, <1>7, <1>8 DEF Next

LEMMA Inductive == Spec => []IInv
  BY InitIInv, Step, PTL DEF Spec

-----------------------------------------------------------------------------
(* Whoever is logged in with the switch on gets their notifications once   *)
(* the queue is sent, for any users and any number of operations under     *)
(* way, lost ones and restarts included.                                   *)
THEOREM SwitchedOnIsOn == Spec => []OnIsOn
<1>1. IInv => OnIsOn
  BY EndsEmpty DEF IInv, OnWillBe, Will, OnIsOn
<1> QED
  BY <1>1, Inductive, PTL

(* With the switch off they get them only if somebody else used it last,   *)
(* or if what it did was lost; those for everybody only since a start.     *)
THEOREM SwitchedOffIsOff == Spec => []OffIsOff
<1>1. IInv => OffIsOff
  <2> SUFFICES ASSUME IInv, user # Nobody, ~notification, queue = <<>>
               PROVE  /\ user \in topics => switchedBy # user \/ "lost" \in since
                      /\ General \in topics => "start" \in since \/ switchedBy = Nobody
    BY DEF OffIsOff
  <2>1. user \in Users /\ \A t : Will(t) <=> t \in topics
    BY EndsEmpty DEF IInv, TypeOK, Will
  <2> QED
    BY <2>1 DEF IInv, OffWillBe
<1> QED
  BY <1>1, Inductive, PTL

-----------------------------------------------------------------------------
(* The count of unread conversations: the inductive invariant              *)

(* What is in a box has been written.                                      *)
Written == \A m \in box : at[m] # NotYet

Hidden(m) == \E r \in read : peer[r] = peer[m] /\ MayHide(r, m)

(* The home page has counted the conversation of what was to be found, or  *)
(* not looked at it yet, if it is not read or hidden by now.               *)
DueIsFound == \A m \in due \ read : peer[m] \in todo \union counted \/ Hidden(m)

AllLookedAt == home = "counted" => todo = {}

UnreadIInv == UnreadTypeOK /\ Written /\ DueIsFound /\ AllLookedAt

-----------------------------------------------------------------------------
(* Division by any number                                                  *)
LEMMA Division ==
  ASSUME NEW n \in Nat, NEW d \in Nat \ {0}
  PROVE  /\ n \div d \in Nat /\ n % d \in 0..(d - 1)
         /\ n = (n \div d) * d + (n % d)
OBVIOUS

LEMMA Product ==
  ASSUME NEW a \in Nat, NEW b \in Nat, NEW d \in Nat, a < b
  PROVE  a * d + d <= b * d /\ a * d \in Nat /\ b * d \in Nat
<1>1. PICK c \in Nat : b = a + 1 + c
  BY b - a - 1 \in Nat
<1>2. b * d = a * d + d + c * d /\ c * d \in Nat /\ a * d \in Nat
  BY <1>1
<1>. QED BY <1>2

LEMMA DivisionUnique ==
  ASSUME NEW q \in Nat, NEW r \in Nat, NEW d \in Nat \ {0}, r < d
  PROVE  (q * d + r) \div d = q
<1>. DEFINE n == q * d + r
            k == n \div d
            s == n % d
<1>1. n \in Nat /\ q * d \in Nat /\ n = q * d + r
  OBVIOUS
<1>. HIDE DEF n
<1>2. k \in Nat /\ s \in 0..(d - 1) /\ n = k * d + s
  BY <1>1, Division
<1>. HIDE DEF k, s
<1>3. ~(k < q)
  <2>1. SUFFICES ASSUME k < q PROVE FALSE
    OBVIOUS
  <2>2. k * d + d <= q * d /\ k * d \in Nat
    BY <1>2, <2>1, Product
  <2>. QED BY <1>1, <1>2, <2>2
<1>4. ~(q < k)
  <2>1. SUFFICES ASSUME q < k PROVE FALSE
    OBVIOUS
  <2>2. q * d + d <= k * d /\ k * d \in Nat
    BY <1>2, <2>1, Product
  <2>. QED BY <1>1, <1>2, <2>2
<1>5. k = q
  BY <1>2, <1>3, <1>4
<1>. QED BY <1>5 DEF k, n

LEMMA DivisionTwice ==
  ASSUME NEW n \in Nat, NEW d \in Nat \ {0}, NEW e \in Nat \ {0}
  PROVE  n \div (e * d) = (n \div d) \div e
<1>. DEFINE a == n \div d
            p == n % d
            q == a \div e
            h == a % e
<1>1. a \in Nat /\ p \in 0..(d - 1) /\ n = a * d + p
  BY Division
<1>. HIDE DEF a, p
<1>2. q \in Nat /\ h \in 0..(e - 1) /\ a = q * e + h
  BY <1>1, Division
<1>. HIDE DEF q, h
<1>3. /\ e * d \in Nat \ {0} /\ h * d + p \in Nat
      /\ n = q * (e * d) + (h * d + p)
  BY <1>1, <1>2
<1>4. h * d + p < e * d
  <2>1. h * d + d <= e * d /\ h * d \in Nat
    BY <1>2, Product
  <2>. QED BY <1>1, <2>1
<1>5. n \div (e * d) = q
  BY <1>2, <1>3, <1>4, DivisionUnique
<1>. QED BY <1>5 DEF q, a

(* Of two times the later, on days d and e, in their hours h and i and p   *)
(* and q instants into those, has the later text, where the first hour of  *)
(* a day is its last, unless the other is in the first hour of that day.   *)
LEMMA Digits ==
  ASSUME NEW H \in Nat \ {0}, NEW P \in Nat \ {0},
         NEW d \in Nat, NEW h \in 0..(H - 1), NEW p \in 0..(P - 1),
         NEW e \in Nat, NEW i \in 0..(H - 1), NEW q \in 0..(P - 1),
         (d * H + h) * P + p < (e * H + i) * P + q,
         h = 0 => d # e,
         NEW j, j = IF h = 0 THEN H ELSE h,
         NEW k, k = IF i = 0 THEN H ELSE i
  PROVE  (d * (H + 1) + j) * P + p < (e * (H + 1) + k) * P + q
<1>1. /\ d * H \in Nat /\ e * H \in Nat /\ d * (H + 1) \in Nat /\ e * (H + 1) \in Nat
      /\ d * (H + 1) = d * H + d /\ e * (H + 1) = e * H + e
      /\ j \in 1..H /\ k \in 1..H /\ h <= j
  OBVIOUS
<1>. DEFINE a == d * H + h
            b == e * H + i
            x == d * (H + 1) + j
            y == e * (H + 1) + k
<1>2. a \in Nat /\ b \in Nat /\ x \in Nat /\ y \in Nat /\ a * P + p < b * P + q
  BY <1>1
<1>3. a < b \/ (a = b /\ p < q)
  <2>. HIDE DEF a, b
  <2>1. ~(b < a)
    <3>1. SUFFICES ASSUME b < a PROVE FALSE
      OBVIOUS
    <3>2. b * P + P <= a * P /\ a * P \in Nat /\ b * P \in Nat
      BY <1>2, <3>1, Product
    <3>. QED BY <1>2, <3>2
  <2>. QED BY <1>2, <2>1
<1>4. x < y \/ (x = y /\ p < q)
  <2>1. CASE d < e
    <3>1. d * (H + 1) + (H + 1) <= e * (H + 1)
      BY <2>1, Product
    <3>. QED BY <1>1, <3>1
  <2>2. CASE e < d
    <3>1. e * H + H <= d * H
      BY <2>2, Product
    <3>. QED BY <1>1, <1>3, <3>1
  <2>3. CASE d = e
    <3>1. h < i \/ (h = i /\ p < q)
      BY <1>1, <1>3, <2>3
    <3>2. h # 0 /\ j = h /\ i # 0 /\ k = i
      BY <2>3, <3>1
    <3>. QED BY <1>1, <2>3, <3>1, <3>2
  <2>. QED BY <2>1, <2>2, <2>3
<1>5. x * P + p < y * P + q
  <2>. HIDE DEF x, y
  <2>1. CASE x < y
    <3>1. x * P + P <= y * P /\ x * P \in Nat /\ y * P \in Nat
      BY <1>2, <2>1, Product
    <3>. QED BY <3>1
  <2>2. CASE x = y /\ p < q
    <3>1. x * P \in Nat
      BY <1>2
    <3>. QED BY <2>2, <3>1
  <2>. QED BY <1>4, <2>1, <2>2
<1>. QED BY <1>5

-----------------------------------------------------------------------------
(* A message whose text of the time is not before that of another one is   *)
(* not older, or is one of those that may hide it.                         *)
LEMMA LaterTextHides ==
  ASSUME UnreadTypeOK, Written, NEW r \in box, NEW m \in box, Timestamp(m) <= Timestamp(r)
  PROVE  MayHide(r, m)
<1>. SUFFICES ASSUME at[r] < at[m], Zone[from[r]] = Zone[from[m]], Hour(r) = 0 => Day(r) # Day(m)
              PROVE  FALSE
  <2>1. at[r] \in Nat /\ at[m] \in Nat
    BY UnreadAssumption DEF UnreadTypeOK, Written
  <2>. QED BY <2>1 DEF MayHide
<1>1. ASSUME NEW o \in {r, m}
      PROVE  /\ Local(o) \in Nat /\ Hour(o) \in 0..(Hours - 1) /\ Day(o) \in Nat
             /\ Local(o) % PerHour \in 0..(PerHour - 1)
             /\ Local(o) = (Day(o) * Hours + Hour(o)) * PerHour + (Local(o) % PerHour)
  <2>1. Local(o) \in Nat
    <3>1. at[o] \in Nat /\ Zone[from[o]] \in Nat /\ PerHour \in Nat
      BY UnreadAssumption DEF UnreadTypeOK, Written
    <3>. QED BY <3>1 DEF Local
  <2>. DEFINE n == Local(o)
              a == n \div PerHour
  <2>. HIDE DEF n
  <2>2. n \in Nat /\ PerHour \in Nat \ {0} /\ Hours \in Nat \ {0}
    BY <2>1, UnreadAssumption DEF n
  <2>3. a \in Nat /\ n % PerHour \in 0..(PerHour - 1) /\ n = a * PerHour + (n % PerHour)
    BY <2>2, Division
  <2>. HIDE DEF a
  <2>4. /\ a \div Hours \in Nat /\ a % Hours \in 0..(Hours - 1)
        /\ a = (a \div Hours) * Hours + (a % Hours)
    BY <2>2, <2>3, Division
  <2>5. n \div (Hours * PerHour) = a \div Hours
    BY <2>2, DivisionTwice DEF a
  <2>6. Day(o) = a \div Hours /\ Hour(o) = a % Hours
    BY <2>5 DEF Day, Hour, a, n
  <2>. QED BY <2>2, <2>3, <2>4, <2>6 DEF n
<1>2. Local(r) < Local(m)
  <2>1. /\ at[r] \in Nat /\ at[m] \in Nat /\ Zone[from[r]] * PerHour \in Nat
    BY UnreadAssumption DEF UnreadTypeOK, Written
  <2>. QED BY <2>1 DEF Local
<1>. DEFINE p == Local(r) % PerHour
            q == Local(m) % PerHour
            d == Day(r)
            e == Day(m)
            h == Hour(r)
            i == Hour(m)
            j == IF h = 0 THEN Hours ELSE h
            k == IF i = 0 THEN Hours ELSE i
<1>3. /\ d \in Nat /\ h \in 0..(Hours - 1) /\ p \in 0..(PerHour - 1)
      /\ e \in Nat /\ i \in 0..(Hours - 1) /\ q \in 0..(PerHour - 1)
      /\ (d * Hours + h) * PerHour + p < (e * Hours + i) * PerHour + q
      /\ h = 0 => d # e
  <2>1. Local(r) = (d * Hours + h) * PerHour + p
    BY <1>1
  <2>2. Local(m) = (e * Hours + i) * PerHour + q
    BY <1>1
  <2>3. (d * Hours + h) * PerHour + p < (e * Hours + i) * PerHour + q
    <3>. HIDE DEF d, e, h, i, p, q
    <3>. QED BY <1>2, <2>1, <2>2
  <2>. QED BY <1>1, <2>3
<1>4. Timestamp(r) = (d * (Hours + 1) + j) * PerHour + p
  BY DEF Timestamp, TextHour
<1>5. Timestamp(m) = (e * (Hours + 1) + k) * PerHour + q
  BY DEF Timestamp, TextHour
<1>. HIDE DEF p, q, d, e, h, i
<1>6. (d * (Hours + 1) + j) * PerHour + p < (e * (Hours + 1) + k) * PerHour + q
  <2>1. Hours \in Nat \ {0} /\ PerHour \in Nat \ {0}
    BY UnreadAssumption
  <2>. QED BY <1>3, <2>1, Digits
<1>7. Timestamp(r) < Timestamp(m)
  BY <1>4, <1>5, <1>6
<1>8. Timestamp(r) \in Nat /\ Timestamp(m) \in Nat
  <2>1. Hours \in Nat /\ PerHour \in Nat /\ j \in Nat /\ k \in Nat
    BY <1>3, UnreadAssumption
  <2>. HIDE DEF j, k
  <2>. QED BY <1>3, <1>4, <1>5, <2>1
<1>. QED BY <1>7, <1>8

(* What hides a message goes on hiding it.                                 *)
LEMMA HiddenStays ==
  ASSUME UnreadTypeOK, read \subseteq read', \A m \in box : at'[m] = at[m],
         NEW m \in box, Hidden(m)
  PROVE  Hidden(m)'
<1>1. PICK r \in read : peer[r] = peer[m] /\ MayHide(r, m)
  BY DEF Hidden
<1>2. at'[r] = at[r] /\ at'[m] = at[m]
  BY <1>1 DEF UnreadTypeOK
<1>3. Local(r)' = Local(r) /\ Local(m)' = Local(m)
  BY <1>2 DEF Local
<1>4. Hour(r)' = Hour(r) /\ Day(r)' = Day(r) /\ Day(m)' = Day(m)
  BY <1>3 DEF Hour, Day
<1>5. MayHide(r, m)'
  BY <1>1, <1>2, <1>4 DEF MayHide
<1>. QED BY <1>1, <1>5 DEF Hidden

(* So do the conversations that are looked at, or will be.                 *)
LEMMA DueStays ==
  ASSUME UnreadIInv, read \subseteq read', \A m \in box : at'[m] = at[m],
         due' \subseteq due, due' # {} => todo \union counted \subseteq todo' \union counted'
  PROVE  DueIsFound'
<1>1. ASSUME NEW m \in due' \ read' PROVE peer[m] \in todo' \union counted' \/ Hidden(m)'
  <2>1. m \in due \ read /\ m \in box
    BY <1>1 DEF UnreadIInv, UnreadTypeOK
  <2>2. CASE peer[m] \in todo \union counted
    BY <1>1, <2>2
  <2>3. CASE Hidden(m)
    BY <2>1, <2>3, HiddenStays DEF UnreadIInv
  <2>. QED BY <2>1, <2>2, <2>3 DEF UnreadIInv, DueIsFound
<1>. QED BY <1>1 DEF DueIsFound

LEMMA MessageStep ==
  ASSUME UnreadIInv, NEW m \in Messages, Write(m) \/ Arrive(m) \/ Mark(m)
  PROVE  UnreadIInv'
<1>. USE DEF boxes, page
<1>1. UnreadTypeOK /\ Written /\ AllLookedAt
  BY DEF UnreadIInv
<1>2. UNCHANGED <<now, chats, home, todo, counted, due>>
  BY DEF Write, Arrive, Mark
<1>3. CASE Write(m)
  <2>1. /\ at[m] = NotYet /\ at' = [at EXCEPT ![m] = now]
        /\ \/ box' = box \union {m} /\ read' = read \union {m}
           \/ box' = box /\ read' = read
    BY <1>3 DEF Write
  <2>2. now # NotYet /\ m \notin box
    BY <1>1, <2>1, UnreadAssumption DEF UnreadTypeOK, Written
  <2>3. UnreadTypeOK' /\ Written'
    BY <1>1, <1>2, <2>1, <2>2 DEF UnreadTypeOK, Written
  <2>4. read \subseteq read' /\ \A o \in box : at'[o] = at[o]
    BY <1>1, <2>1, <2>2 DEF UnreadTypeOK
  <2>5. DueIsFound'
    BY <1>2, <2>4, DueStays
  <2>. QED BY <1>1, <1>2, <2>3, <2>5 DEF UnreadIInv, AllLookedAt
<1>4. CASE Arrive(m) \/ Mark(m)
  <2>1. /\ at' = at /\ read \subseteq read'
        /\ UnreadTypeOK' /\ Written'
    BY <1>1, <1>2, <1>4 DEF Arrive, Mark, UnreadTypeOK, Written
  <2>2. DueIsFound'
    BY <1>2, <2>1, DueStays
  <2>. QED BY <1>1, <1>2, <2>1, <2>2 DEF UnreadIInv, AllLookedAt
<1>. QED BY <1>3, <1>4

(* One conversation is looked at: its last message is unread, or hides     *)
(* whatever is.                                                            *)
LEMMA GetLastStep == ASSUME UnreadIInv, NEW c \in Peers, GetLast(c) PROVE UnreadIInv'
<1>. USE DEF boxes, page
<1>1. UnreadTypeOK /\ Written /\ DueIsFound /\ AllLookedAt
  BY DEF UnreadIInv
<1>2. PICK l \in Last(c) : counted' = IF l \in read THEN counted ELSE counted \union {c}
  BY DEF GetLast
<1>3. /\ c \in todo /\ todo' = todo \ {c}
      /\ home' = IF todo' = {} THEN "counted" ELSE home
      /\ UNCHANGED <<now, at, box, read, chats, due>>
  BY DEF GetLast
<1>4. UnreadTypeOK' /\ Written'
  BY <1>1, <1>2, <1>3 DEF UnreadTypeOK, Written
<1>5. AllLookedAt'
  BY <1>1, <1>3 DEF AllLookedAt
<1>6. DueIsFound'
  <2>1. ASSUME NEW m \in due' \ read' PROVE peer[m] \in todo' \union counted' \/ Hidden(m)'
    <3>1. m \in due \ read /\ m \in box
      BY <1>1, <1>3, <2>1 DEF UnreadTypeOK
    <3>2. CASE Hidden(m)
      BY <1>1, <1>3, <3>1, <3>2, HiddenStays
    <3>3. CASE peer[m] \in todo \union counted /\ (peer[m] # c \/ l \notin read)
      BY <1>2, <1>3, <3>3
    <3>4. CASE peer[m] = c /\ l \in read
      <4>1. l \in box /\ peer[l] = c /\ Timestamp(m) <= Timestamp(l)
        BY <1>2, <3>1, <3>4 DEF Last, Box
      <4>2. MayHide(l, m)
        BY <1>1, <3>1, <4>1, LaterTextHides
      <4>3. Hidden(m)
        BY <3>4, <4>1, <4>2 DEF Hidden
      <4>. QED BY <1>1, <1>3, <3>1, <4>3, HiddenStays
    <3>. QED BY <1>1, <3>1, <3>2, <3>3, <3>4 DEF DueIsFound
  <2>. QED BY <2>1 DEF DueIsFound
<1>. QED BY <1>4, <1>5, <1>6 DEF UnreadIInv

LEMMA HomeStep ==
  ASSUME UnreadIInv, Open \/ GetChats \/ Leave
  PROVE  UnreadIInv'
<1>. USE DEF boxes, page
<1>1. UnreadTypeOK /\ Written /\ AllLookedAt
  BY DEF UnreadIInv
<1>2. UNCHANGED <<now, at, box, read, chats>>
  BY DEF Open, GetChats, Leave
<1>3. UnreadTypeOK' /\ Written' /\ AllLookedAt'
  BY <1>1, <1>2 DEF Open, GetChats, Leave, UnreadTypeOK, Written, AllLookedAt
<1>4. DueIsFound'
  <2>1. CASE Open
    BY <1>2, <2>1, DueStays DEF Open
  <2>2. CASE GetChats
    BY <1>2, <2>2 DEF GetChats, DueIsFound
  <2>3. CASE Leave
    BY <2>3 DEF Leave, DueIsFound
  <2>. QED BY <2>1, <2>2, <2>3
<1>. QED BY <1>3, <1>4 DEF UnreadIInv

LEMMA UnreadStep == ASSUME UnreadIInv, [UnreadNext]_unreadVars PROVE UnreadIInv'
<1>. USE DEF boxes, page
<1>1. CASE Tick \/ (\E c \in Peers : List(c) \/ Lose(c)) \/ UNCHANGED unreadVars
  <2>1. UNCHANGED <<at, box, read, home, todo, counted, due>>
    BY <1>1 DEF Tick, List, Lose, unreadVars
  <2>2. now' \in 0..MaxTime /\ chats' \subseteq Peers
    BY <1>1, UnreadAssumption DEF Tick, List, Lose, unreadVars, UnreadIInv, UnreadTypeOK
  <2>3. DueIsFound'
    BY <2>1, DueStays
  <2>. QED BY <2>1, <2>2, <2>3 DEF UnreadIInv, UnreadTypeOK, Written, AllLookedAt
<1>2. CASE \E m \in Messages : Write(m) \/ Arrive(m) \/ Mark(m)
  BY <1>2, MessageStep
<1>3. CASE Open \/ GetChats \/ Leave
  BY <1>3, HomeStep
<1>4. CASE \E c \in Peers : GetLast(c)
  BY <1>4, GetLastStep
<1>. QED BY <1>1, <1>2, <1>3, <1>4 DEF UnreadNext

(* When the home page has counted, every conversation with a message that  *)
(* was unread when it got the list, and still is, is counted, unless a     *)
(* read message hides it: one that is not older, of another zone's clock,  *)
(* or of the first hour of the same day (getNumbersLastMessage).           *)
THEOREM UnreadAreCounted == UnreadSpec => []UnreadIsCounted
<1>1. UnreadInit => UnreadIInv
  BY UnreadAssumption
  DEF UnreadInit, UnreadIInv, UnreadTypeOK, Written, DueIsFound, AllLookedAt
<1>2. UnreadIInv => UnreadIsCounted
  BY DEF UnreadIInv, DueIsFound, AllLookedAt, Hidden, UnreadIsCounted
<1>. QED BY <1>1, <1>2, UnreadStep, PTL DEF UnreadSpec
=============================================================================
