---------------------------- MODULE FollowProofs ----------------------------
(* The invariants of Follow, for any users, pages and number of taps that  *)
(* wait for an answer, and those of Profile, for any users and saves.      *)
EXTENDS Follow, Profile, TLAPS

(* A write `w' waits, and no "unfollow2" waits behind it.                  *)
LastSay(s) ==
  \E i \in 1..Len(s) :
    s[i] = "follow2" /\ \A j \in (i + 1)..Len(s) : s[j] # "unfollow2"

(* Why a follower's page ends up offering to unfollow: the answer that     *)
(* made the user a follower also put a "follow2" behind every "unfollow2"  *)
(* that may still take the user out of the page's copy.                    *)
CopyCatchesUp ==
  \A p \in Pages :
    view[p] # "closed" /\ ~touched[p] /\ me[p] \in followers[them[p]] =>
      \/ LastSay(sent[p])
      \/ /\ ~Contains(sent[p], "unfollow2")
         /\ view[p] = "loaded" => times[p] > 0

-----------------------------------------------------------------------------
(* What a tap, or the second write of one, adds to the queue of a page.    *)
LEMMA QueueAppend ==
  ASSUME NEW s \in Seq(Writes), NEW w \in Writes
  PROVE  /\ Append(s, w) \in Seq(Writes)
         /\ \A e : Contains(Append(s, w), e) <=> Contains(s, e) \/ e = w
         /\ LastSay(s) /\ w # "unfollow2" => LastSay(Append(s, w))
         /\ w = "follow2" => LastSay(Append(s, w))
<1> DEFINE t == Append(s, w)
<1>1. /\ t \in Seq(Writes)
      /\ Len(s) \in Nat
      /\ Len(t) = Len(s) + 1
      /\ \A i \in 1..Len(s) : t[i] = s[i]
      /\ t[Len(t)] = w
  OBVIOUS
<1> HIDE DEF t
<1>2. \A e : Contains(t, e) <=> Contains(s, e) \/ e = w
  BY <1>1 DEF Contains
<1>3. LastSay(s) /\ w # "unfollow2" => LastSay(t)
  <2> SUFFICES ASSUME LastSay(s), w # "unfollow2" PROVE LastSay(t)
    OBVIOUS
  <2>1. PICK i \in 1..Len(s) :
          s[i] = "follow2" /\ \A j \in (i + 1)..Len(s) : s[j] # "unfollow2"
    BY DEF LastSay
  <2>2. \A j \in (i + 1)..Len(t) : t[j] # "unfollow2"
    BY <1>1, <2>1
  <2> QED
    BY <1>1, <2>1, <2>2 DEF LastSay
<1>4. w = "follow2" => LastSay(t)
  BY <1>1 DEF LastSay
<1> QED
  BY <1>1, <1>2, <1>3, <1>4 DEF t

(* What the answer to the oldest write leaves in the queue.                *)
LEMMA QueueTail ==
  ASSUME NEW s \in Seq(Writes), s # <<>>
  PROVE  /\ Tail(s) \in Seq(Writes)
         /\ \A e : Contains(s, e) <=> Head(s) = e \/ Contains(Tail(s), e)
         /\ LastSay(s) =>
              \/ LastSay(Tail(s))
              \/ Head(s) = "follow2" /\ ~Contains(Tail(s), "unfollow2")
<1> DEFINE t == Tail(s)
<1>1. /\ t \in Seq(Writes)
      /\ Len(s) \in Nat /\ Len(s) >= 1
      /\ Len(t) = Len(s) - 1
      /\ \A i \in 1..Len(t) : t[i] = s[i + 1]
      /\ Head(s) = s[1]
  OBVIOUS
<1> HIDE DEF t
<1>2. \A i \in 2..Len(s) : i - 1 \in 1..Len(t) /\ t[i - 1] = s[i]
  BY <1>1
<1>3. ASSUME NEW e PROVE Contains(s, e) <=> Head(s) = e \/ Contains(t, e)
  BY <1>1, <1>2 DEF Contains
<1>4. ASSUME LastSay(s)
      PROVE  LastSay(t) \/ (Head(s) = "follow2" /\ ~Contains(t, "unfollow2"))
  <2>1. PICK i \in 1..Len(s) :
          s[i] = "follow2" /\ \A j \in (i + 1)..Len(s) : s[j] # "unfollow2"
    BY <1>4 DEF LastSay
  <2>2. \A j \in 1..Len(t) : j + 1 > i => t[j] # "unfollow2"
    BY <1>1, <2>1
  <2>3. CASE i = 1
    BY <1>1, <2>1, <2>2, <2>3 DEF Contains
  <2>4. CASE i # 1
    BY <1>1, <1>2, <2>1, <2>2, <2>4 DEF LastSay
  <2> QED
    BY <2>3, <2>4
<1> QED
  BY <1>1, <1>3, <1>4 DEF t

-----------------------------------------------------------------------------
LEMMA TypeStep == ASSUME TypeOK, [Next]_vars PROVE TypeOK'
<1> USE PageAssumption DEF TypeOK, server
<1>1. ASSUME NEW p \in Pages, Open(p) PROVE TypeOK'
  BY <1>1 DEF Open
<1>2. ASSUME NEW p \in Pages, Load(p) PROVE TypeOK'
  BY <1>2 DEF Load
<1>3. ASSUME NEW p \in Pages, Tap(p) PROVE TypeOK'
  BY <1>3, QueueAppend DEF Tap, Writes
<1>4. ASSUME NEW p \in Pages, Follow1(p) PROVE TypeOK'
  <2>1. Append(Tail(sent[p]), "follow2") \in Seq(Writes)
    BY <1>4, QueueTail, QueueAppend DEF Follow1, AnswerFirst, Writes
  <2> QED
    BY <1>4, <2>1 DEF Follow1, AnswerFirst, TouchOthers
<1>5. ASSUME NEW p \in Pages, Follow2(p) PROVE TypeOK'
  BY <1>5, QueueTail DEF Follow2, AnswerSecond
<1>6. ASSUME NEW p \in Pages, Unfollow1(p) PROVE TypeOK'
  <2>1. Append(Tail(sent[p]), "unfollow2") \in Seq(Writes)
    BY <1>6, QueueTail, QueueAppend DEF Unfollow1, AnswerFirst, Writes
  <2> QED
    BY <1>6, <2>1 DEF Unfollow1, AnswerFirst, TouchOthers
<1>7. ASSUME NEW p \in Pages, Unfollow2(p) PROVE TypeOK'
  BY <1>7, QueueTail DEF Unfollow2, AnswerSecond
<1>8. ASSUME NEW p \in Pages, Close(p) PROVE TypeOK'
  BY <1>8 DEF Close
<1>9. ASSUME NEW p \in Pages, Kill(p) PROVE TypeOK'
  <2>1. <<>> \in Seq(Writes) /\ <<me[p], them[p]>> \in Users \X Users
    OBVIOUS
  <2>2. halfway' \subseteq Users \X Users
    BY <1>9, <2>1 DEF Kill
  <2> QED
    BY <1>9, <2>1, <2>2 DEF Kill
<1>10. CASE UNCHANGED vars
  BY <1>10 DEF vars
<1> QED
  BY <1>1, <1>2, <1>3, <1>4, <1>5, <1>6, <1>7, <1>8, <1>9, <1>10
     DEF Next, Answer

(* The type invariant.                                                     *)
THEOREM TypeCorrect == Spec => []TypeOK
<1>1. Init => TypeOK
  BY DEF Init, TypeOK
<1> QED
  BY <1>1, TypeStep, PTL DEF Spec

-----------------------------------------------------------------------------
LEMMA BackedStep ==
  ASSUME TypeOK, FollowersBacked, [Next]_vars PROVE FollowersBacked'
<1> USE PageAssumption DEF TypeOK, FollowersBacked, server
<1>1. ASSUME NEW p \in Pages, Open(p) \/ Load(p) \/ Close(p) PROVE FollowersBacked'
  BY <1>1 DEF Open, Load, Close
<1>2. ASSUME NEW p \in Pages, Tap(p) PROVE FollowersBacked'
  <2>1. \A q \in Pages : Contains(sent[q], "follow2") => Contains(sent'[q], "follow2")
    BY <1>2, QueueAppend DEF Tap, Writes
  <2> QED
    BY <1>2, <2>1 DEF Tap
<1>3. ASSUME NEW p \in Pages, Follow1(p) PROVE FollowersBacked'
  <2>1. \A q \in Pages : Contains(sent[q], "follow2") => Contains(sent'[q], "follow2")
    BY <1>3, QueueTail, QueueAppend DEF Follow1, AnswerFirst, Writes
  <2>2. Contains(sent'[p], "follow2")
    BY <1>3, QueueTail, QueueAppend DEF Follow1, AnswerFirst, Writes
  <2> QED
    BY <1>3, <2>1, <2>2 DEF Follow1, AnswerFirst
<1>4. ASSUME NEW p \in Pages, Follow2(p) PROVE FollowersBacked'
  <2>1. \A q \in Pages : q # p => sent'[q] = sent[q]
    BY <1>4 DEF Follow2, AnswerSecond
  <2>2. /\ them[p] \in followings'[me[p]]
        /\ \A u \in Users : followings[u] \subseteq followings'[u]
    BY <1>4 DEF Follow2, AnswerSecond
  <2>3. followers' = followers /\ halfway' = halfway
    BY <1>4 DEF Follow2, AnswerSecond
  <2>4. ASSUME NEW u \in Users, NEW v \in Users, NEW q \in Pages,
               me[q] = u, them[q] = v, Contains(sent[q], "follow2")
        PROVE  v \in followings'[u] \/ Contains(sent'[q], "follow2")
    BY <2>1, <2>2, <2>4
  <2> QED
    BY <2>2, <2>3, <2>4
<1>5. ASSUME NEW p \in Pages, Unfollow1(p) PROVE FollowersBacked'
  <2>1. \A q \in Pages : Contains(sent[q], "follow2") => Contains(sent'[q], "follow2")
    BY <1>5, QueueTail, QueueAppend DEF Unfollow1, AnswerFirst, Writes
  <2> QED
    BY <1>5, <2>1 DEF Unfollow1, AnswerFirst
<1>6. ASSUME NEW p \in Pages, Unfollow2(p) PROVE FollowersBacked'
  <2>1. \A q \in Pages : Contains(sent[q], "follow2") => Contains(sent'[q], "follow2")
    BY <1>6, QueueTail DEF Unfollow2, AnswerSecond
  <2> QED
    BY <1>6, <2>1 DEF Unfollow2, AnswerSecond
<1>7. ASSUME NEW p \in Pages, Kill(p) PROVE FollowersBacked'
  <2>1. /\ followers' = followers /\ followings' = followings
        /\ \A q \in Pages : q # p => sent'[q] = sent[q]
        /\ Contains(sent[p], "follow2") => <<me[p], them[p]>> \in halfway'
        /\ \A x \in halfway : x \in halfway'
    BY <1>7 DEF Kill
  <2> SUFFICES ASSUME NEW u \in Users, NEW v \in Users,
                      u \in followers[v], v \notin followings[u],
                      <<u, v>> \notin halfway'
               PROVE  \E q \in Pages : /\ me[q] = u /\ them[q] = v
                                       /\ Contains(sent'[q], "follow2")
    BY <2>1
  <2>2. <<u, v>> \notin halfway
    BY <2>1
  <2>3. PICK q \in Pages : me[q] = u /\ them[q] = v /\ Contains(sent[q], "follow2")
    BY <2>2
  <2> QED
    BY <2>1, <2>3
<1>8. CASE UNCHANGED vars
  BY <1>8 DEF vars
<1> QED
  BY <1>1, <1>2, <1>3, <1>4, <1>5, <1>6, <1>7, <1>8 DEF Next, Answer

(* Every follower is backed by an entry in the follower's own document, or *)
(* by a follow under way or cut off.                                       *)
THEOREM FollowersAreBacked == Spec => []FollowersBacked
<1>1. Init => FollowersBacked
  BY DEF Init, FollowersBacked
<1>2. TypeOK /\ FollowersBacked /\ [Next]_vars => FollowersBacked'
  BY BackedStep
<1> QED
  BY <1>1, <1>2, TypeCorrect, PTL DEF Spec

-----------------------------------------------------------------------------
LEMMA CatchesUpStep ==
  ASSUME TypeOK, CopyCatchesUp, [Next]_vars PROVE CopyCatchesUp'
<1> USE PageAssumption DEF TypeOK, CopyCatchesUp, server
<1>1. ASSUME NEW p \in Pages, Open(p) PROVE CopyCatchesUp'
  BY <1>1 DEF Open, Contains
<1>2. ASSUME NEW p \in Pages, Load(p) PROVE CopyCatchesUp'
  BY <1>2 DEF Load
<1>3. ASSUME NEW p \in Pages, Tap(p) PROVE CopyCatchesUp'
  <2>1. /\ LastSay(sent[p]) => LastSay(sent'[p])
        /\ Contains(sent'[p], "unfollow2") => Contains(sent[p], "unfollow2")
    BY <1>3, QueueAppend DEF Tap, Writes
  <2>2. \A q \in Pages : q # p => sent'[q] = sent[q]
    BY <1>3 DEF Tap
  <2> QED
    BY <1>3, <2>1, <2>2 DEF Tap
<1>4. ASSUME NEW p \in Pages, Follow1(p) PROVE CopyCatchesUp'
  <2>1. LastSay(sent'[p])
    BY <1>4, QueueTail, QueueAppend DEF Follow1, AnswerFirst, Writes
  <2>2. \A q \in Pages : q # p => sent'[q] = sent[q]
    BY <1>4 DEF Follow1, AnswerFirst
  <2>3. \A q \in Pages : q # p /\ ~touched'[q] =>
          ~touched[q] /\ (me[q] \in followers'[them[q]] <=> me[q] \in followers[them[q]])
    BY <1>4 DEF Follow1, AnswerFirst, TouchOthers
  <2> QED
    BY <1>4, <2>1, <2>2, <2>3 DEF Follow1, AnswerFirst
<1>5. ASSUME NEW p \in Pages, Follow2(p) PROVE CopyCatchesUp'
  <2>1. /\ LastSay(sent[p]) => LastSay(sent'[p]) \/ ~Contains(sent'[p], "unfollow2")
        /\ Contains(sent'[p], "unfollow2") => Contains(sent[p], "unfollow2")
    BY <1>5, QueueTail DEF Follow2, AnswerSecond
  <2>2. \A q \in Pages : q # p => sent'[q] = sent[q] /\ times'[q] = times[q]
    BY <1>5 DEF Follow2, AnswerSecond
  <2>3. times'[p] > 0
    BY <1>5 DEF Follow2, AnswerSecond
  <2> QED
    BY <1>5, <2>1, <2>2, <2>3 DEF Follow2, AnswerSecond
<1>6. ASSUME NEW p \in Pages, Unfollow1(p) PROVE CopyCatchesUp'
  <2>1. me[p] \notin followers'[them[p]]
    BY <1>6 DEF Unfollow1, AnswerFirst
  <2>2. \A q \in Pages : q # p => sent'[q] = sent[q]
    BY <1>6 DEF Unfollow1, AnswerFirst
  <2>3. \A q \in Pages : q # p /\ ~touched'[q] =>
          ~touched[q] /\ (me[q] \in followers'[them[q]] <=> me[q] \in followers[them[q]])
    BY <1>6 DEF Unfollow1, AnswerFirst, TouchOthers
  <2> QED
    BY <1>6, <2>1, <2>2, <2>3 DEF Unfollow1, AnswerFirst
<1>7. ASSUME NEW p \in Pages, Unfollow2(p) PROVE CopyCatchesUp'
  <2>1. /\ LastSay(sent[p]) => LastSay(sent'[p])
        /\ Contains(sent[p], "unfollow2")
    BY <1>7, QueueTail DEF Unfollow2, AnswerSecond
  <2>2. \A q \in Pages : q # p => sent'[q] = sent[q] /\ times'[q] = times[q]
    BY <1>7 DEF Unfollow2, AnswerSecond
  <2> QED
    BY <1>7, <2>1, <2>2 DEF Unfollow2, AnswerSecond
<1>8. ASSUME NEW p \in Pages, Close(p) \/ Kill(p) PROVE CopyCatchesUp'
  BY <1>8 DEF Close, Kill
<1>9. CASE UNCHANGED vars
  BY <1>9 DEF vars
<1> QED
  BY <1>1, <1>2, <1>3, <1>4, <1>5, <1>6, <1>7, <1>8, <1>9 DEF Next, Answer

(* The settled page of a follower offers to unfollow, however many taps    *)
(* overlapped and whenever its data arrived.                               *)
THEOREM FollowersCanUnfollow == Spec => []FollowerCanUnfollow
<1>1. Init => CopyCatchesUp
  BY DEF Init, CopyCatchesUp
<1>2. TypeOK /\ CopyCatchesUp /\ [Next]_vars => CopyCatchesUp'
  BY CatchesUpStep
<1>3. CopyCatchesUp => FollowerCanUnfollow
  BY DEF CopyCatchesUp, FollowerCanUnfollow, Settled, LastSay
<1> QED
  BY <1>1, <1>2, <1>3, TypeCorrect, PTL DEF Spec

-----------------------------------------------------------------------------
(* Profile: the inductive invariant                                        *)

(* The names that a user has, is getting by a write that waits, or has     *)
(* checked for a save whose picture is under way.                          *)
Mine(u) == {s \in Saves : save[s] # None /\ save[s].uid = u}
Claims(u) ==
  {username[u]} \union ToSet(queue[u]) \union ({save[s].checked : s \in Mine(u)} \ {None})

(* Who has not raced claims none of the others' names, and never the empty *)
(* one.                                                                    *)
ClaimsApart ==
  \A u \in People \ raced :
    /\ Empty \notin Claims(u)
    /\ \A v \in People \ raced : u # v => Claims(u) \cap Claims(v) = {}

(* The list that a page has fetched has the name of every other user who   *)
(* has not raced, and nothing of theirs is under way.                      *)
ListIsCurrent ==
  fetched =>
    /\ shown
    /\ \A u \in People \ raced : u # user =>
         queue[u] = <<>> /\ Mine(u) = {} /\ username[u] \in names

(* Once the own picture is loaded no other user's is left over, and a save *)
(* begun then uploads none.                                                *)
PhotoLoaded == shown /\ asked[<<"photo", user>>] = 0 => picture \in {user, Url}
SourceIsOwn ==
  \A s \in Saves : save[s] # None => save[s].early \/ save[s].source \in {save[s].uid, Url}

ShownToUser == shown => user # Nobody

ProfileIInv ==
  /\ ProfileTypeOK /\ PhotoExists /\ ShownToUser
  /\ ClaimsApart /\ ListIsCurrent /\ PhotoLoaded /\ SourceIsOwn

-----------------------------------------------------------------------------
(* What the steps have in common                                           *)

LEMMA WritesOf ==
  ASSUME NEW q \in Seq(Texts)
  PROVE  /\ \A x \in Texts : Append(q, x) \in Seq(Texts) /\ ToSet(Append(q, x)) = ToSet(q) \union {x}
         /\ q # <<>> => /\ Tail(q) \in Seq(Texts) /\ Head(q) \in Texts
                        /\ ToSet(Tail(q)) \subseteq ToSet(q) /\ Head(q) \in ToSet(q)
                        /\ q[Len(q)] \in ToSet(q)
         /\ ToSet(q) \subseteq Texts
<1>1. ASSUME NEW x \in Texts
      PROVE  Append(q, x) \in Seq(Texts) /\ ToSet(Append(q, x)) = ToSet(q) \union {x}
  <2>. DEFINE r == Append(q, x)
              n == Len(q) + 1
  <2>1. /\ r \in Seq(Texts) /\ DOMAIN r = DOMAIN q \union {n} /\ r[n] = x
        /\ \A i \in DOMAIN q : i # n /\ r[i] = q[i]
    OBVIOUS
  <2>. HIDE DEF r, n
  <2>2. ToSet(r) = ToSet(q) \union {x}
    BY <2>1 DEF ToSet
  <2>. QED BY <2>1, <2>2 DEF r
<1>2. ASSUME q # <<>>
      PROVE  /\ Tail(q) \in Seq(Texts) /\ Head(q) \in Texts
             /\ ToSet(Tail(q)) \subseteq ToSet(q) /\ Head(q) \in ToSet(q)
             /\ q[Len(q)] \in ToSet(q)
  <2>1. /\ Tail(q) \in Seq(Texts) /\ Head(q) = q[1] /\ Head(q) \in Texts
        /\ 1 \in DOMAIN q /\ Len(q) \in DOMAIN q
        /\ \A i \in DOMAIN Tail(q) : i + 1 \in DOMAIN q /\ Tail(q)[i] = q[i + 1]
    BY <1>2
  <2>. QED BY <2>1 DEF ToSet
<1>3. ToSet(q) \subseteq Texts
  <2>1. \A i \in DOMAIN q : q[i] \in Texts
    OBVIOUS
  <2>. QED BY <2>1 DEF ToSet
<1>. QED BY <1>1, <1>2, <1>3

LEMMA SaveFields ==
  ASSUME ProfileTypeOK, NEW s \in Saves, save[s] # None
  PROVE  /\ save[s] \in Uploads
         /\ save[s].uid \in People /\ save[s].source \in People \union {Url}
         /\ save[s].checked \in Names \union {None} /\ save[s].early \in BOOLEAN
BY DEF ProfileTypeOK, Uploads

(* Saves that go on or end are those of the same users, with the same      *)
(* names and pictures.                                                     *)
SavesStay ==
  \A s \in Saves : save'[s] # None =>
    /\ save[s] # None
    /\ save'[s].uid = save[s].uid /\ save'[s].checked = save[s].checked
    /\ save'[s].source = save[s].source /\ save'[s].early = save[s].early

LEMMA StayMine ==
  ASSUME SavesStay
  PROVE  /\ \A u : Mine(u)' \subseteq Mine(u) /\ \A s \in Mine(u)' : save'[s].checked = save[s].checked
         /\ SourceIsOwn => SourceIsOwn'
BY DEF SavesStay, Mine, SourceIsOwn

LEMMA SavesAbandoned ==
  ASSUME ProfileTypeOK, NEW saves \in [Saves -> Uploads \union {None}],
         \A s \in Saves : saves[s] \in {save[s], None}, save' = Abandoned(saves)
  PROVE  SavesStay /\ save' \in [Saves -> Uploads \union {None}]
<1>1. ASSUME NEW s \in Saves, saves[s] # None
      PROVE  /\ [saves[s] EXCEPT !.here = FALSE] \in Uploads
             /\ [saves[s] EXCEPT !.here = FALSE].uid = save[s].uid
             /\ [saves[s] EXCEPT !.here = FALSE].checked = save[s].checked
             /\ [saves[s] EXCEPT !.here = FALSE].source = save[s].source
             /\ [saves[s] EXCEPT !.here = FALSE].early = save[s].early
  BY <1>1, SaveFields DEF Uploads
<1>2. \A s \in Saves : save'[s] = IF saves[s] = None THEN None ELSE [saves[s] EXCEPT !.here = FALSE]
  BY DEF Abandoned
<1>3. SavesStay
  BY <1>1, <1>2 DEF SavesStay
<1>4. save' \in [Saves -> Uploads \union {None}]
  BY <1>1 DEF Abandoned
<1>. QED BY <1>3, <1>4

(* At most one who has not raced claims one name more, which is nobody     *)
(* else's.                                                                 *)
LEMMA Claiming ==
  ASSUME ClaimsApart, raced \subseteq raced', NEW w, NEW x,
         \A u \in People \ raced' : Claims(u)' \subseteq Claims(u) \union (IF u = w THEN {x} ELSE {}),
         w \in People \ raced' =>
           x # Empty /\ (x \in Claims(w) \/ \A v \in People \ raced : v # w => x \notin Claims(v))
  PROVE  ClaimsApart'
<1>1. ASSUME NEW u \in People \ raced', NEW y \in Claims(u)'
      PROVE  y \in Claims(u) \/ (u = w /\ y = x)
  BY <1>1
<1>2. ASSUME NEW u \in People \ raced' PROVE Empty \notin Claims(u)'
  BY <1>1, <1>2 DEF ClaimsApart
<1>3. ASSUME NEW u \in People \ raced', NEW v \in People \ raced', u # v,
             NEW y \in Claims(u)', y \in Claims(v)'
      PROVE  FALSE
  <2>1. ASSUME NEW a \in People \ raced, NEW b \in People \ raced, a # b, y \in Claims(a) PROVE y \notin Claims(b)
    BY <2>1 DEF ClaimsApart
  <2>. QED BY <1>1, <1>3, <2>1
<1>. QED BY <1>2, <1>3 DEF ClaimsApart

(* Nobody claims anything new.                                             *)
LEMMA ClaimsStay ==
  ASSUME ClaimsApart, raced \subseteq raced', UNCHANGED <<username, queue>>, SavesStay
  PROVE  ClaimsApart'
<1>1. \A u : Claims(u)' \subseteq Claims(u)
  BY StayMine DEF Claims
<1>. QED BY <1>1, Zenon DEF ClaimsApart

(* The check of the name, if it means something.                           *)
LEMMA CheckedIsFree ==
  ASSUME ProfileIInv, shown, user \notin raced, CheckMeansFree
  PROVE  /\ user \in People
         /\ nameText \in Claims(user) \/ \A v \in People \ raced : v # user => nameText \notin Claims(v)
<1>1. user \in People
  BY DEF ProfileIInv, ShownToUser, ProfileTypeOK
<1>2. CASE nameText = Sees(user)
  <2>1. queue[user] \in Seq(Texts)
    BY <1>1 DEF ProfileIInv, ProfileTypeOK
  <2>. QED BY <1>1, <1>2, <2>1, WritesOf DEF Sees, Claims
<1>3. CASE fetched /\ nameText \notin names
  <2>1. ASSUME NEW v \in People \ raced, v # user PROVE nameText \notin Claims(v)
    <3>1. queue[v] = <<>> /\ Mine(v) = {} /\ username[v] \in names
      BY <1>3, <2>1 DEF ProfileIInv, ListIsCurrent
    <3>2. Claims(v) = {username[v]}
      BY <3>1 DEF Claims, ToSet
    <3>. QED BY <1>3, <3>1, <3>2
  <2>. QED BY <1>1, <2>1
<1>. QED BY <1>2, <1>3 DEF CheckMeansFree

-----------------------------------------------------------------------------
(* The steps                                                               *)

(* One of the requests is answered.                                        *)
LEMMA Answered ==
  ASSUME NEW f \in [Requests -> Nat], NEW q \in Requests, f[q] > 0
  PROVE  [f EXCEPT ![q] = @ - 1] \in [Requests -> Nat]
<1>1. f[q] - 1 \in Nat
  OBVIOUS
<1>2. [f EXCEPT ![q] = f[q] - 1] \in [Requests -> Nat]
  BY <1>1
<1> QED
  BY <1>2

(* Those that only change who is shown what.                               *)
LEMMA PageStep ==
  ASSUME ProfileIInv,
         \/ \E u \in People : LogIn(u) \/ GetProfilePhoto(u) \/ GetUserInfo(u)
         \/ LogOut \/ OpenPage \/ PickImage \/ \E n \in Texts : Type(n)
  PROVE  ProfileIInv'
<1>. USE DEF documents, page, list, variables
<1>0. /\ ProfileTypeOK /\ PhotoExists /\ ShownToUser
      /\ ClaimsApart /\ ListIsCurrent /\ PhotoLoaded /\ SourceIsOwn
  BY DEF ProfileIInv
<1>1. UNCHANGED <<username, linked, file, queue, names, fetched, save, raced>>
  BY DEF LogIn, GetProfilePhoto, GetUserInfo, LogOut, OpenPage, PickImage, Type
<1>2. /\ \A u \in People : Mine(u)' = Mine(u)
      /\ PhotoExists' /\ ClaimsApart' /\ SourceIsOwn'
  BY <1>0, <1>1 DEF PhotoExists, ClaimsApart, Claims, Mine, SourceIsOwn
<1>3. CASE \E u \in People : LogIn(u)
  <2>1. user = Nobody /\ user' \in People /\ UNCHANGED <<visits, shown, asked, lastUsername, picture, isPhotoChanged, nameText>>
    BY <1>3 DEF LogIn
  <2>2. ~shown /\ ~fetched
    BY <1>0, <2>1 DEF ShownToUser, ListIsCurrent
  <2>. QED BY <1>0, <1>1, <1>2, <2>1, <2>2
           DEF ProfileIInv, ProfileTypeOK, ShownToUser, ListIsCurrent, PhotoLoaded
<1>4. CASE LogOut
  <2>1. ~shown /\ ~fetched /\ user' = Nobody /\ UNCHANGED <<visits, shown, asked, lastUsername, picture, isPhotoChanged, nameText>>
    BY <1>0, <1>4 DEF LogOut, ListIsCurrent
  <2>. QED BY <1>0, <1>1, <1>2, <2>1
           DEF ProfileIInv, ProfileTypeOK, ShownToUser, ListIsCurrent, PhotoLoaded
<1>5. CASE OpenPage
  <2>1. /\ ~fetched /\ user # Nobody /\ visits' = visits + 1 /\ visits < MaxVisits /\ shown'
        /\ shown' = TRUE
        /\ asked' = [q \in Requests |-> IF q[2] = user THEN asked[q] + 1 ELSE asked[q]]
        /\ UNCHANGED <<user, lastUsername, picture, isPhotoChanged, nameText>>
    BY <1>0, <1>5 DEF OpenPage, ListIsCurrent
  <2>2. asked \in [Requests -> Nat] /\ user \in People
    BY <1>0, <2>1 DEF ProfileTypeOK
  <2>3. asked' \in [Requests -> Nat]
    BY <2>1, <2>2
  <2>4. asked'[<<"photo", user>>] # 0
    <3>1. PICK q : q = <<"photo", user>>
      OBVIOUS
    <3>2. q \in Requests /\ q[2] = user
      BY <2>2, <3>1 DEF Requests
    <3>3. asked'[q] = asked[q] + 1
      BY <2>1, <3>2
    <3>. QED BY <2>2, <3>1, <3>2, <3>3
  <2>5. ProfileTypeOK'
    BY <1>0, <1>1, <2>1, <2>3, MaxVisitsAssumption DEF ProfileTypeOK
  <2>. QED BY <1>0, <1>1, <1>2, <2>1, <2>4, <2>5
           DEF ProfileIInv, ShownToUser, ListIsCurrent, PhotoLoaded
<1>6. CASE \E u \in People : GetProfilePhoto(u)
  <2>1. /\ picture' = Url
        /\ UNCHANGED <<user, visits, shown, lastUsername, isPhotoChanged, nameText>>
    BY <1>6 DEF GetProfilePhoto
  <2>2. PICK u \in People : asked[<<"photo", u>>] > 0 /\ asked' = [asked EXCEPT ![<<"photo", u>>] = @ - 1]
    BY <1>6 DEF GetProfilePhoto
  <2>3. asked' \in [Requests -> Nat]
    BY <1>0, <2>2, Answered DEF ProfileTypeOK, Requests
  <2>. QED BY <1>0, <1>1, <1>2, <2>1, <2>3
           DEF ProfileIInv, ProfileTypeOK, ShownToUser, ListIsCurrent, PhotoLoaded
<1>7. CASE \E u \in People : GetUserInfo(u)
  <2>1. PICK u \in People : GetUserInfo(u)
    BY <1>7
  <2>2. Sees(u) \in Texts
    <3>1. queue[u] \in Seq(Texts) /\ username[u] \in Texts
      BY <1>0 DEF ProfileTypeOK
    <3>. QED BY <3>1, WritesOf DEF Sees
  <2>3. /\ asked' = [asked EXCEPT ![<<"info", u>>] = @ - 1] /\ asked[<<"info", u>>] > 0
        /\ lastUsername' \in Texts /\ nameText' \in Texts
        /\ UNCHANGED <<user, visits, shown, picture, isPhotoChanged>>
    BY <2>1, <2>2 DEF GetUserInfo
  <2>4. asked' \in [Requests -> Nat]
    BY <1>0, <2>1, <2>3, Answered DEF ProfileTypeOK, Requests
  <2>5. shown => asked'[<<"photo", user>>] = asked[<<"photo", user>>]
    BY <1>0, <2>3 DEF ProfileTypeOK, ShownToUser, Requests
  <2>. QED BY <1>0, <1>1, <1>2, <2>3, <2>4, <2>5
           DEF ProfileIInv, ProfileTypeOK, ShownToUser, ListIsCurrent, PhotoLoaded
<1>8. CASE PickImage
  <2>1. /\ isPhotoChanged' = TRUE /\ picture' = user /\ user # Nobody
        /\ UNCHANGED <<user, visits, shown, asked, lastUsername, nameText>>
    BY <1>0, <1>8 DEF PickImage, ShownToUser
  <2>. QED BY <1>0, <1>1, <1>2, <2>1
           DEF ProfileIInv, ProfileTypeOK, ShownToUser, ListIsCurrent, PhotoLoaded
<1>9. CASE \E n \in Texts : Type(n)
  <2>1. /\ nameText' \in Texts
        /\ UNCHANGED <<user, visits, shown, asked, lastUsername, picture, isPhotoChanged>>
    BY <1>9 DEF Type
  <2>. QED BY <1>0, <1>1, <1>2, <2>1
           DEF ProfileIInv, ProfileTypeOK, ShownToUser, ListIsCurrent, PhotoLoaded
<1>. QED BY <1>3, <1>4, <1>5, <1>6, <1>7, <1>8, <1>9

(* The page goes, or the app does.                                         *)
LEMMA LeaveStep == ASSUME ProfileIInv, Leave \/ Restart PROVE ProfileIInv'
<1>. USE DEF documents, page, list, variables
<1>0. /\ ProfileTypeOK /\ PhotoExists /\ ShownToUser
      /\ ClaimsApart /\ ListIsCurrent /\ PhotoLoaded /\ SourceIsOwn
  BY DEF ProfileIInv
<1>1. /\ UNCHANGED <<username, linked, file, queue, user, visits, raced>>
      /\ shown' = FALSE /\ names' = {} /\ fetched' = FALSE /\ asked' \in [Requests -> Nat]
      /\ lastUsername' \in Texts /\ nameText' \in Texts /\ isPhotoChanged' \in BOOLEAN
      /\ picture' \in People \union {Url}
  <2>1. CASE Leave
    BY <1>0, <2>1 DEF Leave, ClosePage, ProfileTypeOK
  <2>2. CASE Restart
    <3>1. asked' \in [Requests -> Nat]
      BY <2>2 DEF Restart
    <3>. QED BY <1>0, <2>2, <3>1 DEF Restart, ClosePage, Texts
  <2>. QED BY <2>1, <2>2
<1>2. SavesStay /\ save' \in [Saves -> Uploads \union {None}]
  <2>1. CASE Leave
    BY <1>0, <2>1, SavesAbandoned DEF Leave, ProfileTypeOK
  <2>2. CASE Restart
    BY <2>2 DEF Restart, SavesStay
  <2>. QED BY <2>1, <2>2
<1>3. ProfileTypeOK'
  BY <1>0, <1>1, <1>2 DEF ProfileTypeOK
<1>4. ClaimsApart' /\ SourceIsOwn'
  BY <1>0, <1>1, <1>2, ClaimsStay, StayMine
<1>. QED BY <1>0, <1>1, <1>3, <1>4
         DEF ProfileIInv, PhotoExists, ShownToUser, ListIsCurrent, PhotoLoaded

(* The names are fetched: whoever has one under way may clash.             *)
LEMMA GetAllUsernameStep == ASSUME ProfileIInv, GetAllUsername PROVE ProfileIInv'
<1>. USE DEF documents, page, list, variables
<1>0. /\ ProfileTypeOK /\ PhotoExists /\ ShownToUser
      /\ ClaimsApart /\ ListIsCurrent /\ PhotoLoaded /\ SourceIsOwn
  BY DEF ProfileIInv
<1>1. /\ shown /\ names' = {Sees(u) : u \in People} /\ fetched' = TRUE
      /\ raced' = raced \union
           {u \in People \ {user} :
              queue[u] # <<>> \/ \E s \in Saves : save[s] # None /\ save[s].uid = u}
      /\ UNCHANGED <<username, linked, file, queue, user, visits, shown, asked, lastUsername,
                     picture, isPhotoChanged, nameText, save>>
  BY DEF GetAllUsername
<1>2. \A u \in People : Sees(u) \in Texts
  <2>1. ASSUME NEW u \in People PROVE Sees(u) \in Texts
    <3>1. queue[u] \in Seq(Texts) /\ username[u] \in Texts
      BY <1>0 DEF ProfileTypeOK
    <3>. QED BY <3>1, WritesOf DEF Sees
  <2>. QED BY <2>1
<1>3. ProfileTypeOK'
  BY <1>0, <1>1, <1>2 DEF ProfileTypeOK
<1>4. ClaimsApart' /\ SourceIsOwn'
  <2>1. SavesStay /\ raced \subseteq raced'
    BY <1>1 DEF SavesStay
  <2>. QED BY <1>0, <1>1, <2>1, ClaimsStay, StayMine
<1>5. ListIsCurrent'
  <2>1. ASSUME NEW u \in People \ raced', u # user
        PROVE  queue[u] = <<>> /\ Mine(u) = {} /\ username[u] \in names'
    <3>1. queue[u] = <<>> /\ Mine(u) = {}
      BY <1>1, <2>1 DEF Mine
    <3>2. Sees(u) = username[u]
      BY <2>1, <3>1 DEF Sees
    <3>. QED BY <1>1, <3>1, <3>2
  <2>2. \A u \in People : Mine(u)' = Mine(u)
    BY <1>1 DEF Mine
  <2>. QED BY <1>1, <2>1, <2>2 DEF ListIsCurrent
<1>. QED BY <1>0, <1>1, <1>3, <1>4, <1>5 DEF ProfileIInv, PhotoExists, ShownToUser, PhotoLoaded

(* A write is sent: what its user claims by it.                            *)
LEMMA Updating ==
  ASSUME ProfileTypeOK, user \in People, NEW n \in Texts, Update(user, n), UNCHANGED username
  PROVE  /\ queue' \in [People -> Seq(Texts)]
         /\ \A u \in People : u # user => queue'[u] = queue[u]
         /\ SavesStay => \A u \in People :
              Claims(u)' \subseteq Claims(u) \union (IF u = user THEN {n} ELSE {})
<1>1. /\ queue' = [queue EXCEPT ![user] = Append(queue[user], n)] /\ queue[user] \in Seq(Texts)
      /\ \A u \in People : queue'[u] = IF u = user THEN Append(queue[user], n) ELSE queue[u]
  BY DEF Update, ProfileTypeOK
<1>2. Append(queue[user], n) \in Seq(Texts) /\ ToSet(Append(queue[user], n)) = ToSet(queue[user]) \union {n}
  BY <1>1, WritesOf
<1>3. queue' \in [People -> Seq(Texts)]
  BY <1>1, <1>2 DEF ProfileTypeOK
<1>4. ASSUME SavesStay, NEW u \in People
      PROVE  Claims(u)' \subseteq Claims(u) \union (IF u = user THEN {n} ELSE {})
  <2>1. ToSet(queue'[u]) \subseteq ToSet(queue[u]) \union (IF u = user THEN {n} ELSE {})
    BY <1>1, <1>2
  <2>2. Mine(u)' \subseteq Mine(u) /\ \A s \in Mine(u)' : save'[s].checked = save[s].checked
    BY <1>4, StayMine
  <2>. QED BY <2>1, <2>2 DEF Claims
<1>. QED BY <1>1, <1>3, <1>4

LEMMA SaveInfoStep == ASSUME ProfileIInv, SaveInfo PROVE ProfileIInv'
<1>. USE DEF documents, page, list, variables
<1>0. /\ ProfileTypeOK /\ PhotoExists /\ ShownToUser
      /\ ClaimsApart /\ ListIsCurrent /\ PhotoLoaded /\ SourceIsOwn
  BY DEF ProfileIInv
<1>1. /\ shown /\ nameText # Empty /\ Update(user, nameText)
      /\ raced' = IF CheckMeansFree THEN raced ELSE raced \union {user}
      /\ nameText' = Empty /\ shown' = FALSE /\ names' = {} /\ fetched' = FALSE
      /\ save' = Abandoned(save) /\ user \in People /\ nameText \in Texts
      /\ UNCHANGED <<username, linked, file, user, visits, asked, lastUsername, picture, isPhotoChanged>>
  BY <1>0 DEF SaveInfo, Accepted, Finish, ClosePage, ShownToUser, ProfileTypeOK
<1>2. SavesStay /\ save' \in [Saves -> Uploads \union {None}]
  BY <1>0, <1>1, SavesAbandoned DEF ProfileTypeOK
<1>3. /\ queue' \in [People -> Seq(Texts)]
      /\ \A u \in People : Claims(u)' \subseteq Claims(u) \union (IF u = user THEN {nameText} ELSE {})
  BY <1>0, <1>1, <1>2, Updating
<1>4. ProfileTypeOK'
  BY <1>0, <1>1, <1>2, <1>3 DEF ProfileTypeOK, Texts
<1>5. ClaimsApart'
  <2>1. user \in People \ raced' =>
          \/ nameText \in Claims(user)
          \/ \A v \in People \ raced : v # user => nameText \notin Claims(v)
    BY <1>1, CheckedIsFree
  <2>2. raced \subseteq raced'
    BY <1>1
  <2>. QED BY <1>0, <1>1, <1>3, <2>1, <2>2, Claiming
<1>6. SourceIsOwn'
  BY <1>0, <1>2, StayMine
<1>. QED BY <1>0, <1>1, <1>4, <1>5, <1>6
         DEF ProfileIInv, PhotoExists, ShownToUser, ListIsCurrent, PhotoLoaded

LEMMA SavePhotoStep == ASSUME ProfileIInv, NEW s \in Saves, SavePhoto(s) PROVE ProfileIInv'
<1>. USE DEF documents, page, list, variables
<1>0. /\ ProfileTypeOK /\ PhotoExists /\ ShownToUser
      /\ ClaimsApart /\ ListIsCurrent /\ PhotoLoaded /\ SourceIsOwn
  BY DEF ProfileIInv
<1>. DEFINE c == IF CheckMeansFree THEN nameText ELSE None
            r == [phase |-> "upload", uid |-> user, source |-> picture,
                  early |-> asked[<<"photo", user>>] > 0, here |-> TRUE, checked |-> c]
<1>1. /\ shown /\ save[s] = None /\ save' = [save EXCEPT ![s] = r]
      /\ user \in People /\ nameText \in Names
      /\ UNCHANGED <<username, linked, file, queue, user, visits, shown, asked, names, fetched,
                     lastUsername, picture, isPhotoChanged, nameText, raced>>
  BY <1>0 DEF SavePhoto, Accepted, ShownToUser, ProfileTypeOK, Texts
<1>. DEFINE e == asked[<<"photo", user>>] > 0
<1>2. /\ r \in Uploads /\ r.uid = user /\ r.source = picture /\ r.checked = c
      /\ r.early \/ picture \in {user, Url}
  <2>1. c \in Names \union {None} /\ picture \in People \union {Url} /\ e \in BOOLEAN
    BY <1>0, <1>1 DEF ProfileTypeOK
  <2>2. e \/ picture \in {user, Url}
    <3>1. asked[<<"photo", user>>] \in Nat
      BY <1>0, <1>1 DEF ProfileTypeOK, Requests
    <3>. QED BY <1>0, <1>1, <3>1 DEF PhotoLoaded
  <2>3. r.uid = user /\ r.source = picture /\ r.checked = c /\ r.early = e
    OBVIOUS
  <2>. HIDE DEF c, e
  <2>4. r \in Uploads
    BY <1>1, <2>1 DEF Uploads
  <2>5. r.early \/ picture \in {user, Url}
    <3>. HIDE DEF r
    <3>. QED BY <2>2, <2>3, Zenon
  <2>. QED BY <2>3, <2>4, <2>5
<1>. HIDE DEF r
<1>3. \A t \in Saves : save'[t] = IF t = s THEN r ELSE save[t]
  BY <1>0, <1>1 DEF ProfileTypeOK
<1>4. ProfileTypeOK'
  BY <1>0, <1>1, <1>2 DEF ProfileTypeOK
<1>5. ASSUME NEW u \in People PROVE Mine(u)' \subseteq Mine(u) \union (IF u = user THEN {s} ELSE {})
  BY <1>2, <1>3 DEF Mine
<1>6. ClaimsApart'
  <2>1. ASSUME NEW u \in People
        PROVE  Claims(u)' \subseteq Claims(u) \union (IF u = user THEN {c} \ {None} ELSE {})
    <3>1. ASSUME NEW t \in Mine(u)', save'[t].checked # None
          PROVE  save'[t].checked \in Claims(u) \union (IF u = user THEN {c} \ {None} ELSE {})
      <4>1. CASE t = s
        BY <1>2, <1>3, <1>5, <3>1, <4>1 DEF Mine
      <4>2. CASE t # s
        BY <1>3, <1>5, <3>1, <4>2 DEF Mine, Claims
      <4>. QED BY <4>1, <4>2
    <3>. QED BY <1>1, <3>1 DEF Claims
  <2>2. CASE CheckMeansFree
    <3>1. c = nameText /\ c # Empty /\ raced' = raced
      BY <1>1, <2>2, DistinctAssumption
    <3>2. user \in People \ raced' =>
            \/ c \in Claims(user)
            \/ \A v \in People \ raced : v # user => c \notin Claims(v)
      BY <1>1, <2>2, <3>1, CheckedIsFree
    <3>3. \A u \in People \ raced' : Claims(u)' \subseteq Claims(u) \union (IF u = user THEN {c} ELSE {})
      BY <2>1
    <3>. QED BY <1>0, <3>1, <3>2, <3>3, Claiming
  <2>3. CASE ~CheckMeansFree
    <3>1. \A u \in People : Claims(u)' \subseteq Claims(u)
      BY <2>1, <2>3
    <3>. QED BY <1>0, <1>1, <3>1, Zenon DEF ClaimsApart
  <2>. QED BY <2>2, <2>3
<1>7. ListIsCurrent'
  BY <1>0, <1>1, <1>5 DEF ListIsCurrent
<1>8. SourceIsOwn'
  BY <1>0, <1>2, <1>3 DEF SourceIsOwn
<1>. QED BY <1>0, <1>1, <1>4, <1>6, <1>7, <1>8 DEF ProfileIInv, PhotoExists, ShownToUser, PhotoLoaded

LEMMA UploadStep == ASSUME ProfileIInv, NEW s \in Saves, Upload(s) PROVE ProfileIInv'
<1>. USE DEF documents, page, list, variables
<1>0. /\ ProfileTypeOK /\ PhotoExists /\ ShownToUser
      /\ ClaimsApart /\ ListIsCurrent /\ PhotoLoaded /\ SourceIsOwn
  BY DEF ProfileIInv
<1>1. /\ save[s] # None
      /\ UNCHANGED <<username, linked, queue, user, visits, shown, asked, names, fetched,
                     lastUsername, picture, isPhotoChanged, nameText, raced>>
      /\ \/ file' = file
         \/ save[s].source # Url /\ file' = [file EXCEPT ![save[s].uid] = save[s].source]
  BY DEF Upload
<1>2. PICK p \in {"stored", "failed"} : save' = [save EXCEPT ![s].phase = p]
  BY DEF Upload
<1>. DEFINE r == [save[s] EXCEPT !.phase = p]
<1>3. /\ r \in Uploads /\ r.uid = save[s].uid /\ r.checked = save[s].checked
      /\ r.source = save[s].source /\ r.early = save[s].early
  BY <1>0, <1>1, SaveFields DEF Uploads
<1>4. save' = [save EXCEPT ![s] = r]
  BY <1>2
<1>. HIDE DEF r
<1>5. SavesStay /\ save' \in [Saves -> Uploads \union {None}]
  BY <1>0, <1>1, <1>3, <1>4 DEF SavesStay, ProfileTypeOK
<1>6. file' \in [People -> People \union {None}] /\ \A u \in People : file'[u] = None => file[u] = None
  <2>1. CASE file' = file
    BY <1>0, <2>1 DEF ProfileTypeOK
  <2>2. CASE save[s].source # Url /\ file' = [file EXCEPT ![save[s].uid] = save[s].source]
    <3>1. save[s].source \in People /\ save[s].source # None
      BY <1>0, <1>1, <2>2, SaveFields, DistinctAssumption
    <3>. QED BY <1>0, <2>2, <3>1 DEF ProfileTypeOK
  <2>. QED BY <1>1, <2>1, <2>2
<1>7. ProfileTypeOK'
  BY <1>0, <1>1, <1>5, <1>6 DEF ProfileTypeOK
<1>8. ClaimsApart' /\ SourceIsOwn'
  BY <1>0, <1>1, <1>5, ClaimsStay, StayMine
<1>9. ListIsCurrent'
  BY <1>0, <1>1, <1>5, StayMine DEF ListIsCurrent
<1>10. PhotoExists'
  BY <1>0, <1>1, <1>6 DEF PhotoExists, ProfileTypeOK
<1>. QED BY <1>0, <1>1, <1>7, <1>8, <1>9, <1>10 DEF ProfileIInv, ShownToUser, PhotoLoaded

LEMMA WhenCompleteStep == ASSUME ProfileIInv, NEW s \in Saves, WhenComplete(s) PROVE ProfileIInv'
<1>. USE DEF documents, page, list, variables
<1>0. /\ ProfileTypeOK /\ PhotoExists /\ ShownToUser
      /\ ClaimsApart /\ ListIsCurrent /\ PhotoLoaded /\ SourceIsOwn
  BY DEF ProfileIInv
<1>. DEFINE others == [save EXCEPT ![s] = None]
<1>1. /\ save[s] # None /\ UNCHANGED <<username, file, user, visits, asked, lastUsername, picture, isPhotoChanged>>
      /\ save' \in {others, Abandoned(others)}
      /\ \/ UNCHANGED <<shown, names, fetched>>
         \/ shown' = FALSE /\ names' = {} /\ fetched' = FALSE
      /\ nameText' \in {nameText, Empty}
      /\ \/ UNCHANGED <<linked, queue, raced>>
         \/ /\ file[save[s].uid] # None /\ user # Nobody /\ Update(user, nameText)
            /\ linked' = linked \union {save[s].uid}
            /\ raced' = IF user = save[s].uid /\ nameText = save[s].checked THEN raced
                          ELSE raced \union {user}
  <2>1. CASE file[save[s].uid] = None \/ user = Nobody
    BY <2>1 DEF WhenComplete
  <2>2. CASE ~(file[save[s].uid] = None \/ user = Nobody)
    <3>1. /\ save[s] # None /\ save[s].phase # "upload" /\ UNCHANGED <<username, file, user, visits, asked>>
          /\ Update(user, nameText)
          /\ linked' = linked \union {save[s].uid}
          /\ raced' = IF user = save[s].uid /\ nameText = save[s].checked THEN raced
                        ELSE raced \union {user}
      BY <2>2 DEF WhenComplete
    <3>2. save[s].phase \in {"stored", "failed"} /\ save[s].here \in BOOLEAN
      BY <1>0, <3>1, SaveFields DEF Uploads
    <3>3. CASE save[s].phase = "failed"
      <4>1. save' = others /\ UNCHANGED <<shown, names, fetched, lastUsername, picture, isPhotoChanged, nameText>>
        BY <2>2, <3>3 DEF WhenComplete
      <4>. QED BY <2>2, <3>1, <4>1
    <3>4. CASE save[s].phase = "stored" /\ save[s].here
      <4>1. save' = Abandoned(others) /\ Finish
        BY <2>2, <3>4 DEF WhenComplete
      <4>. QED BY <2>2, <3>1, <4>1 DEF Finish, ClosePage
    <3>5. CASE save[s].phase = "stored" /\ ~save[s].here
      <4>1. /\ save' = others /\ nameText' = Empty
            /\ UNCHANGED <<shown, names, fetched, lastUsername, picture, isPhotoChanged>>
        BY <2>2, <3>5 DEF WhenComplete
      <4>. QED BY <2>2, <3>1, <4>1
    <3>. QED BY <3>2, <3>3, <3>4, <3>5
  <2>. QED BY <2>1, <2>2
<1>2. SavesStay /\ save' \in [Saves -> Uploads \union {None}]
  <2>1. others \in [Saves -> Uploads \union {None}] /\ \A t \in Saves : others[t] \in {save[t], None}
    BY <1>0 DEF ProfileTypeOK
  <2>2. CASE save' = Abandoned(others)
    BY <1>0, <2>1, <2>2, SavesAbandoned
  <2>3. CASE save' = others
    BY <2>1, <2>3 DEF SavesStay
  <2>. QED BY <1>1, <2>2, <2>3
<1>. HIDE DEF others
<1>3. /\ queue' \in [People -> Seq(Texts)] /\ linked' \subseteq People /\ raced' \subseteq People
      /\ \A u \in People : u # user => queue'[u] = queue[u]
      /\ raced \subseteq raced' /\ PhotoExists'
  <2>1. CASE UNCHANGED <<linked, queue, raced>>
    BY <1>0, <1>1, <2>1 DEF ProfileTypeOK, PhotoExists
  <2>2. CASE /\ file[save[s].uid] # None /\ user # Nobody /\ Update(user, nameText)
             /\ linked' = linked \union {save[s].uid}
             /\ raced' = IF user = save[s].uid /\ nameText = save[s].checked THEN raced
                           ELSE raced \union {user}
    <3>1. user \in People /\ nameText \in Texts /\ save[s].uid \in People
      BY <1>0, <1>1, <2>2, SaveFields DEF ProfileTypeOK
    <3>2. /\ queue' \in [People -> Seq(Texts)]
          /\ \A u \in People : u # user => queue'[u] = queue[u]
      BY <1>0, <1>1, <2>2, <3>1, Updating
    <3>. QED BY <1>0, <1>1, <2>2, <3>1, <3>2 DEF ProfileTypeOK, PhotoExists
  <2>. QED BY <1>1, <2>1, <2>2
<1>4. ProfileTypeOK'
  BY <1>0, <1>1, <1>2, <1>3 DEF ProfileTypeOK, Texts
<1>5. ClaimsApart'
  <2>1. CASE UNCHANGED <<linked, queue, raced>>
    BY <1>0, <1>1, <1>2, <2>1, ClaimsStay
  <2>2. CASE /\ user # Nobody /\ Update(user, nameText)
             /\ raced' = IF user = save[s].uid /\ nameText = save[s].checked THEN raced
                           ELSE raced \union {user}
    <3>1. user \in People /\ nameText \in Texts
      BY <1>0, <2>2 DEF ProfileTypeOK
    <3>2. \A u \in People : Claims(u)' \subseteq Claims(u) \union (IF u = user THEN {nameText} ELSE {})
      BY <1>0, <1>1, <1>2, <2>2, <3>1, Updating
    <3>3. user \in People \ raced' => nameText # Empty /\ nameText \in Claims(user)
      <4>1. SUFFICES ASSUME user = save[s].uid, nameText = save[s].checked
                     PROVE  nameText # Empty /\ nameText \in Claims(user)
        BY <2>2
      <4>2. nameText \in Names /\ nameText # None /\ nameText # Empty
        BY <1>0, <1>1, <3>1, <4>1, SaveFields, DistinctAssumption DEF Texts
      <4>3. s \in Mine(user)
        BY <1>1, <4>1 DEF Mine
      <4>. QED BY <4>1, <4>2, <4>3 DEF Claims
    <3>. QED BY <1>0, <1>3, <3>2, <3>3, Claiming
  <2>. QED BY <1>1, <2>1, <2>2
<1>6. SourceIsOwn'
  BY <1>0, <1>2, StayMine
<1>7. ListIsCurrent'
  <2>1. \A u : Mine(u)' \subseteq Mine(u)
    BY <1>2, StayMine
  <2>2. CASE UNCHANGED <<shown, names, fetched>>
    <3>1. ASSUME fetched, NEW u \in People \ raced', u # user
          PROVE  queue'[u] = <<>> /\ Mine(u)' = {} /\ username'[u] \in names'
      BY <1>0, <1>1, <1>3, <2>1, <2>2, <3>1 DEF ListIsCurrent
    <3>. QED BY <1>0, <1>1, <2>2, <3>1 DEF ListIsCurrent
  <2>3. CASE fetched' = FALSE
    BY <2>3 DEF ListIsCurrent
  <2>. QED BY <1>1, <2>2, <2>3
<1>8. ShownToUser' /\ PhotoLoaded'
  BY <1>0, <1>1 DEF ShownToUser, PhotoLoaded
<1>. QED BY <1>3, <1>4, <1>5, <1>6, <1>7, <1>8 DEF ProfileIInv

LEMMA ApplyStep == ASSUME ProfileIInv, Apply PROVE ProfileIInv'
<1>. USE DEF documents, page, list, variables
<1>0. /\ ProfileTypeOK /\ PhotoExists /\ ShownToUser
      /\ ClaimsApart /\ ListIsCurrent /\ PhotoLoaded /\ SourceIsOwn
  BY DEF ProfileIInv
<1>1. /\ user \in People /\ queue[user] # <<>> /\ queue[user] \in Seq(Texts)
      /\ username' = [username EXCEPT ![user] = Head(queue[user])]
      /\ queue' = [queue EXCEPT ![user] = Tail(queue[user])]
      /\ UNCHANGED <<linked, file, user, visits, shown, asked, names, fetched, lastUsername,
                     picture, isPhotoChanged, nameText, save, raced>>
  BY <1>0 DEF Apply, ProfileTypeOK
<1>2. /\ Tail(queue[user]) \in Seq(Texts) /\ Head(queue[user]) \in Texts
      /\ ToSet(Tail(queue[user])) \subseteq ToSet(queue[user])
      /\ Head(queue[user]) \in ToSet(queue[user])
  BY <1>1, WritesOf
<1>3. ProfileTypeOK'
  BY <1>0, <1>1, <1>2 DEF ProfileTypeOK
<1>4. \A u \in People :
        /\ u = user => username'[u] = Head(queue[user]) /\ queue'[u] = Tail(queue[user])
        /\ u # user => username'[u] = username[u] /\ queue'[u] = queue[u]
        /\ Mine(u)' = Mine(u)
  BY <1>0, <1>1 DEF ProfileTypeOK, Mine
<1>5. ClaimsApart'
  <2>1. \A u \in People : Claims(u)' \subseteq Claims(u)
    BY <1>1, <1>2, <1>4 DEF Claims
  <2>. QED BY <1>0, <1>1, <2>1, Zenon DEF ClaimsApart
<1>6. ListIsCurrent'
  BY <1>0, <1>1, <1>4 DEF ListIsCurrent
<1>. QED BY <1>0, <1>1, <1>3, <1>5, <1>6
         DEF ProfileIInv, PhotoExists, ShownToUser, PhotoLoaded, SourceIsOwn

LEMMA ProfileStarts == ProfileInit => ProfileIInv
<1>. SUFFICES ASSUME ProfileInit PROVE ProfileIInv
  OBVIOUS
<1>1. ProfileTypeOK
  <2>1. queue \in [People -> Seq(Texts)]
    BY DEF ProfileInit
  <2>2. save \in [Saves -> Uploads \union {None}] /\ file \in [People -> People \union {None}]
    BY DEF ProfileInit
  <2>3. visits \in 0..MaxVisits
    BY MaxVisitsAssumption DEF ProfileInit
  <2>. QED BY <2>1, <2>2, <2>3 DEF ProfileInit, ProfileTypeOK, Texts
<1>2. \A u \in People : Claims(u) = {username[u]} /\ username[u] \in Names
  BY DEF ProfileInit, Claims, ToSet, Mine
<1>3. ClaimsApart
  BY <1>2, DistinctAssumption DEF ProfileInit, ClaimsApart
<1>. QED BY <1>1, <1>3
         DEF ProfileInit, ProfileIInv, PhotoExists, ShownToUser, ListIsCurrent, PhotoLoaded, SourceIsOwn

LEMMA ProfileSteps == ProfileIInv /\ [ProfileNext]_profileVars => ProfileIInv'
<1>. SUFFICES ASSUME ProfileIInv, [ProfileNext]_profileVars PROVE ProfileIInv'
  OBVIOUS
<1>1. CASE \/ \E u \in People : LogIn(u) \/ GetProfilePhoto(u) \/ GetUserInfo(u)
           \/ LogOut \/ OpenPage \/ PickImage \/ \E n \in Texts : Type(n)
  BY <1>1, PageStep
<1>2. CASE Leave \/ Restart
  BY <1>2, LeaveStep
<1>3. CASE GetAllUsername \/ SaveInfo \/ Apply
  BY <1>3, GetAllUsernameStep, SaveInfoStep, ApplyStep
<1>4. ASSUME NEW s \in Saves, SavePhoto(s) \/ Upload(s) \/ WhenComplete(s) PROVE ProfileIInv'
  BY <1>4, SavePhotoStep, UploadStep, WhenCompleteStep
<1>5. CASE UNCHANGED profileVars
  <2>1. UNCHANGED <<username, linked, file, queue, user, visits, shown, asked, names, fetched,
                    lastUsername, picture, isPhotoChanged, nameText, save, raced>>
    BY <1>5 DEF profileVars, documents, page, list, variables
  <2>2. \A u : Mine(u)' = Mine(u) /\ Claims(u)' = Claims(u)
    BY <2>1 DEF Mine, Claims
  <2>3. ProfileTypeOK'
    BY <2>1 DEF ProfileIInv, ProfileTypeOK
  <2>4. ClaimsApart'
    BY <2>1, <2>2 DEF ProfileIInv, ClaimsApart
  <2>5. ListIsCurrent'
    BY <2>1, <2>2 DEF ProfileIInv, ListIsCurrent
  <2>. QED BY <2>1, <2>3, <2>4, <2>5
           DEF ProfileIInv, PhotoExists, ShownToUser, PhotoLoaded, SourceIsOwn
<1>. QED BY <1>1, <1>2, <1>3, <1>4, <1>5 DEF ProfileNext

(* No document, and no write to one, names a picture that is not there     *)
(* (changeUserInfo asks for the URL before it updates the document).       *)
THEOREM PhotosExist == ProfileSpec => []PhotoExists
<1>1. ProfileIInv => PhotoExists
  BY DEF ProfileIInv
<1>. QED BY <1>1, ProfileStarts, ProfileSteps, PTL DEF ProfileSpec

(* A user is without a name, or has another's, only if one of them sent a  *)
(* name that the check did not see, or had one under way when the other    *)
(* fetched the list (checkUsername).                                       *)
THEOREM NamesNeedRace == ProfileSpec => []BadNameNeedsRace
<1>1. ProfileIInv => BadNameNeedsRace
  BY DEF ProfileIInv, ClaimsApart, Claims, BadNameNeedsRace
<1>. QED BY <1>1, ProfileStarts, ProfileSteps, PTL DEF ProfileSpec

(* A file gets a picture that another picked only in a save that was begun *)
(* before the own picture was loaded (getProfilePhoto, changeUserInfo).    *)
THEOREM FilesAreOwn == ProfileSpec => FileIsOwn
<1>1. ASSUME ProfileIInv, [ProfileNext]_profileVars, NEW u \in People, file'[u] # file[u], file'[u] # u
      PROVE  \E s \in Saves : save[s] # None /\ save[s].uid = u /\ save[s].early
  <2>1. PICK s \in Saves : Upload(s)
    BY <1>1
    DEF ProfileNext, profileVars, documents, LogIn, GetProfilePhoto, GetUserInfo, LogOut, OpenPage,
        Leave, GetAllUsername, PickImage, SaveInfo, Apply, Restart, Type, SavePhoto, WhenComplete
  <2>2. /\ save[s] # None /\ save[s].source # Url
        /\ file' = [file EXCEPT ![save[s].uid] = save[s].source]
    BY <1>1, <2>1 DEF Upload
  <2>3. save[s].uid = u /\ save[s].source # u
    BY <1>1, <2>2 DEF ProfileIInv, ProfileTypeOK
  <2>. QED BY <1>1, <2>2, <2>3 DEF ProfileIInv, SourceIsOwn
<1>2. ProfileIInv /\ [ProfileNext]_profileVars =>
        [\A u \in People : file'[u] \in {file[u], u}
           \/ \E s \in Saves : save[s] # None /\ save[s].uid = u /\ save[s].early]_profileVars
  BY <1>1
<1>. QED BY <1>2, ProfileStarts, ProfileSteps, PTL DEF ProfileSpec, FileIsOwn
=============================================================================
