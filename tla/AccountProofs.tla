---------------------------- MODULE AccountProofs ----------------------------
(***************************************************************************)
(* Proofs about Account, for any people, devices, names and bounds.        *)
(***************************************************************************)
EXTENDS Account, TLAPS

(* A device shows the start page if and only if nobody is logged in, and   *)
(* only who uses a device logs in on it.                                   *)
PageMatchesUser ==
  \A d \in Devices :
    IF page[d] = "start" THEN user[d] = Nobody ELSE user[d] \in Uses(d)

(* Only the Google buttons leave a request for the document behind.        *)
OnlyGoogleGets == \A c \in Clients : signing[c] = "get" => c[2] \in Google

IInv == TypeOK /\ PageMatchesUser /\ OnlyGoogleGets /\ UndocumentedIsUnderWay

(* What a queue holds: a set(), one at most, none with a name; a name that *)
(* was submitted.                                                          *)
HasSet(q) == \E i \in DOMAIN q : q[i][1] = "set"
OneSetIn(q) == \A i, j \in DOMAIN q : q[i][1] = "set" /\ q[j][1] = "set" => i = j
SetsBlank(q) == \A i \in DOMAIN q : q[i][1] = "set" => q[i][2] = Empty
Claims(q, n) == \E i \in DOMAIN q : q[i][1] # "set" /\ q[i][2] = n

(* A list of names goes with its page; and it has the name of every other  *)
(* user, as long as none of them is named while it is relied on.           *)
ListGoesWithPage == \A d \in Devices : page[d] # "username" => ~fetched[d]
ClaimsAreChecked ==
  \A u, v \in Users : u # v /\ username[u] \in Names /\ <<v, u>> \notin raced =>
    \A d \in UsedBy(v) :
      /\ user[d] = v /\ page[d] = "username" /\ fetched[d] => username[u] \in names[d]
      /\ Claims(queue[<<d, v>>], username[u]) => v \in blind

(* Unless a user was signed up on two devices at once there is one set()   *)
(* at most for the document, and none once it is there; nor is there any   *)
(* before the account.                                                     *)
OneSet ==
  \A u \in Users \ doubled :
    /\ \A d \in UsedBy(u) : OneSetIn(queue[<<d, u>>])
    /\ \A d, e \in UsedBy(u) : HasSet(queue[<<d, u>>]) /\ HasSet(queue[<<e, u>>]) => d = e
    /\ username[u] # NoDocument => \A d \in UsedBy(u) : ~HasSet(queue[<<d, u>>])
NewAreBlank ==
  /\ \A u \in Users : \A d \in UsedBy(u) : signing[<<d, u>>] = "get" => user[d] = u
  /\ \A d \in Devices : user[d] # Nobody => user[d] \in accounts
  /\ \A u \in Users \ accounts :
       username[u] = NoDocument /\ \A d \in UsedBy(u) : ~HasSet(queue[<<d, u>>])

NInv ==
  /\ ListGoesWithPage
  /\ \A c \in Clients : SetsBlank(queue[c])
  /\ ClaimsAreChecked /\ SharedNameNeedsRace
  /\ OneSet /\ NewAreBlank

-----------------------------------------------------------------------------
(* Queues                                                                  *)

(* A queue stays a queue of writes when the handlers that wait go.         *)
LEMMA OrphanedIsQueue ==
  ASSUME NEW q \in Seq(Writes)
  PROVE  Orphaned(q) \in Seq(Writes)
<1>1. \A i \in 1..Len(q) :
        /\ q[i] \in Writes
        /\ (IF q[i][1] = "update" THEN <<"orphan", q[i][2]>> ELSE q[i]) \in Writes
  BY DEF Writes
<1>2. Orphaned(q) = [i \in 1..Len(q) |->
        IF q[i][1] = "update" THEN <<"orphan", q[i][2]>> ELSE q[i]]
  BY DEF Orphaned
<1>. QED BY <1>1, <1>2

(* A write at the end of a queue hides none before it.                     *)
LEMMA AppendKeepsSet ==
  ASSUME NEW q \in Seq(Writes), NEW w \in Writes, NEW i \in DOMAIN q
  PROVE  i \in DOMAIN Append(q, w) /\ Append(q, w)[i] = q[i]
OBVIOUS

(* ... and is there itself.                                                *)
LEMMA AppendedIsThere ==
  ASSUME NEW q \in Seq(Writes), NEW w \in Writes
  PROVE  \E i \in DOMAIN Append(q, w) : Append(q, w)[i] = w
<1>1. Len(q) + 1 \in DOMAIN Append(q, w) /\ Append(q, w)[Len(q) + 1] = w
  OBVIOUS
<1>. QED BY <1>1

(* Taking the oldest write off leaves every other.                         *)
LEMMA TailKeepsOthers ==
  ASSUME NEW q \in Seq(Writes), q # <<>>, NEW i \in DOMAIN q, q[i] # Head(q)
  PROVE  i - 1 \in DOMAIN Tail(q) /\ Tail(q)[i - 1] = q[i]
<1>1. i # 1 /\ i \in 1..Len(q)
  OBVIOUS
<1>. QED BY <1>1

(* Replacing a queue by a queue.                                           *)
LEMMA ReplacedIsQueue ==
  ASSUME NEW T, NEW f \in [Clients -> T], NEW c \in Clients, NEW q \in T
  PROVE  [f EXCEPT ![c] = q] \in [Clients -> T]
OBVIOUS

-----------------------------------------------------------------------------
(* Type correctness, with the page every user is on                        *)

LEMMA Initially == Init => IInv
BY DistinctAssumption, ClientsAssumption
   DEF Init, IInv, TypeOK, Pages, Writes, PageMatchesUser, OnlyGoogleGets,
       UndocumentedIsUnderWay

LEMMA KeepsTypes ==
  ASSUME TypeOK, PageMatchesUser, [Next]_vars
  PROVE  TypeOK' /\ PageMatchesUser'
<1>. USE ClientsAssumption, DistinctAssumption DEF cloud, naming, history, Uses, UsedBy
<1>0. CASE UNCHANGED vars
  BY <1>0 DEF vars, TypeOK, PageMatchesUser
<1>1. ASSUME NEW d \in Devices, NEW u \in Uses(d),
             \/ SignUp(d, u) \/ Created(d, u) \/ LogIn(d, u)
             \/ GoogleSignIn(d, u) \/ GoogleGet(d, u)
             \/ CreateFails(d, u) \/ GoogleSignInFails(d, u) \/ GoogleGetFails(d, u)
      PROVE  TypeOK' /\ PageMatchesUser'
  <2>. <<d, u>> \in Clients /\ u \in Users
    OBVIOUS
  <2>a. <<"set", Empty>> \in Writes
    BY DEF Writes
  <2>b. Append(queue[<<d, u>>], <<"set", Empty>>) \in Seq(Writes)
    BY <2>a DEF TypeOK
  <2>c. [queue EXCEPT ![<<d, u>>] = Append(queue[<<d, u>>], <<"set", Empty>>)]
          \in [Clients -> Seq(Writes)]
    BY <2>b, ReplacedIsQueue DEF TypeOK
  <2>1. CASE SignUp(d, u)
    BY <2>1 DEF SignUp, TypeOK, PageMatchesUser
  <2>2. CASE Created(d, u)
    <3>1. queue' \in [Clients -> Seq(Writes)]
      BY <2>2, <2>c DEF Created, Add
    <3>2. PageMatchesUser'
      BY <2>2 DEF Created, TypeOK, PageMatchesUser
    <3>3. /\ accounts' = accounts \union {u}
          /\ user' = [user EXCEPT ![d] = u]
          /\ page' = [page EXCEPT ![d] = "unverified"]
          /\ signing' = [signing EXCEPT ![<<d, u>>] = "idle"]
          /\ UNCHANGED <<verified, username, naming, history>>
      BY <2>2 DEF Created
    <3>4. accounts' \subseteq Users /\ user' \in [Devices -> Users \union {Nobody}]
      BY <3>3 DEF TypeOK
    <3>5. page' \in [Devices -> Pages] /\ signing' \in [Clients -> {"idle", "create", "get"}]
      BY <3>3 DEF TypeOK, Pages
    <3>. QED BY <3>1, <3>2, <3>3, <3>4, <3>5 DEF TypeOK
  <2>3. CASE LogIn(d, u)
    BY <2>3 DEF LogIn, TypeOK, PageMatchesUser, Pages
  <2>4. CASE GoogleSignIn(d, u)
    BY <2>4 DEF GoogleSignIn, TypeOK, PageMatchesUser, Pages
  <2>5. CASE GoogleGet(d, u)
    <3>1. queue' \in [Clients -> Seq(Writes)]
      BY <2>5, <2>c DEF GoogleGet, Add, TypeOK
    <3>2. doubled' = doubled \/ doubled' = doubled \union {u}
      BY <2>5, Zenon DEF GoogleGet
    <3>3. signing' \in [Clients -> {"idle", "create", "get"}]
      BY <2>5 DEF GoogleGet, TypeOK
    <3>4. /\ UNCHANGED <<accounts, verified, username, user, page, names, fetched>>
          /\ UNCHANGED <<blind, raced>> /\ cut' = cut \ {u}
      BY <2>5 DEF GoogleGet
    <3>5. PageMatchesUser'
      BY <3>4 DEF PageMatchesUser
    <3>. QED BY <3>1, <3>2, <3>3, <3>4, <3>5 DEF TypeOK
  <2>6. CASE CreateFails(d, u)
    BY <2>6 DEF CreateFails, TypeOK, PageMatchesUser
  <2>7. CASE GoogleSignInFails(d, u)
    BY <2>7 DEF GoogleSignInFails, TypeOK, PageMatchesUser
  <2>8. CASE GoogleGetFails(d, u)
    BY <2>8 DEF GoogleGetFails, TypeOK, PageMatchesUser
  <2>. QED BY <1>1, <2>1, <2>2, <2>3, <2>4, <2>5, <2>6, <2>7, <2>8
<1>2. ASSUME NEW d \in Devices, NEW u \in Uses(d), ApplySet(d, u) \/ ApplyUpdate(d, u)
      PROVE  TypeOK' /\ PageMatchesUser'
  <2>1. /\ <<d, u>> \in Clients /\ u \in Users
        /\ queue[<<d, u>>] \in Seq(Writes) /\ queue[<<d, u>>] # <<>>
        /\ user[d] = u /\ page[d] # "start"
    BY <1>2 DEF ApplySet, ApplyUpdate, Sends, TypeOK, PageMatchesUser
  <2>2. /\ Head(queue[<<d, u>>]) \in Writes
        /\ Tail(queue[<<d, u>>]) \in Seq(Writes)
    BY <2>1
  <2>3. Head(queue[<<d, u>>])[2] \in Names \union {Empty}
    BY <2>2 DEF Writes
  <2>4. Orphaned(Tail(queue[<<d, u>>])) \in Seq(Writes)
    BY <2>2, OrphanedIsQueue
  <2>5. CASE ApplySet(d, u)
    BY <2>5, <2>1, <2>2, <2>3 DEF ApplySet, TypeOK, PageMatchesUser
  <2>6. CASE ApplyUpdate(d, u)
    <3>1. username' \in [Users -> Names \union {Empty, NoDocument}]
      BY <2>6, <2>1, <2>3 DEF ApplyUpdate, TypeOK
    <3>2. raced' \subseteq Users \X Users
      BY <2>6, <2>1 DEF ApplyUpdate, TypeOK
    <3>3. /\ page' \in [Devices -> Pages] /\ names' \in [Devices -> SUBSET (Names \union {Empty})]
          /\ fetched' \in [Devices -> BOOLEAN]
      BY <2>6, <2>1 DEF ApplyUpdate, CloseNames, TypeOK, Pages
    <3>4. queue' \in [Clients -> Seq(Writes)]
      <4>1. \/ queue' = [queue EXCEPT ![<<d, u>>] = Tail(queue[<<d, u>>])]
            \/ queue' = [queue EXCEPT ![<<d, u>>] = Orphaned(Tail(queue[<<d, u>>]))]
        BY <2>6 DEF ApplyUpdate
      <4>2. queue \in [Clients -> Seq(Writes)]
        BY DEF TypeOK
      <4>3. /\ [queue EXCEPT ![<<d, u>>] = Tail(queue[<<d, u>>])] \in [Clients -> Seq(Writes)]
            /\ [queue EXCEPT ![<<d, u>>] = Orphaned(Tail(queue[<<d, u>>]))]
                 \in [Clients -> Seq(Writes)]
        BY <4>2, <2>1, <2>2, <2>4, ReplacedIsQueue
      <4>. QED BY <4>1, <4>3
    <3>5. PageMatchesUser'
      BY <2>6, <2>1 DEF ApplyUpdate, TypeOK, PageMatchesUser
    <3>. QED BY <2>6, <3>1, <3>2, <3>3, <3>4, <3>5 DEF ApplyUpdate, TypeOK
  <2>. QED BY <1>2, <2>5, <2>6
<1>3. ASSUME NEW d \in Devices, LogOut(d)
      PROVE  TypeOK' /\ PageMatchesUser'
  <2>1. user[d] \in Uses(d)
    BY <1>3 DEF LogOut, PageMatchesUser
  <2>. QED BY <1>3, <2>1 DEF LogOut, TypeOK, PageMatchesUser, Pages
<1>4. ASSUME NEW d \in Devices, Check(d) \/ Home(d)
      PROVE  TypeOK' /\ PageMatchesUser'
  BY <1>4 DEF Check, Home, TypeOK, PageMatchesUser, Pages
<1>5. ASSUME NEW d \in Devices, FetchNames(d)
      PROVE  TypeOK' /\ PageMatchesUser'
  <2>1. ASSUME NEW u \in Users
        PROVE  Sees(d, u) \in Names \union {Empty, NoDocument}
    <3>1. CASE user[d] # u \/ queue[<<d, u>>] = <<>>
      BY <3>1 DEF Sees, TypeOK
    <3>2. CASE user[d] = u /\ queue[<<d, u>>] # <<>>
      <4>1. <<d, u>> \in Clients
        BY <1>5, <3>2 DEF FetchNames, PageMatchesUser
      <4>2. queue[<<d, u>>] \in Seq(Writes)
        BY <4>1 DEF TypeOK
      <4>3. queue[<<d, u>>][Len(queue[<<d, u>>])] \in Writes
        BY <4>2, <3>2
      <4>. QED BY <3>2, <4>3 DEF Sees, Writes
    <3>. QED BY <3>1, <3>2
  <2>2. {Sees(d, u) : u \in Users} \ {NoDocument} \subseteq Names \union {Empty}
    BY <2>1
  <2>. QED BY <1>5, <2>2 DEF FetchNames, TypeOK, PageMatchesUser
<1>6. ASSUME NEW d \in Devices, Restart(d)
      PROVE  TypeOK' /\ PageMatchesUser'
  <2>1. queue' \in [Clients -> Seq(Writes)]
    BY <1>6, OrphanedIsQueue DEF Restart, TypeOK
  <2>2. PageMatchesUser'
    BY <1>6 DEF Restart, TypeOK, PageMatchesUser
  <2>. QED BY <1>6, <2>1, <2>2 DEF Restart, CloseNames, TypeOK, Pages
<1>7. ASSUME NEW d \in Devices, NEW n \in Names \union {Empty}, Submit(d, n)
      PROVE  TypeOK' /\ PageMatchesUser'
  <2>1. <<d, user[d]>> \in Clients /\ user[d] \in Users /\ <<"update", n>> \in Writes
    BY <1>7 DEF Submit, PageMatchesUser, Writes
  <2>. QED BY <1>7, <2>1 DEF Submit, Add, TypeOK, PageMatchesUser
<1>8. ASSUME NEW u \in Users, Verify(u)
      PROVE  TypeOK' /\ PageMatchesUser'
  BY <1>8 DEF Verify, TypeOK, PageMatchesUser
<1>. QED BY <1>0, <1>1, <1>2, <1>3, <1>4, <1>5, <1>6, <1>7, <1>8 DEF Next

-----------------------------------------------------------------------------
(* Whoever has an account is getting a document, or was cut off            *)

(* A step that takes no request and no pending set() away, and nobody's    *)
(* document, keeps the invariant.                                          *)
LEMMA NothingTakenAway ==
  ASSUME UndocumentedIsUnderWay,
         accounts' = accounts, username' = username, cut' = cut,
         \A c \in Clients : signing[c] = "get" => signing'[c] = "get",
         \A c \in Clients : SetPending(c) => SetPending(c)'
  PROVE  UndocumentedIsUnderWay'
<1>. SUFFICES ASSUME NEW u \in accounts, username[u] = NoDocument, u \notin cut
             PROVE  \E d \in UsedBy(u) : signing'[<<d, u>>] = "get" \/ SetPending(<<d, u>>)'
  BY DEF UndocumentedIsUnderWay
<1>1. PICK d \in UsedBy(u) : signing[<<d, u>>] = "get" \/ SetPending(<<d, u>>)
  BY DEF UndocumentedIsUnderWay
<1>2. <<d, u>> \in Clients
  BY DEF UsedBy
<1>. QED BY <1>1, <1>2

(* Queueing a write takes no pending set() away.                           *)
LEMMA AddKeepsSets ==
  ASSUME TypeOK, NEW c \in Clients, NEW w \in Writes, Add(c, w)
  PROVE  \A b \in Clients : SetPending(b) => SetPending(b)'
<1>1. ASSUME NEW b \in Clients, SetPending(b) PROVE SetPending(b)'
  <2>1. PICK i \in DOMAIN queue[b] : queue[b][i][1] = "set"
    BY <1>1 DEF SetPending
  <2>2. CASE b # c
    <3>1. queue'[b] = queue[b]
      BY <2>2 DEF Add, TypeOK
    <3>. QED BY <2>1, <3>1 DEF SetPending
  <2>3. CASE b = c
    <3>1. queue[c] \in Seq(Writes) /\ queue'[c] = Append(queue[c], w)
      BY DEF Add, TypeOK
    <3>2. i \in DOMAIN queue'[c] /\ queue'[c][i] = queue[c][i]
      BY <2>1, <2>3, <3>1, AppendKeepsSet
    <3>. QED BY <2>1, <2>3, <3>2 DEF SetPending
  <2>. QED BY <2>2, <2>3
<1>. QED BY <1>1

(* ... and a set() that was queued is pending.                             *)
LEMMA AddedSetIsPending ==
  ASSUME TypeOK, NEW c \in Clients, Add(c, <<"set", Empty>>)
  PROVE  SetPending(c)'
<1>1. <<"set", Empty>> \in Writes /\ queue[c] \in Seq(Writes)
  BY DEF Writes, TypeOK
<1>2. queue'[c] = Append(queue[c], <<"set", Empty>>)
  BY DEF Add, TypeOK
<1>3. PICK i \in DOMAIN queue'[c] : queue'[c][i] = <<"set", Empty>>
  BY <1>1, <1>2, AppendedIsThere
<1>. QED BY <1>3 DEF SetPending

LEMMA KeepsUnderWay ==
  ASSUME IInv, TypeOK', [Next]_vars
  PROVE  OnlyGoogleGets' /\ UndocumentedIsUnderWay'
<1>. USE DEF cloud, naming, history, IInv
<1>0. CASE UNCHANGED vars
  BY <1>0 DEF vars, OnlyGoogleGets, UndocumentedIsUnderWay, SetPending
<1>1. ASSUME NEW d \in Devices, NEW u \in Uses(d),
             \/ SignUp(d, u) \/ Created(d, u) \/ LogIn(d, u)
             \/ GoogleSignIn(d, u) \/ GoogleGet(d, u)
             \/ CreateFails(d, u) \/ GoogleSignInFails(d, u) \/ GoogleGetFails(d, u)
      PROVE  OnlyGoogleGets' /\ UndocumentedIsUnderWay'
  <2>. <<d, u>> \in Clients /\ u \in Users /\ d \in UsedBy(u)
    BY DEF Uses, UsedBy
  <2>1. CASE SignUp(d, u)
    <3>1. \A c \in Clients : signing[c] = "get" => signing'[c] = "get"
      BY <2>1 DEF SignUp, OnlyGoogleGets, TypeOK
    <3>2. UndocumentedIsUnderWay'
      BY <2>1, <3>1, NothingTakenAway DEF SignUp, SetPending
    <3>. QED BY <2>1, <3>2 DEF SignUp, OnlyGoogleGets, TypeOK
  <2>2. CASE Created(d, u)
    <3>1. OnlyGoogleGets'
      BY <2>2 DEF Created, OnlyGoogleGets, TypeOK
    <3>2. \A c \in Clients : signing[c] = "get" => signing'[c] = "get"
      BY <2>2 DEF Created, TypeOK
    <3>3. /\ accounts' = accounts \union {u} /\ username' = username /\ cut' = cut
          /\ Add(<<d, u>>, <<"set", Empty>>)
      BY <2>2 DEF Created
    <3>4. \A c \in Clients : SetPending(c) => SetPending(c)'
      BY <3>3, AddKeepsSets DEF Writes
    <3>5. SetPending(<<d, u>>)'
      BY <3>3, AddedSetIsPending
    <3>6. ASSUME NEW v \in accounts', username'[v] = NoDocument, v \notin cut'
          PROVE  \E e \in UsedBy(v) : signing'[<<e, v>>] = "get" \/ SetPending(<<e, v>>)'
      <4>1. CASE v = u
        BY <3>5, <4>1
      <4>2. CASE v # u
        <5>1. PICK e \in UsedBy(v) : signing[<<e, v>>] = "get" \/ SetPending(<<e, v>>)
          BY <3>3, <3>6, <4>2 DEF UndocumentedIsUnderWay
        <5>2. <<e, v>> \in Clients
          BY DEF UsedBy
        <5>. QED BY <5>1, <5>2, <3>2, <3>4
      <4>. QED BY <4>1, <4>2
    <3>. QED BY <3>1, <3>6 DEF UndocumentedIsUnderWay
  <2>3. CASE LogIn(d, u)
    BY <2>3, NothingTakenAway DEF LogIn, OnlyGoogleGets, SetPending
  <2>4. CASE GoogleSignIn(d, u)
    <3>1. /\ OnlyGoogleGets' /\ signing'[<<d, u>>] = "get"
          /\ \A c \in Clients : signing[c] = "get" => signing'[c] = "get"
      BY <2>4 DEF GoogleSignIn, OnlyGoogleGets, TypeOK
    <3>2. /\ accounts' = accounts \union {u}
          /\ UNCHANGED <<username, cut, queue>>
      BY <2>4 DEF GoogleSignIn
    <3>3. ASSUME NEW v \in accounts', username'[v] = NoDocument, v \notin cut'
          PROVE  \E e \in UsedBy(v) : signing'[<<e, v>>] = "get" \/ SetPending(<<e, v>>)'
      <4>1. CASE v = u
        BY <3>1, <4>1
      <4>2. CASE v # u
        <5>1. PICK e \in UsedBy(v) : signing[<<e, v>>] = "get" \/ SetPending(<<e, v>>)
          BY <3>2, <3>3, <4>2 DEF UndocumentedIsUnderWay
        <5>2. <<e, v>> \in Clients
          BY DEF UsedBy
        <5>. QED BY <3>1, <3>2, <5>1, <5>2 DEF SetPending
      <4>. QED BY <4>1, <4>2
    <3>. QED BY <3>1, <3>3 DEF UndocumentedIsUnderWay
  <2>5. CASE GoogleGet(d, u)
    <3>1. /\ OnlyGoogleGets'
          /\ \A c \in Clients \ {<<d, u>>} : signing[c] = "get" => signing'[c] = "get"
      BY <2>5 DEF GoogleGet, OnlyGoogleGets, TypeOK
    <3>2. accounts' = accounts /\ username' = username /\ cut' = cut \ {u}
      BY <2>5 DEF GoogleGet
    <3>3. username[u] # NoDocument \/ SetPending(<<d, u>>)'
      <4>1. CASE Sees(d, u) # NoDocument
        <5>1. username[u] # NoDocument \/ SetPending(<<d, u>>)
          BY <4>1, Zenon DEF Sees
        <5>2. queue' = queue
          BY <2>5, <4>1 DEF GoogleGet
        <5>. QED BY <5>1, <5>2 DEF SetPending
      <4>2. CASE Sees(d, u) = NoDocument
        BY <2>5, <4>2, AddedSetIsPending DEF GoogleGet
      <4>. QED BY <4>1, <4>2
    <3>4. \A c \in Clients : SetPending(c) => SetPending(c)'
      <4>1. queue' = queue \/ Add(<<d, u>>, <<"set", Empty>>)
        BY <2>5 DEF GoogleGet
      <4>. QED BY <4>1, AddKeepsSets DEF Writes, SetPending
    <3>5. ASSUME NEW v \in accounts', username'[v] = NoDocument, v \notin cut'
          PROVE  \E e \in UsedBy(v) : signing'[<<e, v>>] = "get" \/ SetPending(<<e, v>>)'
      <4>1. CASE v = u
        BY <3>2, <3>3, <3>5, <4>1
      <4>2. CASE v # u
        <5>1. PICK e \in UsedBy(v) : signing[<<e, v>>] = "get" \/ SetPending(<<e, v>>)
          BY <3>2, <3>5, <4>2 DEF UndocumentedIsUnderWay
        <5>2. <<e, v>> \in Clients /\ <<e, v>> # <<d, u>>
          BY <4>2 DEF UsedBy
        <5>. QED BY <3>1, <3>4, <5>1, <5>2
      <4>. QED BY <4>1, <4>2
    <3>. QED BY <3>1, <3>5 DEF UndocumentedIsUnderWay
  <2>6. CASE CreateFails(d, u) \/ GoogleSignInFails(d, u) \/ GoogleGetFails(d, u)
    <3>1. /\ username' = username /\ queue' = queue
          /\ \/ accounts' = accounts /\ cut' = cut
             \/ accounts' \subseteq accounts \union {u} /\ cut' = cut \union {u}
      BY <2>6 DEF CreateFails, GoogleSignInFails, GoogleGetFails
    <3>2. /\ OnlyGoogleGets'
          /\ \A c \in Clients \ {<<d, u>>} : signing'[c] = signing[c]
      BY <2>6 DEF CreateFails, GoogleSignInFails, GoogleGetFails, OnlyGoogleGets, TypeOK
    <3>3. signing[<<d, u>>] = "get" => signing'[<<d, u>>] = "get" \/ cut' = cut \union {u}
      BY <2>6 DEF CreateFails, GoogleSignInFails, GoogleGetFails
    <3>4. ASSUME NEW v \in accounts', username'[v] = NoDocument, v \notin cut'
          PROVE  \E e \in UsedBy(v) : signing'[<<e, v>>] = "get" \/ SetPending(<<e, v>>)'
      <4>1. v \in accounts /\ username[v] = NoDocument /\ v \notin cut
        BY <3>1, <3>4
      <4>2. PICK e \in UsedBy(v) : signing[<<e, v>>] = "get" \/ SetPending(<<e, v>>)
        BY <4>1 DEF UndocumentedIsUnderWay
      <4>3. <<e, v>> \in Clients
        BY DEF UsedBy
      <4>4. signing[<<e, v>>] = "get" => signing'[<<e, v>>] = "get"
        BY <3>2, <3>3, <3>4, <4>3
      <4>. QED BY <3>1, <4>2, <4>4 DEF SetPending
    <3>. QED BY <3>2, <3>4 DEF UndocumentedIsUnderWay
  <2>. QED BY <1>1, <2>1, <2>2, <2>3, <2>4, <2>5, <2>6
<1>2. ASSUME NEW d \in Devices, NEW u \in Uses(d), ApplySet(d, u) \/ ApplyUpdate(d, u)
      PROVE  OnlyGoogleGets' /\ UndocumentedIsUnderWay'
  <2>1. /\ <<d, u>> \in Clients /\ u \in Users
        /\ queue[<<d, u>>] \in Seq(Writes) /\ queue[<<d, u>>] # <<>>
    BY <1>2 DEF ApplySet, ApplyUpdate, Sends, TypeOK, Uses
  <2>2. Head(queue[<<d, u>>])[2] # NoDocument
    <3>1. Head(queue[<<d, u>>]) \in Writes
      BY <2>1
    <3>. QED BY <3>1, DistinctAssumption DEF Writes
  <2>3. /\ accounts' = accounts /\ signing' = signing /\ cut' = cut
        /\ \A v \in Users \ {u} : username'[v] = username[v]
        /\ \A c \in Clients \ {<<d, u>>} : queue'[c] = queue[c]
    BY <1>2 DEF ApplySet, ApplyUpdate, TypeOK
  <2>4. username'[u] = NoDocument =>
          /\ username[u] = NoDocument
          /\ SetPending(<<d, u>>) => SetPending(<<d, u>>)'
    <3>1. CASE ApplySet(d, u)
      BY <3>1, <2>1, <2>2 DEF ApplySet, TypeOK
    <3>2. CASE ApplyUpdate(d, u) /\ username[u] # NoDocument
      BY <3>2, <2>1, <2>2 DEF ApplyUpdate, TypeOK
    <3>3. CASE ApplyUpdate(d, u) /\ username[u] = NoDocument
      <4>1. queue'[<<d, u>>] = Tail(queue[<<d, u>>])
        BY <3>3, <2>1 DEF ApplyUpdate, TypeOK
      <4>2. Head(queue[<<d, u>>])[1] # "set"
        BY <3>3 DEF ApplyUpdate, Sends
      <4>3. ASSUME NEW i \in DOMAIN queue[<<d, u>>], queue[<<d, u>>][i][1] = "set"
            PROVE  SetPending(<<d, u>>)'
        <5>1. i - 1 \in DOMAIN queue'[<<d, u>>] /\ queue'[<<d, u>>][i - 1][1] = "set"
          BY <2>1, <4>1, <4>2, <4>3, TailKeepsOthers
        <5>. QED BY <5>1 DEF SetPending
      <4>. QED BY <3>3, <4>3 DEF SetPending
    <3>. QED BY <1>2, <3>1, <3>2, <3>3
  <2>5. ASSUME NEW v \in accounts', username'[v] = NoDocument, v \notin cut'
        PROVE  \E e \in UsedBy(v) : signing'[<<e, v>>] = "get" \/ SetPending(<<e, v>>)'
    <3>1. v \in Users /\ username[v] = NoDocument
      BY <2>3, <2>4, <2>5 DEF TypeOK
    <3>2. PICK e \in UsedBy(v) : signing[<<e, v>>] = "get" \/ SetPending(<<e, v>>)
      BY <2>3, <2>5, <3>1 DEF UndocumentedIsUnderWay
    <3>3. CASE <<e, v>> = <<d, u>>
      BY <2>3, <2>4, <2>5, <3>2, <3>3
    <3>4. CASE <<e, v>> # <<d, u>>
      BY <2>3, <3>2, <3>4 DEF SetPending, UsedBy
    <3>. QED BY <3>3, <3>4
  <2>. QED BY <2>3, <2>5 DEF OnlyGoogleGets, UndocumentedIsUnderWay
<1>3. ASSUME NEW d \in Devices, LogOut(d)
      PROVE  OnlyGoogleGets' /\ UndocumentedIsUnderWay'
  <2>1. <<d, user[d]>> \in Clients
    BY <1>3 DEF LogOut, PageMatchesUser, Uses
  <2>2. /\ OnlyGoogleGets' /\ cut \subseteq cut'
        /\ \A c \in Clients : signing[c] = "get" => signing'[c] = "get" \/ c[2] \in cut'
    BY <1>3, <2>1 DEF LogOut, OnlyGoogleGets, TypeOK
  <2>3. accounts' = accounts /\ username' = username /\ queue' = queue
    BY <1>3 DEF LogOut
  <2>. QED BY <2>2, <2>3 DEF UndocumentedIsUnderWay, UsedBy, SetPending
<1>4. ASSUME NEW d \in Devices, Check(d) \/ Home(d) \/ FetchNames(d)
      PROVE  OnlyGoogleGets' /\ UndocumentedIsUnderWay'
  BY <1>4, NothingTakenAway DEF Check, Home, FetchNames, OnlyGoogleGets, SetPending
<1>5. ASSUME NEW d \in Devices, Restart(d)
      PROVE  OnlyGoogleGets' /\ UndocumentedIsUnderWay'
  <2>1. OnlyGoogleGets'
    BY <1>5 DEF Restart, OnlyGoogleGets, TypeOK
  <2>2. /\ username' = username /\ cut \subseteq cut'
        /\ \A v \in accounts' \ accounts : v \in cut'
    BY <1>5 DEF Restart, Uses
  <2>3. ASSUME NEW c \in Clients, c[1] # d
        PROVE  signing'[c] = signing[c] /\ queue'[c] = queue[c]
    BY <1>5, <2>3 DEF Restart
  <2>4. ASSUME NEW v \in Users, <<d, v>> \in Clients,
               signing[<<d, v>>] = "get" \/ SetPending(<<d, v>>)
        PROVE  v \in cut'
    <3>1. signing[<<d, v>>] # "idle" \/ queue[<<d, v>>] # <<>>
      BY <2>4 DEF SetPending
    <3>. QED BY <1>5, <2>4, <3>1 DEF Restart, Uses
  <2>5. ASSUME NEW v \in accounts', username'[v] = NoDocument, v \notin cut'
        PROVE  \E e \in UsedBy(v) : signing'[<<e, v>>] = "get" \/ SetPending(<<e, v>>)'
    <3>1. v \in accounts /\ v \in Users /\ username[v] = NoDocument /\ v \notin cut
      BY <2>2, <2>5 DEF TypeOK
    <3>2. PICK e \in UsedBy(v) : signing[<<e, v>>] = "get" \/ SetPending(<<e, v>>)
      BY <3>1 DEF UndocumentedIsUnderWay
    <3>3. <<e, v>> \in Clients /\ e # d
      BY <2>4, <2>5, <3>1, <3>2 DEF UsedBy
    <3>. QED BY <2>3, <3>2, <3>3 DEF SetPending
  <2>. QED BY <2>1, <2>5 DEF UndocumentedIsUnderWay
<1>6. ASSUME NEW d \in Devices, NEW n \in Names \union {Empty}, Submit(d, n)
      PROVE  OnlyGoogleGets' /\ UndocumentedIsUnderWay'
  <2>1. <<d, user[d]>> \in Clients /\ <<"update", n>> \in Writes
    BY <1>6 DEF Submit, PageMatchesUser, Uses, Writes
  <2>2. \A c \in Clients : SetPending(c) => SetPending(c)'
    BY <1>6, <2>1, AddKeepsSets DEF Submit
  <2>. QED BY <1>6, <2>2, NothingTakenAway DEF Submit, OnlyGoogleGets
<1>7. ASSUME NEW u \in Users, Verify(u)
      PROVE  OnlyGoogleGets' /\ UndocumentedIsUnderWay'
  BY <1>7, NothingTakenAway DEF Verify, OnlyGoogleGets, SetPending
<1>. QED BY <1>0, <1>1, <1>2, <1>3, <1>4, <1>5, <1>6, <1>7 DEF Next

-----------------------------------------------------------------------------
(* Names are checked, and documents made once                              *)

(* A queue with nothing new in it.                                         *)
Shrinks(q, r) ==
  /\ HasSet(r) => HasSet(q)
  /\ OneSetIn(q) => OneSetIn(r)
  /\ SetsBlank(q) => SetsBlank(r)
  /\ \A n : Claims(r, n) => Claims(q, n)

LEMMA ShrunkQueues ==
  ASSUME NEW q \in Seq(Writes)
  PROVE  /\ Shrinks(q, q) /\ Shrinks(q, <<>>) /\ Shrinks(q, Orphaned(q))
         /\ q # <<>> => Shrinks(q, Tail(q)) /\ Shrinks(q, Orphaned(Tail(q)))
<1>1. ASSUME NEW r \in Seq(Writes) PROVE Shrinks(r, Orphaned(r))
  <2>1. DOMAIN Orphaned(r) = DOMAIN r
    BY DEF Orphaned
  <2>2. ASSUME NEW i \in DOMAIN r
        PROVE  /\ Orphaned(r)[i][1] = "set" <=> r[i][1] = "set"
               /\ Orphaned(r)[i][2] = r[i][2]
    BY DEF Orphaned
  <2>. QED BY <2>1, <2>2 DEF Shrinks, HasSet, OneSetIn, SetsBlank, Claims
<1>2. ASSUME q # <<>> PROVE Tail(q) \in Seq(Writes) /\ Shrinks(q, Tail(q))
  <2>1. /\ Tail(q) \in Seq(Writes) /\ Len(q) \in Nat /\ DOMAIN q = 1..Len(q)
        /\ DOMAIN Tail(q) = 1..(Len(q) - 1)
    BY <1>2
  <2>2. \A i \in DOMAIN Tail(q) : i \in Nat /\ i + 1 \in DOMAIN q /\ Tail(q)[i] = q[i + 1]
    BY <1>2
  <2>3. HasSet(Tail(q)) => HasSet(q)
    BY <2>2 DEF HasSet
  <2>4. ASSUME OneSetIn(q) PROVE OneSetIn(Tail(q))
    <3>1. ASSUME NEW i \in DOMAIN Tail(q), NEW j \in DOMAIN Tail(q),
                 Tail(q)[i][1] = "set", Tail(q)[j][1] = "set"
          PROVE  i = j
      <4>1. i + 1 = j + 1
        BY <2>2, <2>4, <3>1 DEF OneSetIn
      <4>. QED BY <2>2, <4>1
    <3>. QED BY <3>1 DEF OneSetIn
  <2>5. SetsBlank(q) => SetsBlank(Tail(q))
    BY <2>2 DEF SetsBlank
  <2>6. \A n : Claims(Tail(q), n) => Claims(q, n)
    BY <2>2 DEF Claims
  <2>. QED BY <2>1, <2>3, <2>4, <2>5, <2>6 DEF Shrinks
<1>3. Shrinks(q, q) /\ Shrinks(q, <<>>)
  BY DEF Shrinks, HasSet, OneSetIn, SetsBlank, Claims
<1>4. ASSUME q # <<>> PROVE Shrinks(q, Orphaned(Tail(q)))
  BY <1>1, <1>2, <1>4 DEF Shrinks
<1>. QED BY <1>1, <1>2, <1>3, <1>4

(* What the oldest write tells of a queue.                                 *)
LEMMA OldestWrite ==
  ASSUME NEW q \in Seq(Writes), q # <<>>
  PROVE  /\ Head(q) \in Writes
         /\ Head(q)[1] = "set" => /\ HasSet(q)
                                  /\ SetsBlank(q) => Head(q)[2] = Empty
                                  /\ OneSetIn(q) => ~HasSet(Tail(q))
         /\ Head(q)[1] # "set" => Claims(q, Head(q)[2])
<1>1. Head(q) = q[1] /\ Head(q) \in Writes /\ 1 \in DOMAIN q /\ Len(q) \in Nat
  OBVIOUS
<1>2. \A i \in DOMAIN Tail(q) : i \in Nat /\ i # 0 /\ i + 1 \in DOMAIN q /\ Tail(q)[i] = q[i + 1]
  OBVIOUS
<1>3. ASSUME Head(q)[1] = "set", OneSetIn(q) PROVE ~HasSet(Tail(q))
  <2>. SUFFICES ASSUME NEW i \in DOMAIN Tail(q), Tail(q)[i][1] = "set" PROVE FALSE
    BY DEF HasSet
  <2>1. i + 1 = 1
    BY <1>1, <1>2, <1>3 DEF OneSetIn
  <2>. QED BY <1>2, <2>1
<1>. QED BY <1>1, <1>3 DEF HasSet, SetsBlank, Claims

(* A queue that grows.                                                     *)
LEMMA GrownQueues ==
  ASSUME NEW q \in Seq(Writes), NEW w \in Writes
  PROVE  LET r == Append(q, w) IN
         /\ HasSet(r) <=> HasSet(q) \/ w[1] = "set"
         /\ OneSetIn(q) /\ (w[1] = "set" => ~HasSet(q)) => OneSetIn(r)
         /\ SetsBlank(q) /\ (w[1] = "set" => w[2] = Empty) => SetsBlank(r)
         /\ \A n : Claims(r, n) <=> Claims(q, n) \/ (w[1] # "set" /\ w[2] = n)
<1>. DEFINE r == Append(q, w)
            n == Len(q) + 1
<1>1. /\ DOMAIN r = DOMAIN q \union {n} /\ r[n] = w
      /\ \A i \in DOMAIN q : i # n /\ r[i] = q[i]
  OBVIOUS
<1>. HIDE DEF r, n
<1>2. HasSet(r) <=> HasSet(q) \/ w[1] = "set"
  BY <1>1 DEF HasSet
<1>3. OneSetIn(q) /\ (w[1] = "set" => ~HasSet(q)) => OneSetIn(r)
  BY <1>1 DEF OneSetIn, HasSet
<1>4. SetsBlank(q) /\ (w[1] = "set" => w[2] = Empty) => SetsBlank(r)
  BY <1>1 DEF SetsBlank
<1>5. \A m : Claims(r, m) <=> Claims(q, m) \/ (w[1] # "set" /\ w[2] = m)
  BY <1>1 DEF Claims
<1>. QED BY <1>2, <1>3, <1>4, <1>5 DEF r

(* A step that names nobody, adds no claim and opens no list leaves names  *)
(* checked.                                                                *)
LEMMA NobodyNamed ==
  ASSUME ClaimsAreChecked, SharedNameNeedsRace, raced' = raced, blind \subseteq blind',
         \A u \in Users : username'[u] \in Names => username'[u] = username[u],
         \A c \in Clients : \A n : Claims(queue'[c], n) => Claims(queue[c], n),
         \A d \in Devices : page'[d] = "username" /\ fetched'[d] =>
           page[d] = "username" /\ fetched[d] /\ user'[d] = user[d] /\ names'[d] = names[d]
  PROVE  ClaimsAreChecked' /\ SharedNameNeedsRace'
<1>1. SharedNameNeedsRace'
  BY DEF SharedNameNeedsRace
<1>2. ASSUME NEW u \in Users, NEW v \in Users, u # v, username'[u] \in Names, <<v, u>> \notin raced',
             NEW d \in UsedBy(v)
      PROVE  /\ user'[d] = v /\ page'[d] = "username" /\ fetched'[d] => username'[u] \in names'[d]
             /\ Claims(queue'[<<d, v>>], username'[u]) => v \in blind'
  <2>1. <<d, v>> \in Clients /\ d \in Devices /\ username'[u] = username[u]
    BY <1>2 DEF UsedBy
  <2>. QED BY <1>2, <2>1 DEF ClaimsAreChecked
<1>. QED BY <1>1, <1>2 DEF ClaimsAreChecked, UsedBy

(* A step that adds no set() and makes no document leaves one of each.     *)
LEMMA NothingSet ==
  ASSUME OneSet, doubled' = doubled,
         \A c \in Clients : HasSet(queue'[c]) => HasSet(queue[c]),
         \A c \in Clients : OneSetIn(queue[c]) => OneSetIn(queue'[c]),
         \A u \in Users : username[u] = NoDocument => username'[u] = NoDocument
  PROVE  OneSet'
<1>1. \A u \in Users : \A d \in UsedBy(u) : <<d, u>> \in Clients
  BY DEF UsedBy
<1>. QED BY <1>1 DEF OneSet, UsedBy

LEMMA NothingNew ==
  ASSUME NewAreBlank, accounts \subseteq accounts',
         \A c \in Clients : HasSet(queue'[c]) => HasSet(queue[c]),
         \A u \in Users : username[u] = NoDocument => username'[u] = NoDocument,
         \A u \in Users : \A d \in UsedBy(u) : signing'[<<d, u>>] = "get" => user'[d] = u,
         \A d \in Devices : user'[d] # Nobody => user'[d] \in accounts'
  PROVE  NewAreBlank'
<1>1. \A u \in Users : \A d \in UsedBy(u) : <<d, u>> \in Clients
  BY DEF UsedBy
<1>. QED BY <1>1 DEF NewAreBlank, UsedBy

LEMMA NamesInitially == Init => NInv
<1>. SUFFICES ASSUME Init PROVE NInv
  OBVIOUS
<1>1. \A c \in Clients : queue[c] = <<>>
  BY DEF Init
<1>2. ~HasSet(<<>>) /\ OneSetIn(<<>>) /\ SetsBlank(<<>>)
  BY DEF HasSet, OneSetIn, SetsBlank
<1>3. \A u \in Users : username[u] = NoDocument /\ username[u] \notin Names
  BY DistinctAssumption DEF Init
<1>4. ListGoesWithPage /\ ClaimsAreChecked /\ SharedNameNeedsRace
  BY <1>3 DEF Init, ListGoesWithPage, ClaimsAreChecked, SharedNameNeedsRace
<1>5. OneSet
  BY <1>1, <1>2, <1>3 DEF OneSet, UsedBy
<1>6. NewAreBlank
  <2>1. \A c \in Clients : signing[c] # "get"
    BY DEF Init
  <2>2. \A d \in Devices : user[d] = Nobody
    BY DEF Init
  <2>. QED BY <1>1, <1>2, <1>3, <2>1, <2>2 DEF NewAreBlank, UsedBy
<1>. QED BY <1>1, <1>2, <1>4, <1>5, <1>6 DEF NInv

(* The document of a user who may have none is asked for.                  *)
LEMMA SetAdded ==
  ASSUME TypeOK, NInv, NEW d \in Devices, NEW u \in Users, <<d, u>> \in Clients,
         Add(<<d, u>>, <<"set", Empty>>), username' = username,
         accounts' = accounts \union {u}, doubled \subseteq doubled',
         username[u] = NoDocument /\ ~HasSet(queue[<<d, u>>]),
         \A e \in UsedBy(u) : HasSet(queue[<<e, u>>]) => u \in doubled',
         \A v \in Users : \A e \in UsedBy(v) : signing'[<<e, v>>] = "get" => user'[e] = v,
         \A e \in Devices : user'[e] # Nobody => user'[e] \in accounts'
  PROVE  /\ \A c \in Clients : SetsBlank(queue'[c])
         /\ \A c \in Clients : \A n : Claims(queue'[c], n) => Claims(queue[c], n)
         /\ OneSet' /\ NewAreBlank'
<1>. DEFINE q == queue[<<d, u>>]
            w == <<"set", Empty>>
<1>1. q \in Seq(Writes) /\ w \in Writes
  BY DEF TypeOK, Writes
<1>2. \A c \in Clients : queue'[c] = IF c = <<d, u>> THEN Append(q, w) ELSE queue[c]
  BY DEF Add, TypeOK
<1>. HIDE DEF w, q
<1>3. /\ w[1] = "set" /\ w[2] = Empty /\ ~HasSet(q) /\ SetsBlank(q)
  BY DEF w, q, NInv
<1>4. /\ HasSet(Append(q, w))
      /\ OneSetIn(q) => OneSetIn(Append(q, w))
      /\ SetsBlank(Append(q, w))
      /\ \A n : Claims(Append(q, w), n) => Claims(q, n)
  BY <1>1, <1>3, GrownQueues
<1>5. \A c \in Clients : SetsBlank(queue'[c]) /\ \A n : Claims(queue'[c], n) => Claims(queue[c], n)
  BY <1>2, <1>4 DEF NInv, q
<1>6. OneSet'
  <2>. SUFFICES ASSUME NEW v \in Users, v \notin doubled'
               PROVE  /\ \A e \in UsedBy(v) : OneSetIn(queue'[<<e, v>>])
                      /\ \A e, f \in UsedBy(v) :
                           HasSet(queue'[<<e, v>>]) /\ HasSet(queue'[<<f, v>>]) => e = f
                      /\ username'[v] # NoDocument => \A e \in UsedBy(v) : ~HasSet(queue'[<<e, v>>])
    BY DEF OneSet, UsedBy
  <2>1. \A e \in UsedBy(v) : <<e, v>> \in Clients
    BY DEF UsedBy
  <2>2. CASE v # u
    <3>1. \A e \in UsedBy(v) : queue'[<<e, v>>] = queue[<<e, v>>]
      BY <1>2, <2>1, <2>2
    <3>. QED BY <3>1 DEF NInv, OneSet
  <2>3. CASE v = u
    <3>1. \A e \in UsedBy(u) : queue'[<<e, u>>] = IF e = d THEN Append(q, w) ELSE queue[<<e, u>>]
      BY <1>2, <2>1, <2>3
    <3>2. \A e \in UsedBy(u) : ~HasSet(queue[<<e, u>>]) /\ OneSetIn(queue[<<e, u>>])
      BY <2>3 DEF NInv, OneSet
    <3>3. d \in UsedBy(u)
      BY DEF UsedBy
    <3>. QED BY <1>4, <2>3, <3>1, <3>2, <3>3 DEF q
  <2>. QED BY <2>2, <2>3
<1>7. NewAreBlank'
  <2>1. ASSUME NEW v \in Users, v \notin accounts'
        PROVE  username'[v] = NoDocument /\ \A e \in UsedBy(v) : ~HasSet(queue'[<<e, v>>])
    <3>1. v # u /\ v \notin accounts /\ \A e \in UsedBy(v) : <<e, v>> \in Clients
      BY <2>1 DEF UsedBy
    <3>2. \A e \in UsedBy(v) : queue'[<<e, v>>] = queue[<<e, v>>]
      BY <1>2, <3>1
    <3>. QED BY <3>1, <3>2 DEF NInv, NewAreBlank
  <2>. QED BY <2>1 DEF NewAreBlank, UsedBy
<1>. QED BY <1>5, <1>6, <1>7

LEMMA KeepsNames ==
  ASSUME IInv, NInv, TypeOK', PageMatchesUser', [Next]_vars
  PROVE  NInv'
<1>. USE DEF cloud, naming, history, IInv
<1>a. \A c \in Clients : queue[c] \in Seq(Writes)
  BY DEF TypeOK
<1>b. \A d \in Devices : \A u \in Uses(d) : <<d, u>> \in Clients /\ u \in Users /\ u # Nobody
  BY DistinctAssumption DEF Uses
<1>c. ASSUME raced' = raced, blind' = blind, doubled' = doubled, accounts \subseteq accounts',
             username' = username,
             \A c \in Clients : Shrinks(queue[c], queue'[c]),
             \A d \in Devices : page'[d] = "username" /\ fetched'[d] =>
               page[d] = "username" /\ fetched[d] /\ user'[d] = user[d] /\ names'[d] = names[d],
             \A u \in Users : \A d \in UsedBy(u) : signing'[<<d, u>>] = "get" => user'[d] = u,
             \A d \in Devices : user'[d] # Nobody => user'[d] \in accounts',
             ListGoesWithPage'
      PROVE  NInv'
  <2>1. ClaimsAreChecked' /\ SharedNameNeedsRace'
    BY <1>c, NobodyNamed DEF NInv, Shrinks
  <2>2. OneSet'
    BY <1>c, NothingSet DEF NInv, Shrinks
  <2>3. NewAreBlank'
    BY <1>c, NothingNew DEF NInv, Shrinks
  <2>4. \A c \in Clients : SetsBlank(queue'[c])
    BY <1>c DEF NInv, Shrinks
  <2>. QED BY <1>c, <2>1, <2>2, <2>3, <2>4 DEF NInv
<1>d. \A c \in Clients : Shrinks(queue[c], queue[c])
  BY <1>a, ShrunkQueues
<1>e. /\ \A u \in Users : \A d \in UsedBy(u) : signing[<<d, u>>] = "get" => user[d] = u
      /\ \A d \in Devices : user[d] # Nobody => user[d] \in accounts
      /\ \A d \in Devices : page[d] # "username" => ~fetched[d]
      /\ \A d \in Devices : page[d] = "start" => user[d] = Nobody
      /\ \A d \in Devices : page[d] # "start" => user[d] \in Uses(d)
  BY DEF NInv, NewAreBlank, ListGoesWithPage, PageMatchesUser
<1>0. CASE UNCHANGED vars
  BY <1>0, <1>c, <1>d, <1>e DEF vars, ListGoesWithPage, UsedBy
<1>1. ASSUME NEW d \in Devices, NEW u \in Uses(d),
             SignUp(d, u) \/ LogIn(d, u) \/ GoogleSignIn(d, u)
      PROVE  NInv'
  <2>1. /\ page[d] = "start" /\ ~fetched[d] /\ user[d] = Nobody
        /\ UNCHANGED <<names, fetched, queue, history, username>>
        /\ \A e \in Devices \ {d} : page'[e] = page[e] /\ user'[e] = user[e]
        /\ page'[d] # "username" /\ accounts \subseteq accounts'
        /\ user'[d] = Nobody \/ (user'[d] = u /\ u \in accounts')
    BY <1>1, <1>e DEF SignUp, LogIn, GoogleSignIn, TypeOK
  <2>2. ASSUME NEW v \in Users, NEW e \in UsedBy(v), signing'[<<e, v>>] = "get" PROVE user'[e] = v
    <3>0. e \in Devices /\ <<e, v>> \in Clients
      BY ClientsAssumption DEF UsedBy
    <3>1. CASE signing[<<e, v>>] = "get"
      <4>1. user[e] = v /\ v # Nobody
        BY <1>e, <3>1, DistinctAssumption
      <4>. QED BY <2>1, <3>0, <4>1
    <3>2. CASE signing[<<e, v>>] # "get"
      <4>1. GoogleSignIn(d, u) /\ <<e, v>> = <<d, u>>
        BY <1>1, <2>2, <3>0, <3>2 DEF SignUp, LogIn, GoogleSignIn, TypeOK
      <4>. QED BY <4>1 DEF GoogleSignIn, TypeOK
    <3>. QED BY <3>1, <3>2
  <2>3. \A e \in Devices : user'[e] # Nobody => user'[e] \in accounts'
    BY <1>e, <2>1
  <2>4. ListGoesWithPage'
    BY <1>e, <2>1 DEF ListGoesWithPage
  <2>. QED BY <1>c, <1>d, <2>1, <2>2, <2>3, <2>4
<1>2. ASSUME NEW d \in Devices, NEW u \in Uses(d), Created(d, u) PROVE NInv'
  <2>1. /\ page[d] = "start" /\ ~fetched[d] /\ user[d] = Nobody
        /\ UNCHANGED <<names, fetched, history, username>>
        /\ \A e \in Devices \ {d} : page'[e] = page[e] /\ user'[e] = user[e]
        /\ page'[d] # "username"
        /\ \A c \in Clients : signing'[c] = "get" => signing[c] = "get"
    BY <1>2, <1>e DEF Created, TypeOK
  <2>2. \A v \in Users : \A e \in UsedBy(v) :
          signing'[<<e, v>>] = "get" => user'[e] = v
    <3>. SUFFICES ASSUME NEW v \in Users, NEW e \in UsedBy(v), signing'[<<e, v>>] = "get"
                 PROVE  user'[e] = v
      OBVIOUS
    <3>1. e \in Devices /\ <<e, v>> \in Clients
      BY ClientsAssumption DEF UsedBy
    <3>2. user[e] = v /\ v # Nobody
      BY <1>e, <2>1, <3>1, DistinctAssumption
    <3>. QED BY <2>1, <3>1, <3>2
  <2>3. ListGoesWithPage'
    BY <1>e, <2>1 DEF ListGoesWithPage
  <2>4. /\ accounts' = accounts \union {u} /\ user'[d] = u
        /\ Add(<<d, u>>, <<"set", Empty>>)
    BY <1>2 DEF Created, TypeOK
  <2>5. username[u] = NoDocument /\ \A e \in UsedBy(u) : ~HasSet(queue[<<e, u>>])
    BY <1>2, <1>b DEF Created, NInv, NewAreBlank
  <2>6. d \in UsedBy(u)
    BY <1>b DEF UsedBy
  <2>7. \A e \in Devices : user'[e] # Nobody => user'[e] \in accounts'
    BY <1>e, <2>1, <2>4
  <2>8. /\ \A c \in Clients : SetsBlank(queue'[c])
        /\ \A c \in Clients : \A n : Claims(queue'[c], n) => Claims(queue[c], n)
        /\ OneSet' /\ NewAreBlank'
    BY <1>b, <2>1, <2>2, <2>4, <2>5, <2>6, <2>7, SetAdded
  <2>9. ClaimsAreChecked' /\ SharedNameNeedsRace'
    BY <2>1, <2>8, NobodyNamed DEF NInv
  <2>. QED BY <2>3, <2>8, <2>9 DEF NInv
<1>3. ASSUME NEW d \in Devices, NEW u \in Uses(d), GoogleGet(d, u) PROVE NInv'
  <2>1. /\ UNCHANGED <<accounts, username, user, page, names, fetched, raced, blind>>
        /\ doubled \subseteq doubled'
        /\ \A c \in Clients : signing'[c] = "get" => signing[c] = "get"
        /\ user[d] = u /\ u \in accounts
    <3>1. signing[<<d, u>>] = "get" /\ d \in UsedBy(u)
      BY <1>3, <1>b DEF GoogleGet, UsedBy
    <3>2. user[d] = u /\ u \in accounts
      BY <1>b, <1>e, <3>1
    <3>. QED BY <1>3, <3>2 DEF GoogleGet, TypeOK
  <2>2. \A v \in Users : \A e \in UsedBy(v) :
          signing'[<<e, v>>] = "get" => user'[e] = v
    BY <1>e, <2>1 DEF UsedBy
  <2>3. ListGoesWithPage'
    BY <1>e, <2>1 DEF ListGoesWithPage
  <2>4. CASE Sees(d, u) # NoDocument
    <3>1. UNCHANGED <<queue, doubled>>
      BY <1>3, <2>4 DEF GoogleGet
    <3>. QED BY <1>c, <1>d, <1>e, <2>1, <2>2, <2>3, <3>1
  <2>5. CASE Sees(d, u) = NoDocument
    <3>1. Add(<<d, u>>, <<"set", Empty>>)
      BY <1>3, <2>5 DEF GoogleGet
    <3>2. username[u] = NoDocument /\ ~HasSet(queue[<<d, u>>])
      <4>1. CASE queue[<<d, u>>] = <<>>
        BY <2>1, <2>5, <4>1 DEF Sees, HasSet
      <4>2. CASE queue[<<d, u>>] # <<>> /\ username[u] = NoDocument /\ ~SetPending(<<d, u>>)
        BY <4>2 DEF SetPending, HasSet
      <4>3. CASE queue[<<d, u>>] # <<>> /\ ~(username[u] = NoDocument /\ ~SetPending(<<d, u>>))
        <5>1. Sees(d, u) = queue[<<d, u>>][Len(queue[<<d, u>>])][2]
          BY <2>1, <4>3, Zenon DEF Sees
        <5>2. queue[<<d, u>>][Len(queue[<<d, u>>])] \in Writes
          BY <1>a, <1>b, <4>3
        <5>. QED BY <2>5, <5>1, <5>2, DistinctAssumption DEF Writes
      <4>. QED BY <4>1, <4>2, <4>3
    <3>3. \A e \in UsedBy(u) : HasSet(queue[<<e, u>>]) => u \in doubled'
      <4>. SUFFICES ASSUME NEW e \in UsedBy(u), HasSet(queue[<<e, u>>]) PROVE u \in doubled'
        OBVIOUS
      <4>1. e \in UsedBy(u) \ {d} /\ SetPending(<<e, u>>)
        BY <3>2 DEF HasSet, SetPending
      <4>. QED BY <1>3, <2>5, <4>1 DEF GoogleGet
    <3>4. \A e \in Devices : user'[e] # Nobody => user'[e] \in accounts'
      BY <1>e, <2>1
    <3>5. accounts' = accounts \union {u}
      BY <2>1
    <3>6. /\ \A c \in Clients : SetsBlank(queue'[c])
          /\ \A c \in Clients : \A n : Claims(queue'[c], n) => Claims(queue[c], n)
          /\ OneSet' /\ NewAreBlank'
      BY <1>b, <2>1, <2>2, <3>1, <3>2, <3>3, <3>4, <3>5, SetAdded
    <3>7. ClaimsAreChecked' /\ SharedNameNeedsRace'
      BY <2>1, <3>6, NobodyNamed DEF NInv
    <3>. QED BY <2>3, <3>6, <3>7 DEF NInv
  <2>. QED BY <2>4, <2>5
<1>12. ASSUME NEW d \in Devices, NEW u \in Uses(d),
              CreateFails(d, u) \/ GoogleSignInFails(d, u) \/ GoogleGetFails(d, u)
       PROVE  NInv'
  <2>1. /\ UNCHANGED <<username, user, page, names, fetched, queue, doubled, blind, raced>>
        /\ accounts \subseteq accounts'
        /\ \A c \in Clients : signing'[c] = "get" => signing[c] = "get"
    BY <1>12 DEF CreateFails, GoogleSignInFails, GoogleGetFails, TypeOK
  <2>2. ListGoesWithPage'
    BY <1>e, <2>1 DEF ListGoesWithPage
  <2>. QED BY <1>c, <1>d, <1>e, <2>1, <2>2 DEF UsedBy
<1>4. ASSUME NEW d \in Devices, NEW u \in Uses(d), ApplySet(d, u) PROVE NInv'
  <2> DEFINE q == queue[<<d, u>>]
  <2>1. /\ q \in Seq(Writes) /\ q # <<>> /\ Head(q)[1] = "set" /\ u \in Users
        /\ user[d] = u /\ d \in UsedBy(u)
        /\ UNCHANGED <<accounts, verified, user, page, naming, signing, history>>
    BY <1>4, <1>a, <1>b DEF ApplySet, Sends, UsedBy
  <2>2. SetsBlank(q)
    BY <1>b DEF NInv
  <2>3. Head(q)[2] = Empty
    BY <2>1, <2>2, OldestWrite
  <2>4. /\ \A v \in Users : username'[v] = IF v = u THEN Empty ELSE username[v]
        /\ \A c \in Clients : queue'[c] = IF c = <<d, u>> THEN Tail(q) ELSE queue[c]
    BY <1>4, <2>3 DEF ApplySet, TypeOK
  <2>5. \A c \in Clients : Shrinks(queue[c], queue'[c])
    BY <1>d, <2>1, <2>4, ShrunkQueues
  <2>6. ClaimsAreChecked' /\ SharedNameNeedsRace'
    BY <2>1, <2>4, <2>5, DistinctAssumption, NobodyNamed DEF NInv, Shrinks
  <2>7. OneSet'
    <3>. SUFFICES ASSUME NEW v \in Users, v \notin doubled
                 PROVE  /\ \A e \in UsedBy(v) : OneSetIn(queue'[<<e, v>>])
                        /\ \A e, f \in UsedBy(v) :
                             HasSet(queue'[<<e, v>>]) /\ HasSet(queue'[<<f, v>>]) => e = f
                        /\ username'[v] # NoDocument => \A e \in UsedBy(v) : ~HasSet(queue'[<<e, v>>])
      BY <2>1 DEF OneSet, UsedBy
    <3>1. \A e \in UsedBy(v) : <<e, v>> \in Clients
      BY DEF UsedBy
    <3>2. /\ \A e \in UsedBy(v) : OneSetIn(queue'[<<e, v>>])
          /\ \A e, f \in UsedBy(v) :
               HasSet(queue'[<<e, v>>]) /\ HasSet(queue'[<<f, v>>]) => e = f
      BY <2>5, <3>1 DEF NInv, OneSet, Shrinks
    <3>3. CASE v # u
      BY <2>4, <2>5, <3>1, <3>2, <3>3 DEF NInv, OneSet, Shrinks
    <3>4. CASE v = u
      <4>1. HasSet(q) /\ ~HasSet(Tail(q))
        BY <2>1, <3>4, OldestWrite DEF NInv, OneSet
      <4>2. \A e \in UsedBy(u) : ~HasSet(queue'[<<e, u>>])
        <5>. SUFFICES ASSUME NEW e \in UsedBy(u), HasSet(queue'[<<e, u>>]) PROVE FALSE
          OBVIOUS
        <5>1. HasSet(queue[<<e, u>>])
          BY <2>5, <3>1, <3>4 DEF Shrinks
        <5>2. e = d
          BY <2>1, <3>4, <4>1, <5>1 DEF NInv, OneSet
        <5>. QED BY <1>b, <2>4, <4>1, <5>2
      <4>. QED BY <3>2, <3>4, <4>2
    <3>. QED BY <3>3, <3>4
  <2>8. NewAreBlank'
    <3>1. u \in accounts
      BY <1>b, <1>e, <2>1
    <3>2. ASSUME NEW v \in Users, v \notin accounts'
          PROVE  username'[v] = NoDocument /\ \A e \in UsedBy(v) : ~HasSet(queue'[<<e, v>>])
      <4>1. v # u /\ v \notin accounts /\ \A e \in UsedBy(v) : <<e, v>> \in Clients
        BY <2>1, <3>1, <3>2 DEF UsedBy
      <4>. QED BY <2>4, <2>5, <4>1 DEF NInv, NewAreBlank, Shrinks
    <3>. QED BY <1>e, <2>1, <3>2 DEF NewAreBlank, UsedBy
  <2>9. \A c \in Clients : SetsBlank(queue'[c])
    BY <2>5 DEF NInv, Shrinks
  <2>10. ListGoesWithPage'
    BY <1>e, <2>1 DEF ListGoesWithPage
  <2>. QED BY <2>6, <2>7, <2>8, <2>9, <2>10 DEF NInv
<1>5. ASSUME NEW d \in Devices, NEW u \in Uses(d), ApplyUpdate(d, u) PROVE NInv'
  <2> DEFINE q == queue[<<d, u>>]
             n == Head(q)[2]
  <2>1. /\ q \in Seq(Writes) /\ q # <<>> /\ Head(q)[1] # "set" /\ u \in Users
        /\ user[d] = u /\ d \in UsedBy(u) /\ <<d, u>> \in Clients
        /\ UNCHANGED <<accounts, verified, user, signing, cut, doubled, blind>>
    BY <1>5, <1>a, <1>b DEF ApplyUpdate, Sends, UsedBy
  <2>2. \A c \in Clients : Shrinks(queue[c], queue'[c])
    <3>1. queue'[<<d, u>>] \in {Tail(q), Orphaned(Tail(q))}
      BY <1>5, <2>1 DEF ApplyUpdate, TypeOK
    <3>2. \A c \in Clients \ {<<d, u>>} : queue'[c] = queue[c]
      BY <1>5 DEF ApplyUpdate, TypeOK
    <3>. QED BY <1>d, <2>1, <3>1, <3>2, ShrunkQueues
  <2>3. /\ \A e \in Devices : page'[e] = "username" /\ fetched'[e] =>
             page[e] = "username" /\ fetched[e] /\ names'[e] = names[e]
        /\ ListGoesWithPage'
    BY <1>5, <1>e DEF ApplyUpdate, CloseNames, TypeOK, ListGoesWithPage
  <2>4. /\ \A v \in Users \ {u} : username'[v] = username[v]
        /\ username[u] = NoDocument => username'[u] = NoDocument /\ raced' = raced
        /\ username[u] # NoDocument =>
             /\ username'[u] = n
             /\ raced' = raced \union
                  {<<v, u>> : v \in {v \in Users \ {u} : \E e \in UsedBy(v) : Relies(e, v)}}
        /\ username'[u] # NoDocument => username[u] # NoDocument
    BY <1>5, <2>1 DEF ApplyUpdate, TypeOK
  <2>5. CASE username[u] = NoDocument
    <3>1. username' = username
      BY <1>5, <2>5 DEF ApplyUpdate
    <3>2. NewAreBlank'
      BY <1>e, <2>1, <2>2, <3>1, NothingNew DEF NInv, Shrinks, UsedBy
    <3>. QED BY <1>c, <1>e, <2>1, <2>2, <2>3, <2>4, <2>5, <3>1 DEF UsedBy
  <2>6. CASE username[u] # NoDocument
    <3>1. ASSUME NEW v \in Users, v # u, NEW e \in UsedBy(v), Relies(e, v)
          PROVE  <<v, u>> \in raced'
      BY <2>4, <2>6, <3>1
    <3>2. raced \subseteq raced'
      BY <2>4, <2>6
    <3>3. \A c \in Clients : \A m : Claims(queue[c], m) => \E i \in DOMAIN queue[c] : queue[c][i][1] # "set"
      BY DEF Claims
    <3>4. ClaimsAreChecked'
      <4>. SUFFICES ASSUME NEW x \in Users, NEW v \in Users, x # v, username'[x] \in Names,
                           <<v, x>> \notin raced', NEW e \in UsedBy(v)
                   PROVE  /\ user[e] = v /\ page'[e] = "username" /\ fetched'[e] => username'[x] \in names'[e]
                          /\ Claims(queue'[<<e, v>>], username'[x]) => v \in blind
        BY <2>1 DEF ClaimsAreChecked, UsedBy
      <4>0. e \in Devices /\ <<e, v>> \in Clients
        BY ClientsAssumption DEF UsedBy
      <4>1. CASE x # u
        BY <2>2, <2>3, <2>4, <3>2, <4>0, <4>1 DEF NInv, ClaimsAreChecked, Shrinks
      <4>2. CASE x = u
        <5>1. ~Relies(e, v)
          BY <3>1, <4>2
        <5>2. ~(user[e] = v /\ page'[e] = "username" /\ fetched'[e])
          BY <2>3, <4>0, <5>1 DEF Relies
        <5>3. ~Claims(queue[<<e, v>>], username'[x])
          BY <3>3, <4>0, <5>1 DEF Relies
        <5>. QED BY <2>2, <4>0, <5>2, <5>3 DEF Shrinks
      <4>. QED BY <4>1, <4>2
    <3>5. ASSUME NEW v \in Users, v # u, username[v] = n, n \in Names
          PROVE  u \in blind \/ <<u, v>> \in raced
      <4>1. Claims(q, n)
        BY <2>1, OldestWrite
      <4>. QED BY <2>1, <3>5, <4>1 DEF NInv, ClaimsAreChecked
    <3>6. SharedNameNeedsRace'
      <4>. SUFFICES ASSUME NEW x \in Users, NEW v \in Users, x # v, username'[x] = username'[v],
                           username'[x] \in Names
                   PROVE  {x, v} \cap blind # {} \/ <<x, v>> \in raced' \/ <<v, x>> \in raced'
        BY <2>1 DEF SharedNameNeedsRace
      <4>1. CASE x = u
        BY <2>4, <2>6, <3>2, <3>5, <4>1
      <4>2. CASE v = u
        BY <2>4, <2>6, <3>2, <3>5, <4>2
      <4>3. CASE x # u /\ v # u
        BY <2>4, <3>2, <4>3 DEF NInv, SharedNameNeedsRace
      <4>. QED BY <4>1, <4>2, <4>3
    <3>7. \A v \in Users : username[v] = NoDocument => username'[v] = NoDocument
      BY <2>4, <2>6
    <3>8. OneSet' /\ NewAreBlank'
      BY <1>e, <2>1, <2>2, <3>7, NothingSet, NothingNew DEF NInv, Shrinks, UsedBy
    <3>9. \A c \in Clients : SetsBlank(queue'[c])
      BY <2>2 DEF NInv, Shrinks
    <3>. QED BY <2>3, <3>4, <3>6, <3>8, <3>9 DEF NInv
  <2>. QED BY <2>5, <2>6
<1>6. ASSUME NEW d \in Devices, LogOut(d) PROVE NInv'
  <2>1. /\ page[d] # "username" /\ ~fetched[d] /\ page'[d] = "start" /\ user'[d] = Nobody
        /\ UNCHANGED <<accounts, username, names, fetched, queue, doubled, blind, raced>>
        /\ \A e \in Devices \ {d} : page'[e] = page[e] /\ user'[e] = user[e]
        /\ \A c \in Clients : signing'[c] = "get" => signing[c] = "get"
        /\ <<d, user[d]>> \in Clients => signing'[<<d, user[d]>>] # "get"
    BY <1>6, <1>e DEF LogOut, TypeOK
  <2>2. ASSUME NEW v \in Users, NEW e \in UsedBy(v), signing'[<<e, v>>] = "get" PROVE user'[e] = v
    <3>1. e \in Devices /\ <<e, v>> \in Clients
      BY ClientsAssumption DEF UsedBy
    <3>2. user[e] = v
      BY <1>e, <2>1, <2>2, <3>1
    <3>. QED BY <2>1, <2>2, <3>1, <3>2
  <2>3. \A e \in Devices : user'[e] # Nobody => user'[e] \in accounts'
    BY <1>e, <2>1
  <2>4. ListGoesWithPage'
    BY <1>e, <2>1 DEF ListGoesWithPage
  <2>. QED BY <1>c, <1>d, <2>1, <2>2, <2>3, <2>4
<1>7. ASSUME NEW d \in Devices, Check(d) \/ Home(d) PROVE NInv'
  <2>1. /\ page[d] # "username" /\ ~fetched[d]
        /\ UNCHANGED <<cloud, user, naming, signing, queue, history>>
        /\ \A e \in Devices \ {d} : page'[e] = page[e]
    BY <1>7, <1>e DEF Check, Home, TypeOK
  <2>2. ListGoesWithPage'
    BY <1>e, <2>1 DEF ListGoesWithPage
  <2>. QED BY <1>c, <1>d, <1>e, <2>1, <2>2 DEF UsedBy
<1>8. ASSUME NEW d \in Devices, FetchNames(d) PROVE NInv'
  <2>1. /\ page[d] = "username"
        /\ UNCHANGED <<cloud, user, page, signing, queue, history>>
        /\ \A e \in Devices \ {d} : names'[e] = names[e] /\ fetched'[e] = fetched[e]
        /\ names'[d] = {Sees(d, u) : u \in Users} \ {NoDocument}
    BY <1>8 DEF FetchNames, TypeOK
  <2>2. ClaimsAreChecked'
    <3>. SUFFICES ASSUME NEW u \in Users, NEW v \in Users, u # v, username[u] \in Names,
                         <<v, u>> \notin raced, NEW e \in UsedBy(v)
                 PROVE  /\ user[e] = v /\ page[e] = "username" /\ fetched'[e] => username[u] \in names'[e]
                        /\ Claims(queue[<<e, v>>], username[u]) => v \in blind
      BY <2>1 DEF ClaimsAreChecked, UsedBy
    <3>1. e \in Devices
      BY ClientsAssumption DEF UsedBy
    <3>2. CASE e # d
      BY <2>1, <3>1, <3>2 DEF NInv, ClaimsAreChecked
    <3>3. CASE e = d /\ user[d] = v
      <4>1. Sees(d, u) = username[u] /\ username[u] # NoDocument
        BY <3>3, DistinctAssumption DEF Sees
      <4>2. username[u] \in names'[d]
        BY <2>1, <4>1
      <4>. QED BY <3>3, <4>2 DEF NInv, ClaimsAreChecked
    <3>4. CASE e = d /\ user[d] # v
      BY <3>4 DEF NInv, ClaimsAreChecked
    <3>. QED BY <3>2, <3>3, <3>4
  <2>3. ListGoesWithPage' /\ SharedNameNeedsRace'
    BY <1>e, <2>1 DEF ListGoesWithPage, NInv, SharedNameNeedsRace
  <2>4. OneSet' /\ NewAreBlank' /\ \A c \in Clients : SetsBlank(queue'[c])
    BY <1>e, <2>1, NothingSet, NothingNew DEF NInv, UsedBy
  <2>. QED BY <2>2, <2>3, <2>4 DEF NInv
<1>9. ASSUME NEW d \in Devices, Restart(d) PROVE NInv'
  <2>1. /\ UNCHANGED <<verified, username, user, doubled, blind, raced>>
        /\ accounts \subseteq accounts'
        /\ \A c \in Clients : queue'[c] \in {queue[c], Orphaned(queue[c]), <<>>}
        /\ \A c \in Clients : signing'[c] = "get" => signing[c] = "get"
        /\ ~fetched'[d]
        /\ \A e \in Devices \ {d} : page'[e] = page[e] /\ names'[e] = names[e] /\ fetched'[e] = fetched[e]
    BY <1>9 DEF Restart, CloseNames, TypeOK
  <2>2. \A c \in Clients : Shrinks(queue[c], queue'[c])
    BY <1>a, <2>1, ShrunkQueues
  <2>3. ListGoesWithPage'
    BY <1>e, <2>1 DEF ListGoesWithPage
  <2>. QED BY <1>c, <1>e, <2>1, <2>2, <2>3 DEF UsedBy
<1>10. ASSUME NEW d \in Devices, NEW n \in Names \union {Empty}, Submit(d, n) PROVE NInv'
  <2> DEFINE u == user[d]
             q == queue[<<d, u>>]
             w == <<"update", n>>
  <2>1. /\ <<d, u>> \in Clients /\ u \in Users /\ w \in Writes /\ q \in Seq(Writes)
        /\ d \in UsedBy(u)
    BY <1>10, <1>a, <1>b, <1>e DEF Submit, Writes, UsedBy
  <2>2. /\ page[d] = "username" /\ n \notin names[d]
        /\ UNCHANGED <<cloud, user, page, naming, signing, cut, doubled, raced>>
        /\ blind \subseteq blind' /\ (~fetched[d] => u \in blind')
        /\ \A c \in Clients : queue'[c] = IF c = <<d, u>> THEN Append(q, w) ELSE queue[c]
    BY <1>10, <2>1 DEF Submit, Add, TypeOK
  <2>. HIDE DEF q, u
  <2>3. /\ HasSet(Append(q, w)) <=> HasSet(q)
        /\ OneSetIn(q) => OneSetIn(Append(q, w))
        /\ SetsBlank(q) => SetsBlank(Append(q, w))
        /\ \A m : Claims(Append(q, w), m) <=> Claims(q, m) \/ m = n
    BY <2>1, GrownQueues
  <2>4. OneSet' /\ NewAreBlank' /\ \A c \in Clients : SetsBlank(queue'[c])
    <3>1. \A c \in Clients : /\ HasSet(queue'[c]) <=> HasSet(queue[c])
                             /\ OneSetIn(queue[c]) => OneSetIn(queue'[c])
                             /\ SetsBlank(queue[c]) => SetsBlank(queue'[c])
      BY <2>2, <2>3 DEF q
    <3>. QED BY <1>e, <2>2, <3>1, NothingSet, NothingNew DEF NInv, UsedBy
  <2>5. ClaimsAreChecked'
    <3>. SUFFICES ASSUME NEW x \in Users, NEW v \in Users, x # v, username[x] \in Names,
                         <<v, x>> \notin raced, NEW e \in UsedBy(v)
                 PROVE  /\ user[e] = v /\ page[e] = "username" /\ fetched[e] => username[x] \in names[e]
                        /\ Claims(queue'[<<e, v>>], username[x]) => v \in blind'
      BY <2>2 DEF ClaimsAreChecked, UsedBy
    <3>1. <<e, v>> \in Clients
      BY DEF UsedBy
    <3>2. CASE <<e, v>> # <<d, u>> \/ username[x] # n
      BY <2>2, <2>3, <3>1, <3>2 DEF NInv, ClaimsAreChecked, q
    <3>3. CASE <<e, v>> = <<d, u>> /\ username[x] = n
      <4>1. fetched[d] => n \in names[d]
        BY <2>2, <3>3 DEF NInv, ClaimsAreChecked, u
      <4>2. v \in blind'
        BY <2>2, <3>3, <4>1
      <4>. QED BY <4>2 DEF NInv, ClaimsAreChecked
    <3>. QED BY <3>2, <3>3
  <2>6. ListGoesWithPage' /\ SharedNameNeedsRace'
    BY <1>e, <2>2 DEF ListGoesWithPage, NInv, SharedNameNeedsRace
  <2>. QED BY <2>4, <2>5, <2>6 DEF NInv
<1>11. ASSUME NEW u \in Users, Verify(u) PROVE NInv'
  <2>1. UNCHANGED <<accounts, username, user, page, naming, signing, queue, history>>
    BY <1>11 DEF Verify
  <2>. QED BY <1>c, <1>d, <1>e, <2>1 DEF ListGoesWithPage, UsedBy
<1>. QED BY <1>0, <1>1, <1>2, <1>3, <1>4, <1>5, <1>6, <1>7, <1>8, <1>9, <1>10, <1>11, <1>12
         DEF Next

-----------------------------------------------------------------------------
(* The theorems                                                            *)

LEMMA Inductive == IInv /\ [Next]_vars => IInv'
BY KeepsTypes, KeepsUnderWay DEF IInv

LEMMA Invariant == Spec => []IInv
BY Initially, Inductive, PTL DEF Spec

(* Every state of signing up, logging in and naming is well typed, and a   *)
(* device's page always fits who is logged in there (main.dart).           *)
THEOREM TypeCorrect == Spec => [](TypeOK /\ PageMatchesUser)
<1>1. IInv => TypeOK /\ PageMatchesUser
  BY DEF IInv
<1>. QED BY Invariant, <1>1, PTL

(* Nobody is left with an account and no document (signup.dart), whoever   *)
(* signs up where, but for who was cut off: by a kill, a logout, or a      *)
(* request of the sign-up that failed, and no Google sign-in since.        *)
THEOREM AccountsGetDocuments == Spec => []UndocumentedIsUnderWay
<1>1. IInv => UndocumentedIsUnderWay
  BY DEF IInv
<1>. QED BY Invariant, <1>1, PTL

LEMMA NamesInvariant == Spec => [](IInv /\ NInv)
<1>1. Init => IInv /\ NInv
  BY Initially, NamesInitially
<1>2. IInv /\ NInv /\ [Next]_vars => (IInv /\ NInv)'
  BY Inductive, KeepsNames DEF IInv
<1>. QED BY <1>1, <1>2, PTL DEF Spec

(* No two users get the same name (setUsername.dart), unless one of them   *)
(* chose it without the list or while the other was being named.           *)
THEOREM NamesAreUnique == Spec => []SharedNameNeedsRace
<1>1. NInv => SharedNameNeedsRace
  BY DEF NInv
<1>. QED BY NamesInvariant, <1>1, PTL

(* Signing up anew (signup.dart, login.dart) never takes a name away, but  *)
(* for who signed up on two devices at once.                               *)
THEOREM NamesAreKept == Spec => NameKept
<1>1. IInv /\ NInv /\ [Next]_vars =>
        [\A u \in Users : username[u] \in Names /\ username'[u] \notin Names
           => u \in doubled \/ \E d \in UsedBy(u) : ApplyUpdate(d, u)]_vars
  <2>. SUFFICES ASSUME IInv, NInv, Next, NEW u \in Users,
                       username[u] \in Names, username'[u] \notin Names
               PROVE  u \in doubled \/ \E d \in UsedBy(u) : ApplyUpdate(d, u)
    OBVIOUS
  <2>1. PICK d \in Devices : \E v \in Uses(d) : ApplySet(d, v) \/ ApplyUpdate(d, v)
    BY DEF Next, SignUp, Created, CreateFails, LogIn, GoogleSignIn, GoogleSignInFails,
           GoogleGet, GoogleGetFails, LogOut, Check, Home, FetchNames, Restart, Submit,
           Verify, cloud
  <2>2. PICK v \in Uses(d) : ApplySet(d, v) \/ ApplyUpdate(d, v)
    BY <2>1
  <2>3. v = u /\ d \in UsedBy(u) /\ <<d, u>> \in Clients
    BY <2>2 DEF ApplySet, ApplyUpdate, IInv, TypeOK, Uses, UsedBy
  <2>4. CASE ApplySet(d, u)
    <3>1. HasSet(queue[<<d, u>>])
      BY <2>3, <2>4, OldestWrite DEF ApplySet, Sends, IInv, TypeOK
    <3>. QED BY <2>3, <3>1, DistinctAssumption DEF NInv, OneSet
  <2>. QED BY <2>2, <2>3, <2>4
<1>. QED BY NamesInvariant, <1>1, PTL DEF Spec, NameKept
=============================================================================
