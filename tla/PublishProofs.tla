---------------------------- MODULE PublishProofs ----------------------------
(* The invariants of Publish, for any users, devices, posts, names and     *)
(* drafts, and those of Recorder, for any taps.                            *)
EXTENDS Publish, Recorder, TLAPS

Queues == Devices \X Users
Writes == [to : {"document"}, name : Names, value : Documents] \union [to : {"list"}, name : Names]

(* No other post has got the same name.                                    *)
Alone(p) == \A q \in Posts \ {p} : post[q] = None \/ post[q].name # post[p].name

-----------------------------------------------------------------------------
(* The inductive invariant                                                 *)

(* The page is only shown to who is logged in.                             *)
ShownLoggedIn == \A d \in Devices : shown[d] => user[d] # Nobody

(* Until a post is done or disturbed its page holds what was confirmed,    *)
(* and postAudio has taken that.                                           *)
PageFits(p) ==
  /\ post[p].phase \notin Over /\ p \notin disturbed =>
       /\ shown[post[p].on]
       /\ draft[post[p].on] = post[p].confirmed
       /\ user[post[p].on] = post[p].who
  /\ post[p].phase \in {"upload", "stored", "failed"} /\ p \notin disturbed =>
       post[p].taken = post[p].confirmed

(* The name of a post has no file before the upload, and then its own.     *)
FileFits(p) ==
  /\ post[p].phase \in {"list", "upload", "failed"} /\ Alone(p) => file[post[p].name] = None
  /\ post[p].phase = "stored" => file[post[p].name] # None \/ deletion[post[p].name] # "none"
  /\ post[p].phase = "stored" /\ p \notin disturbed /\ Alone(p) =>
       file[post[p].name] = post[p].confirmed \/ deletion[post[p].name] # "none"

PostsFit == \A p \in Posts : post[p] # None => PageFits(p) /\ FileFits(p)

FilesNamed ==
  \A n \in Names : file[n] # None => \E q \in Posts : post[q] # None /\ post[q].name = n

(* A document that is stored, or on its way, under a name.                 *)
Sound(n, v) ==
  /\ post[v.by] # None /\ post[v.by].name = n /\ post[v.by].phase \in {"document", "done", "cut"}
  /\ file[n] # None \/ deletion[n] # "none"
  /\ v.by \notin disturbed /\ Alone(v.by) =>
       /\ v.title = post[v.by].confirmed /\ v.tags = post[v.by].confirmed
       /\ v.owner = post[v.by].who
       /\ file[n] = post[v.by].confirmed \/ deletion[n] # "none"

(* A name whose document is there, or was.                                 *)
Posted(n) == document[n] # None \/ deletion[n] = "done"

SoundWrite(w) ==
  /\ w.to = "document" => Sound(w.name, w.value)
  /\ w.to = "list" => Posted(w.name)

DocumentsSound == \A n \in Names : document[n] # None => Sound(n, document[n])
WritesSound == \A c \in Queues : \A i \in 1..Len(outbox[c]) : SoundWrite(outbox[c][i])

IInv ==
  /\ TypeOK /\ ShownLoggedIn /\ PostsFit /\ FilesNamed
  /\ DocumentsSound /\ WritesSound /\ ListedWasPosted

-----------------------------------------------------------------------------
(* Facts about the types                                                   *)

LEMMA WriteFields ==
  ASSUME NEW w \in Writes
  PROVE  /\ w.to \in {"document", "list"} /\ w.name \in Names
         /\ w.to = "document" => w.value \in Documents /\ w.value # None /\ w.value.by \in Posts
<1>1. CASE w \in [to : {"document"}, name : Names, value : Documents]
  BY <1>1, NoneAssumption DEF Documents
<1>2. CASE w \in [to : {"list"}, name : Names]
  BY <1>2
<1> QED
  BY <1>1, <1>2 DEF Writes

LEMMA PostFields ==
  ASSUME TypeOK, NEW p \in Posts, post[p] # None
  PROVE  /\ post[p] \in UnderWay
         /\ post[p].phase \in Phases /\ post[p].on \in Devices /\ post[p].name \in Names
         /\ post[p].confirmed \in Drafts /\ post[p].who \in Users
         /\ post[p].taken \in Drafts \union {Blank} /\ post[p].here \in BOOLEAN
BY DEF TypeOK, UnderWay

(* What happens to any post that is under way.                             *)
Kept ==
  /\ \A p \in Posts : post[p] # None =>
       /\ post'[p] # None
       /\ post'[p].on = post[p].on /\ post'[p].name = post[p].name
       /\ post'[p].confirmed = post[p].confirmed /\ post'[p].who = post[p].who
       /\ post[p].phase \in {"document", "done", "cut"} => post'[p].phase \in {"document", "done", "cut"}
  /\ disturbed \subseteq disturbed'

(* One that goes from one phase to the next.                               *)
LEMMA Going ==
  ASSUME TypeOK, NEW p \in Posts, post[p] # None, NEW next \in Phases, Goes(p, next)
  PROVE  /\ post' \in [Posts -> UnderWay \union {None}]
         /\ \A q \in Posts : q # p => post'[q] = post[q]
         /\ post'[p] \in UnderWay /\ post'[p].phase = next
         /\ post'[p].on = post[p].on /\ post'[p].name = post[p].name
         /\ post'[p].confirmed = post[p].confirmed /\ post'[p].who = post[p].who
         /\ post'[p].taken = post[p].taken
<1>1. [post[p] EXCEPT !.phase = next] \in UnderWay
  BY PostFields DEF UnderWay
<1>2. post' = [post EXCEPT ![p] = [post[p] EXCEPT !.phase = next]]
  BY DEF Goes
<1> DEFINE r == [post[p] EXCEPT !.phase = next]
<1>3. /\ r.phase = next /\ r.on = post[p].on /\ r.name = post[p].name /\ r.who = post[p].who
      /\ r.confirmed = post[p].confirmed /\ r.taken = post[p].taken
  BY PostFields DEF UnderWay
<1> HIDE DEF r
<1>4. post' = [post EXCEPT ![p] = r] /\ r \in UnderWay
  BY <1>1, <1>2 DEF r
<1> QED
  BY <1>3, <1>4 DEF TypeOK

(* One that ends.                                                          *)
LEMMA Ending ==
  ASSUME NEW r \in UnderWay, NEW how \in Over
  PROVE  /\ Ended(r, how) \in UnderWay /\ Ended(r, how).phase = how
         /\ Ended(r, how).on = r.on /\ Ended(r, how).name = r.name
         /\ Ended(r, how).confirmed = r.confirmed /\ Ended(r, how).who = r.who
BY DEF Ended, UnderWay, Phases

LEMMA EndsPost ==
  ASSUME TypeOK, NEW p \in Posts, post[p] # None, NEW how \in Over, Ends(p, how)
  PROVE  /\ post' \in [Posts -> UnderWay \union {None}]
         /\ \A q \in Posts : q # p => post'[q] = post[q]
         /\ post'[p] \in UnderWay /\ post'[p].phase = how
         /\ post'[p].on = post[p].on /\ post'[p].name = post[p].name
         /\ post'[p].confirmed = post[p].confirmed /\ post'[p].who = post[p].who
<1> DEFINE r == Ended(post[p], how)
<1>1. /\ r \in UnderWay /\ r.phase = how /\ r.on = post[p].on /\ r.name = post[p].name
      /\ r.confirmed = post[p].confirmed /\ r.who = post[p].who
  BY PostFields, Ending
<1>2. post' = [post EXCEPT ![p] = r]
  BY DEF Ends
<1> HIDE DEF r
<1> QED
  BY <1>1, <1>2 DEF TypeOK

(* Those that go on without their page.                                    *)
LEMMA Abandoning ==
  ASSUME TypeOK, NEW d \in Devices
  PROVE  /\ Abandoned(d) \in [Posts -> UnderWay \union {None}]
         /\ \A q \in Posts :
              IF post[q] = None THEN Abandoned(d)[q] = None
              ELSE /\ Abandoned(d)[q] \in UnderWay
                   /\ Abandoned(d)[q].phase = post[q].phase
                   /\ Abandoned(d)[q].on = post[q].on /\ Abandoned(d)[q].name = post[q].name
                   /\ Abandoned(d)[q].confirmed = post[q].confirmed
                   /\ Abandoned(d)[q].who = post[q].who /\ Abandoned(d)[q].taken = post[q].taken
<1> DEFINE r(q) == [post[q] EXCEPT !.here = FALSE]
<1>1. ASSUME NEW q \in Posts, post[q] # None
      PROVE  /\ r(q) \in UnderWay
             /\ r(q).phase = post[q].phase /\ r(q).on = post[q].on /\ r(q).name = post[q].name
             /\ r(q).confirmed = post[q].confirmed /\ r(q).who = post[q].who
             /\ r(q).taken = post[q].taken
  BY <1>1, PostFields DEF UnderWay
<1> HIDE DEF r
<1>2. \A q \in Posts : Abandoned(d)[q] = IF q \in On(d) THEN r(q) ELSE post[q]
  BY DEF Abandoned, r
<1>3. \A q \in Posts : post[q] = None => q \notin On(d)
  BY DEF On
<1>4. \A q \in Posts : Abandoned(d)[q] \in UnderWay \union {None}
  BY <1>1, <1>2, <1>3, PostFields
<1>5. Abandoned(d) \in [Posts -> UnderWay \union {None}]
  BY <1>4 DEF Abandoned
<1> QED
  BY <1>1, <1>2, <1>3, <1>5, PostFields

-----------------------------------------------------------------------------
(* What each action does to the posts under way.                           *)
LEMMA ConfirmPost ==
  ASSUME TypeOK, ShownLoggedIn, NEW p \in Posts, Confirm(p)
  PROVE  /\ post[p] = None /\ post' \in [Posts -> UnderWay \union {None}]
         /\ \A q \in Posts : q # p => post'[q] = post[q]
         /\ post'[p] # None /\ post'[p].phase = "list"
         /\ shown[post'[p].on] /\ draft[post'[p].on] = post'[p].confirmed
         /\ user[post'[p].on] = post'[p].who /\ user[post'[p].on] # Nobody
<1>1. PICK d \in Devices, n \in Names :
        /\ CanConfirm(d) /\ post[p] = None
        /\ post' = [post EXCEPT ![p] =
             [phase |-> "list", on |-> d, name |-> n, here |-> TRUE,
              confirmed |-> draft[d], who |-> user[d], taken |-> Blank]]
  BY DEF Confirm
<1> DEFINE r == [phase |-> "list", on |-> d, name |-> n, here |-> TRUE,
                 confirmed |-> draft[d], who |-> user[d], taken |-> Blank]
<1>2. draft[d] \in Drafts /\ user[d] \in Users /\ user[d] # Nobody /\ shown[d]
  BY <1>1 DEF CanConfirm, TypeOK, ShownLoggedIn
<1>3. r \in UnderWay /\ r.phase = "list" /\ r.on = d /\ r.confirmed = draft[d] /\ r.who = user[d]
  BY <1>2 DEF UnderWay, Phases
<1> HIDE DEF r
<1>4. post' = [post EXCEPT ![p] = r]
  BY <1>1 DEF r
<1>5. r # None
  BY <1>3, NoneAssumption
<1>6. post' \in [Posts -> UnderWay \union {None}] /\ post'[p] = r
  BY <1>3, <1>4 DEF TypeOK
<1>7. \A q \in Posts : q # p => post'[q] = post[q]
  BY <1>4 DEF TypeOK
<1> QED
  BY <1>1, <1>2, <1>3, <1>5, <1>6, <1>7

LEMMA GetPostsPost ==
  ASSUME TypeOK, NEW p \in Posts, GetPosts(p)
  PROVE  /\ post' \in [Posts -> UnderWay \union {None}]
         /\ \A q \in Posts : q # p => post'[q] = post[q]
         /\ post'[p] \in UnderWay
         /\ post'[p].on = post[p].on /\ post'[p].name = post[p].name
         /\ post'[p].confirmed = post[p].confirmed /\ post'[p].who = post[p].who
         /\ \/ post'[p].phase = "upload" /\ post'[p].taken = draft[post[p].on]
            \/ post'[p].phase = "cut"
<1>1. post[p] # None
  BY DEF GetPosts
<1>2. CASE post' = [post EXCEPT ![p].phase = "upload", ![p].taken = draft[post[p].on]]
  <2> DEFINE r == [post[p] EXCEPT !.phase = "upload", !.taken = draft[post[p].on]]
  <2>1. draft[post[p].on] \in Drafts \union {Blank}
    BY <1>1, PostFields DEF TypeOK
  <2>2. /\ r \in UnderWay /\ r.phase = "upload" /\ r.taken = draft[post[p].on]
        /\ r.on = post[p].on /\ r.name = post[p].name /\ r.confirmed = post[p].confirmed
        /\ r.who = post[p].who
    BY <1>1, <2>1, PostFields DEF UnderWay, Phases
  <2>3. post' = [post EXCEPT ![p] = r]
    BY <1>2
  <2> HIDE DEF r
  <2> QED
    BY <2>2, <2>3 DEF TypeOK
<1>3. CASE Ends(p, "cut")
  BY <1>1, <1>3, EndsPost DEF Over
<1> QED
  BY <1>2, <1>3 DEF GetPosts

LEMMA StoreDocumentPost ==
  ASSUME TypeOK, NEW p \in Posts, StoreDocument(p)
  PROVE  /\ post' \in [Posts -> UnderWay \union {None}]
         /\ \A q \in Posts : q # p => post'[q] = post[q]
         /\ post[p] # None /\ post[p].phase \in {"stored", "failed"}
         /\ post'[p] \in UnderWay
         /\ post'[p].on = post[p].on /\ post'[p].name = post[p].name
         /\ post'[p].confirmed = post[p].confirmed /\ post'[p].who = post[p].who
         /\ \/ /\ post'[p].phase = "done" /\ UNCHANGED outbox
               /\ NoUrl(p) \/ user[post[p].on] = Nobody
            \/ /\ post'[p].phase = "document" /\ ~NoUrl(p) /\ user[post[p].on] # Nobody
               /\ outbox' = [outbox EXCEPT ![<<post[p].on, user[post[p].on]>>] =
                               @ \o <<DocumentOf(p)>>]
<1>1. post[p] # None /\ post[p].phase \in {"stored", "failed"}
  BY DEF StoreDocument, Store
<1>2. CASE NoUrl(p) \/ user[post[p].on] = Nobody
  <2>1. Ends(p, "done") /\ UNCHANGED outbox
    BY <1>2 DEF StoreDocument, Store
  <2> QED
    BY <1>1, <1>2, <2>1, EndsPost DEF Over
<1>3. CASE ~(NoUrl(p) \/ user[post[p].on] = Nobody)
  <2>1. /\ outbox' = [outbox EXCEPT ![<<post[p].on, user[post[p].on]>>] = @ \o <<DocumentOf(p)>>]
        /\ post' = [post EXCEPT ![p].phase = "document",
                                ![p].here = @ /\ post[p].phase = "stored"]
    BY <1>3 DEF StoreDocument, Store
  <2> DEFINE r == [post[p] EXCEPT !.phase = "document",
                                  !.here = @ /\ post[p].phase = "stored"]
  <2>2. /\ r \in UnderWay /\ r.phase = "document"
        /\ r.on = post[p].on /\ r.name = post[p].name /\ r.confirmed = post[p].confirmed
        /\ r.who = post[p].who
    BY <1>1, PostFields DEF UnderWay, Phases
  <2>3. post' = [post EXCEPT ![p] = r]
    BY <2>1
  <2> HIDE DEF r
  <2>4. /\ post' \in [Posts -> UnderWay \union {None}] /\ post'[p] = r
        /\ \A q \in Posts : q # p => post'[q] = post[q]
    BY <2>2, <2>3 DEF TypeOK
  <2> QED
    BY <1>1, <1>3, <2>1, <2>2, <2>4
<1> QED
  BY <1>2, <1>3

LEMMA UrlFailsPost ==
  ASSUME TypeOK, NEW p \in Posts, UrlFails(p)
  PROVE  /\ post' \in [Posts -> UnderWay \union {None}]
         /\ \A q \in Posts : q # p => post'[q] = post[q]
         /\ post[p] # None /\ post[p].phase \in {"stored", "failed"}
         /\ post'[p] \in UnderWay /\ post'[p].phase = "cut"
         /\ post'[p].on = post[p].on /\ post'[p].name = post[p].name
         /\ post'[p].confirmed = post[p].confirmed /\ post'[p].who = post[p].who
BY EndsPost DEF UrlFails, Over

(* A deletion that has begun, or is done, stays so.                        *)
DeletionsGoOn == \A n \in Names :
  /\ deletion[n] # "none" => deletion'[n] # "none"
  /\ deletion[n] = "done" => deletion'[n] = "done"

LEMMA DeletionsStep == ASSUME TypeOK, [Next]_vars PROVE DeletionsGoOn
<1>1. ASSUME NEW d \in Devices, NEW n \in Names, DeleteAudio(d, n) PROVE DeletionsGoOn
  BY <1>1 DEF DeleteAudio, DeletionsGoOn, TypeOK
<1>2. ASSUME NEW n \in Names, DeleteDocument(n) PROVE DeletionsGoOn
  BY <1>2 DEF DeleteDocument, DeletionsGoOn, TypeOK
<1>3. CASE UNCHANGED deletion
  BY <1>3 DEF DeletionsGoOn
<1> QED
  BY <1>1, <1>2, <1>3 DEF Next, LogIn, LogOut, Open, Edit, Leave, Confirm, GetPosts, Upload,
       StoreDocument, Store, UrlFails, ApplyDocument, ApplyList, Kill, server, vars

(* The write that is applied is one of somebody's queue.                   *)
LEMMA OldestWrite ==
  ASSUME TypeOK, NEW d \in Devices, Sends(d)
  PROVE  /\ <<d, user[d]>> \in Queues /\ user[d] \in Users
         /\ outbox[<<d, user[d]>>] \in Seq(Writes) /\ outbox[<<d, user[d]>>] # <<>>
         /\ Oldest(d) \in Writes /\ Oldest(d) = outbox[<<d, user[d]>>][1]
         /\ 1 \in 1..Len(outbox[<<d, user[d]>>])
<1>1. user[d] \in Users /\ outbox[<<d, user[d]>>] # <<>>
  BY DEF Sends, TypeOK
<1>2. <<d, user[d]>> \in Queues
  BY <1>1 DEF Queues
<1>3. outbox[<<d, user[d]>>] \in Seq(Writes)
  BY <1>2 DEF TypeOK, Writes, Queues
<1> QED
  BY <1>1, <1>2, <1>3 DEF Oldest

LEMMA ApplyDocumentPost ==
  ASSUME TypeOK, WritesSound, NEW d \in Devices, ApplyDocument(d)
  PROVE  /\ post' \in [Posts -> UnderWay \union {None}]
         /\ Oldest(d).to = "document" /\ Oldest(d).value.by \in Posts
         /\ Sound(Oldest(d).name, Oldest(d).value)
         /\ \A q \in Posts : IF post[q] = None THEN post'[q] = None
              ELSE /\ post'[q] \in UnderWay
                   /\ post'[q].on = post[q].on /\ post'[q].name = post[q].name
                   /\ post'[q].confirmed = post[q].confirmed /\ post'[q].who = post[q].who
                   /\ \/ q = Oldest(d).value.by /\ post'[q].phase \in Over
                      \/ q # Oldest(d).value.by /\ post'[q].phase = post[q].phase
                         /\ post'[q].taken = post[q].taken
         /\ \/ UNCHANGED <<disturbed, page>>
            \/ /\ ClosePage(d) /\ disturbed' = disturbed \union (On(d) \ {Oldest(d).value.by})
<1> DEFINE w == Oldest(d)
           p == w.value.by
<1>1. Sends(d) /\ w.to = "document"
  BY DEF ApplyDocument
<1>2. w \in Writes /\ SoundWrite(w)
  BY <1>1, OldestWrite DEF WritesSound
<1>3. p \in Posts /\ Sound(w.name, w.value)
  BY <1>1, <1>2, WriteFields DEF SoundWrite
<1>4. post[p] # None /\ post[p].phase \in {"document", "done", "cut"}
  BY <1>3 DEF Sound
<1>5. CASE post[p].phase # "document"
  <2>1. UNCHANGED <<post, disturbed, page>>
    BY <1>5 DEF ApplyDocument
  <2> QED
    BY <1>1, <1>3, <1>4, <1>5, <2>1, PostFields DEF TypeOK, Over
<1>6. CASE post[p].phase = "document" /\ Ends(p, "done") /\ UNCHANGED <<disturbed, page>>
  BY <1>1, <1>3, <1>4, <1>6, EndsPost, PostFields DEF Over
<1>7. CASE /\ post[p].phase = "document" /\ ClosePage(d)
           /\ post' = [Abandoned(d) EXCEPT ![p] = Ended(@, "done")]
           /\ disturbed' = disturbed \union (On(d) \ {p})
  <2> DEFINE a == Abandoned(d)
             r == Ended(a[p], "done")
  <2>2. a \in [Posts -> UnderWay \union {None}] /\ a[p] \in UnderWay
    BY <1>3, <1>4, Abandoning
  <2>3. /\ a[p].on = post[p].on /\ a[p].name = post[p].name
        /\ a[p].confirmed = post[p].confirmed /\ a[p].who = post[p].who
    BY <1>3, <1>4, Abandoning
  <2>4. post' = [a EXCEPT ![p] = r]
    BY <1>7
  <2> HIDE DEF a
  <2>5. /\ r \in UnderWay /\ r.phase = "done" /\ r.on = a[p].on /\ r.name = a[p].name
        /\ r.confirmed = a[p].confirmed /\ r.who = a[p].who
    BY <2>2, Ending DEF Over
  <2> HIDE DEF r, p, w
  <2>6. post' \in [Posts -> UnderWay \union {None}] /\ post'[p] = r
    BY <1>3, <2>2, <2>4, <2>5
  <2>7. \A q \in Posts : q # p => post'[q] = a[q]
    BY <2>2, <2>4
  <2>8. \A q \in Posts : IF post[q] = None THEN post'[q] = None
          ELSE /\ post'[q] \in UnderWay
               /\ post'[q].on = post[q].on /\ post'[q].name = post[q].name
               /\ post'[q].confirmed = post[q].confirmed /\ post'[q].who = post[q].who
               /\ \/ q = p /\ post'[q].phase = "done"
                  \/ q # p /\ post'[q].phase = post[q].phase /\ post'[q].taken = post[q].taken
    BY <1>4, <2>3, <2>5, <2>6, <2>7, Abandoning DEF a
  <2> QED
    BY <1>1, <1>3, <1>7, <2>6, <2>8 DEF p, w, Over
<1>8. \/ post[p].phase # "document"
      \/ post[p].phase = "document" /\ Ends(p, "done") /\ UNCHANGED <<disturbed, page>>
      \/ /\ post[p].phase = "document" /\ ClosePage(d)
         /\ post' = [Abandoned(d) EXCEPT ![p] = Ended(@, "done")]
         /\ disturbed' = disturbed \union (On(d) \ {p})
  BY DEF ApplyDocument
<1> QED
  BY <1>5, <1>6, <1>7, <1>8

LEMMA KillPost ==
  ASSUME TypeOK, NEW d \in Devices, Kill(d)
  PROVE  /\ post' \in [Posts -> UnderWay \union {None}]
         /\ \A q \in Posts : q \notin On(d) => post'[q] = post[q]
         /\ \A q \in On(d) :
              /\ post'[q] \in UnderWay /\ post'[q].phase = "cut"
              /\ post'[q].on = post[q].on /\ post'[q].name = post[q].name
              /\ post'[q].confirmed = post[q].confirmed /\ post'[q].who = post[q].who
<1> DEFINE r(q) == Ended(post[q], "cut")
<1>1. ASSUME NEW q \in Posts, post[q] # None
      PROVE  /\ r(q) \in UnderWay /\ r(q).phase = "cut"
             /\ r(q).on = post[q].on /\ r(q).name = post[q].name
             /\ r(q).confirmed = post[q].confirmed /\ r(q).who = post[q].who
  BY <1>1, PostFields, Ending DEF Over
<1> HIDE DEF r
<1>2. post' = [q \in Posts |-> IF q \in On(d) THEN r(q) ELSE post[q]]
  BY DEF Kill, r
<1>3. \A q \in On(d) : q \in Posts /\ post[q] # None
  BY DEF On
<1>4. \A q \in Posts : post'[q] \in UnderWay \union {None}
  BY <1>1, <1>2, <1>3, PostFields
<1> QED
  BY <1>1, <1>2, <1>3, <1>4

-----------------------------------------------------------------------------
(* Every step keeps the posts that are under way.                          *)
LEMMA KeepsStep == ASSUME IInv, [Next]_vars PROVE Kept
<1> USE NoneAssumption DEF IInv
<1>1. ASSUME NEW d \in Devices, LogOut(d) \/ Open(d) \/ ApplyList(d) PROVE Kept
  BY <1>1 DEF LogOut, Open, ApplyList, Kept, server, page
<1>2. ASSUME NEW d \in Devices, Leave(d) PROVE Kept
  <2>1. \A p \in Posts : post[p] # None => Abandoned(d)[p] # None
    BY Abandoning
  <2>2. post' = Abandoned(d) /\ disturbed \subseteq disturbed'
    BY <1>2 DEF Leave
  <2> QED
    BY <2>1, <2>2, Abandoning DEF Kept
<1>3. ASSUME NEW d \in Devices, ApplyDocument(d) PROVE Kept
  <2>1. disturbed \subseteq disturbed'
    BY <1>3, ApplyDocumentPost
  <2>2. \A p \in Posts : post[p] # None => post'[p] # None
    BY <1>3, ApplyDocumentPost
  <2> QED
    BY <1>3, <2>1, <2>2, ApplyDocumentPost DEF Kept, Over
<1>4. ASSUME NEW d \in Devices, Kill(d) PROVE Kept
  <2>1. disturbed \subseteq disturbed'
    BY <1>4 DEF Kill
  <2>2. \A p \in Posts : post[p] # None => post'[p] # None
    BY <1>4, KillPost
  <2> QED
    BY <1>4, <2>1, <2>2, KillPost DEF Kept
<1>5. ASSUME NEW d \in Devices, NEW u \in Users, LogIn(d, u) PROVE Kept
  BY <1>5 DEF LogIn, Kept
<1>6. ASSUME NEW d \in Devices, NEW x \in Drafts, Edit(d, x) PROVE Kept
  BY <1>6 DEF Edit, Kept
<1>7. ASSUME NEW p \in Posts, Confirm(p) PROVE Kept
  BY <1>7, ConfirmPost DEF Kept, Confirm
<1>8. ASSUME NEW p \in Posts, GetPosts(p) PROVE Kept
  <2>1. post'[p] # None /\ post[p].phase = "list" /\ UNCHANGED disturbed
    BY <1>8, GetPostsPost DEF GetPosts
  <2> QED
    BY <1>8, <2>1, GetPostsPost DEF Kept
<1>9. ASSUME NEW p \in Posts, Upload(p) PROVE Kept
  <2>1. post[p] # None /\ post[p].phase = "upload" /\ UNCHANGED disturbed
    BY <1>9 DEF Upload
  <2>2. PICK next \in {"stored", "failed"} : Goes(p, next)
    BY <1>9 DEF Upload
  <2>3. next \in Phases
    BY DEF Phases
  <2> QED
    BY <2>1, <2>2, <2>3, Going DEF Kept
<1>10. ASSUME NEW p \in Posts, StoreDocument(p) PROVE Kept
  <2>1. post'[p] # None /\ UNCHANGED disturbed
    BY <1>10, StoreDocumentPost DEF StoreDocument, Store
  <2> QED
    BY <1>10, <2>1, StoreDocumentPost DEF Kept
<1>11. ASSUME NEW p \in Posts, UrlFails(p) PROVE Kept
  <2>1. post'[p] # None /\ UNCHANGED disturbed
    BY <1>11, UrlFailsPost DEF UrlFails
  <2> QED
    BY <1>11, <2>1, UrlFailsPost DEF Kept
<1>12. CASE UNCHANGED <<post, disturbed>>
  BY <1>12 DEF Kept
<1> QED
  BY <1>1, <1>2, <1>3, <1>4, <1>5, <1>6, <1>7, <1>8, <1>9, <1>10, <1>11, <1>12
     DEF Next, DeleteAudio, DeleteDocument, vars

(* What is in a queue after a write was added to it, or taken off.         *)
LEMMA SeqAppend ==
  ASSUME NEW q \in Seq(Writes), NEW w \in Writes
  PROVE  /\ Append(q, w) \in Seq(Writes) /\ q \o <<w>> = Append(q, w)
         /\ \A i \in 1..Len(Append(q, w)) :
              (i \in 1..Len(q) /\ Append(q, w)[i] = q[i]) \/ Append(q, w)[i] = w
OBVIOUS

LEMMA SeqTail ==
  ASSUME NEW q \in Seq(Writes), q # <<>>
  PROVE  /\ Tail(q) \in Seq(Writes)
         /\ \A i \in 1..Len(Tail(q)) : \E j \in 1..Len(q) : Tail(q)[i] = q[j]
<1>1. Tail(q) \in Seq(Writes) /\ Len(Tail(q)) = Len(q) - 1 /\ Len(q) \in Nat
  OBVIOUS
<1>2. ASSUME NEW i \in 1..Len(Tail(q)) PROVE \E j \in 1..Len(q) : Tail(q)[i] = q[j]
  <2>1. i + 1 \in 1..Len(q) /\ Tail(q)[i] = q[i + 1]
    BY <1>1
  <2> QED
    BY <2>1
<1> QED
  BY <1>1, <1>2

LEMMA NewWrites ==
  ASSUME TypeOK, NEW p \in Posts, post[p] # None
  PROVE  /\ ListOf(p) \in Writes
         /\ user[post[p].on] # Nobody =>
              <<post[p].on, user[post[p].on]>> \in Queues /\ DocumentOf(p) \in Writes
<1>1. ListOf(p) \in Writes
  BY PostFields DEF ListOf, Writes
<1>2. ASSUME user[post[p].on] # Nobody
      PROVE  <<post[p].on, user[post[p].on]>> \in Queues /\ DocumentOf(p) \in Writes
  <2>1. user[post[p].on] \in Users /\ draft[post[p].on] \in Drafts \union {Blank}
    BY <1>2, PostFields DEF TypeOK
  <2> DEFINE v == [by |-> p, owner |-> user[post[p].on],
                   title |-> post[p].taken, tags |-> draft[post[p].on]]
  <2>2. v \in Documents
    BY <2>1, PostFields DEF Documents
  <2>3. DocumentOf(p) = [to |-> "document", name |-> post[p].name, value |-> v]
    BY DEF DocumentOf
  <2> HIDE DEF v
  <2>4. DocumentOf(p) \in Writes
    BY <2>2, <2>3, PostFields DEF Writes
  <2> QED
    BY <2>1, <2>4, PostFields DEF Queues
<1> QED
  BY <1>1, <1>2

(* The ways in which the queues change.                                    *)
LEMMA QueuesStep ==
  ASSUME IInv, NEW d \in Devices, ApplyDocument(d) \/ ApplyList(d)
  PROVE  /\ outbox' \in [Queues -> Seq(Writes)]
         /\ \A c \in Queues : \A i \in 1..Len(outbox'[c]) :
              \/ \E j \in 1..Len(outbox[c]) : outbox'[c][i] = outbox[c][j]
              \/ ApplyDocument(d) /\ outbox'[c][i] = ListOf(Oldest(d).value.by)
<1> USE DEF IInv
<1> DEFINE c == <<d, user[d]>>
           q == outbox[c]
           w == ListOf(Oldest(d).value.by)
<1>1. Sends(d) /\ Rest(d) = Tail(q)
  BY DEF ApplyDocument, ApplyList, Rest
<1>2. c \in Queues /\ q \in Seq(Writes) /\ q # <<>> /\ outbox \in [Queues -> Seq(Writes)]
  BY <1>1, OldestWrite DEF TypeOK, Queues, Writes
<1>3. \/ outbox' = [outbox EXCEPT ![c] = Tail(q)]
      \/ ApplyDocument(d) /\ outbox' = [outbox EXCEPT ![c] = Append(Tail(q), w)]
  BY <1>1 DEF ApplyDocument, ApplyList
<1>4. ApplyDocument(d) => w \in Writes
  <2> SUFFICES ASSUME ApplyDocument(d) PROVE w \in Writes
    OBVIOUS
  <2>1. Oldest(d).value.by \in Posts /\ post[Oldest(d).value.by] # None
    BY ApplyDocumentPost DEF Sound
  <2> QED
    BY <2>1, NewWrites
<1> HIDE DEF c, q, w
<1>5. /\ Tail(q) \in Seq(Writes)
      /\ \A i \in 1..Len(Tail(q)) : \E j \in 1..Len(q) : Tail(q)[i] = q[j]
  BY <1>2, SeqTail
<1>6. CASE outbox' = [outbox EXCEPT ![c] = Tail(q)]
  <2>1. outbox' \in [Queues -> Seq(Writes)]
    BY <1>2, <1>5, <1>6
  <2>2. \A b \in Queues : outbox'[b] = IF b = c THEN Tail(q) ELSE outbox[b]
    BY <1>2, <1>6
  <2> QED
    BY <1>2, <1>5, <2>1, <2>2 DEF q
<1>7. CASE ApplyDocument(d) /\ outbox' = [outbox EXCEPT ![c] = Append(Tail(q), w)]
  <2>1. /\ Append(Tail(q), w) \in Seq(Writes)
        /\ \A i \in 1..Len(Append(Tail(q), w)) :
             (\E j \in 1..Len(q) : Append(Tail(q), w)[i] = q[j]) \/ Append(Tail(q), w)[i] = w
    BY <1>4, <1>5, <1>7, SeqAppend
  <2>2. outbox' \in [Queues -> Seq(Writes)]
    BY <1>2, <1>7, <2>1
  <2>3. \A b \in Queues : outbox'[b] = IF b = c THEN Append(Tail(q), w) ELSE outbox[b]
    BY <1>2, <1>7
  <2> QED
    BY <1>2, <1>7, <2>1, <2>2, <2>3 DEF q, w
<1> QED
  BY <1>3, <1>6, <1>7

(* What postAudio writes is added to a queue.                              *)
LEMMA StoresStep ==
  ASSUME IInv, NEW p \in Posts, StoreDocument(p)
  PROVE  /\ outbox' \in [Queues -> Seq(Writes)]
         /\ \A c \in Queues : \A i \in 1..Len(outbox'[c]) :
              \/ i \in 1..Len(outbox[c]) /\ outbox'[c][i] = outbox[c][i]
              \/ /\ outbox'[c][i] = DocumentOf(p)
                 /\ post'[p].phase = "document" /\ ~NoUrl(p) /\ user[post[p].on] # Nobody
<1> USE DEF IInv
<1> DEFINE c == <<post[p].on, user[post[p].on]>>
           w == DocumentOf(p)
<1>1. outbox \in [Queues -> Seq(Writes)] /\ post[p] # None
  BY StoreDocumentPost DEF TypeOK, Queues, Writes
<1>2. CASE UNCHANGED outbox
  BY <1>1, <1>2
<1>3. CASE /\ post'[p].phase = "document" /\ ~NoUrl(p) /\ user[post[p].on] # Nobody
           /\ outbox' = [outbox EXCEPT ![c] = @ \o <<w>>]
  <2>1. c \in Queues /\ w \in Writes
    BY <1>1, <1>3, NewWrites
  <2> HIDE DEF c, w
  <2>2. /\ outbox[c] \in Seq(Writes)
        /\ outbox[c] \o <<w>> \in Seq(Writes)
        /\ \A i \in 1..Len(outbox[c] \o <<w>>) :
             \/ i \in 1..Len(outbox[c]) /\ (outbox[c] \o <<w>>)[i] = outbox[c][i]
             \/ (outbox[c] \o <<w>>)[i] = w
    <3>1. outbox[c] \in Seq(Writes)
      BY <1>1, <2>1
    <3>2. outbox[c] \o <<w>> = Append(outbox[c], w)
      BY <2>1, <3>1, SeqAppend
    <3> QED
      BY <2>1, <3>1, <3>2, SeqAppend
  <2>3. outbox' \in [Queues -> Seq(Writes)]
    BY <1>1, <1>3, <2>1, <2>2
  <2>4. \A b \in Queues : outbox'[b] = IF b = c THEN outbox[c] \o <<w>> ELSE outbox[b]
    BY <1>1, <1>3, <2>1
  <2> QED
    BY <1>3, <2>2, <2>3, <2>4 DEF w
<1> QED
  BY <1>2, <1>3, StoreDocumentPost

LEMMA TypeStep == ASSUME IInv, [Next]_vars PROVE TypeOK' /\ ShownLoggedIn'
<1> USE DEF IInv, TypeOK, ShownLoggedIn, server, page
<1>0. \A d \in Devices : On(d) \subseteq Posts
  BY DEF On
<1>1. ASSUME NEW d \in Devices, LogOut(d) \/ Open(d) PROVE TypeOK' /\ ShownLoggedIn'
  <2>1. CASE LogOut(d)
    <3>1. /\ user' \in [Devices -> Users \union {Nobody}]
          /\ \A e \in Devices : e # d => user'[e] = user[e]
      BY <1>0, <2>1 DEF LogOut
    <3> QED
      BY <2>1, <3>1 DEF LogOut
  <2>2. CASE Open(d)
    BY <2>2, MaxPagesAssumption DEF Open
  <2> QED
    BY <1>1, <2>1, <2>2
<1>2. ASSUME NEW d \in Devices, Leave(d) PROVE TypeOK' /\ ShownLoggedIn'
  BY <1>2, Abandoning DEF Leave, ClosePage, On
<1>3. ASSUME NEW d \in Devices, ApplyDocument(d) PROVE TypeOK' /\ ShownLoggedIn'
  <2>1. post' \in [Posts -> UnderWay \union {None}]
    BY <1>3, ApplyDocumentPost
  <2>2. /\ disturbed' \subseteq Posts /\ pages' \in 0..MaxPages
        /\ shown' \in [Devices -> BOOLEAN] /\ draft' \in [Devices -> Drafts \union {Blank}]
        /\ \A e \in Devices : shown'[e] => shown[e]
    <3>1. CASE UNCHANGED <<disturbed, page>>
      BY <3>1
    <3>2. CASE ClosePage(d) /\ disturbed' = disturbed \union (On(d) \ {Oldest(d).value.by})
      BY <1>0, <3>2 DEF ClosePage
    <3> QED
      BY <1>3, <3>1, <3>2, ApplyDocumentPost
  <2>3. outbox' \in [Queues -> Seq(Writes)]
    BY <1>3, QueuesStep
  <2>4. Oldest(d) \in Writes /\ Oldest(d).to = "document"
    BY <1>3, OldestWrite DEF ApplyDocument
  <2>5. document' \in [Names -> Documents \union {None}]
    BY <1>3, <2>4, WriteFields DEF ApplyDocument
  <2>6. UNCHANGED <<file, posts, deletion, user>>
    BY <1>3 DEF ApplyDocument
  <2> QED
    BY <2>1, <2>2, <2>3, <2>5, <2>6 DEF Queues, Writes
<1>4. ASSUME NEW d \in Devices, ApplyList(d) PROVE TypeOK' /\ ShownLoggedIn'
  <2>1. outbox' \in [Queues -> Seq(Writes)]
    BY <1>4, QueuesStep
  <2>2. Oldest(d) \in Writes /\ user[d] \in Users
    BY <1>4, OldestWrite DEF ApplyList
  <2>3. posts' \in [Users -> SUBSET Names]
    BY <1>4, <2>2, WriteFields DEF ApplyList
  <2>4. UNCHANGED <<file, document, deletion, user, page, post, disturbed>>
    BY <1>4 DEF ApplyList
  <2> QED
    BY <2>1, <2>3, <2>4 DEF Queues, Writes
<1>5. ASSUME NEW d \in Devices, Kill(d) PROVE TypeOK' /\ ShownLoggedIn'
  <2>1. post' \in [Posts -> UnderWay \union {None}]
    BY <1>5, KillPost
  <2> QED
    BY <1>5, <2>1 DEF Kill, ClosePage, On
<1>6. ASSUME NEW d \in Devices, NEW u \in Users, LogIn(d, u) PROVE TypeOK' /\ ShownLoggedIn'
  BY <1>6, DistinctAssumption DEF LogIn
<1>7. ASSUME NEW d \in Devices, NEW x \in Drafts, Edit(d, x) PROVE TypeOK' /\ ShownLoggedIn'
  <2>1. draft' \in [Devices -> Drafts \union {Blank}] /\ disturbed' \subseteq Posts
    BY <1>0, <1>7 DEF Edit
  <2> QED
    BY <1>7, <2>1 DEF Edit
<1>8. ASSUME NEW p \in Posts, Confirm(p) PROVE TypeOK' /\ ShownLoggedIn'
  <2>1. post' \in [Posts -> UnderWay \union {None}]
    BY <1>8, ConfirmPost
  <2>2. UNCHANGED <<server, outbox, user, page, disturbed>>
    BY <1>8 DEF Confirm
  <2> QED
    BY <2>1, <2>2
<1>9. ASSUME NEW p \in Posts, GetPosts(p) PROVE TypeOK' /\ ShownLoggedIn'
  BY <1>9, GetPostsPost DEF GetPosts
<1>10. ASSUME NEW p \in Posts, Upload(p) PROVE TypeOK' /\ ShownLoggedIn'
  <2>1. post[p] # None
    BY <1>10 DEF Upload
  <2>2. post' \in [Posts -> UnderWay \union {None}]
    BY <1>10, <2>1, Going DEF Upload, Phases
  <2>3. file' \in [Names -> Drafts \union {None}]
    BY <1>10, <2>1, PostFields DEF Upload
  <2> QED
    BY <1>10, <2>2, <2>3 DEF Upload
<1>11. ASSUME NEW p \in Posts, StoreDocument(p) PROVE TypeOK' /\ ShownLoggedIn'
  <2>1. post' \in [Posts -> UnderWay \union {None}] /\ outbox' \in [Queues -> Seq(Writes)]
    BY <1>11, StoreDocumentPost, StoresStep
  <2> QED
    BY <1>11, <2>1 DEF StoreDocument, Store, Queues, Writes
<1>12. ASSUME NEW p \in Posts, UrlFails(p) PROVE TypeOK' /\ ShownLoggedIn'
  <2>1. post' \in [Posts -> UnderWay \union {None}]
    BY <1>12, UrlFailsPost
  <2> QED
    BY <1>12, <2>1 DEF UrlFails
<1>13. ASSUME NEW d \in Devices, NEW n \in Names, DeleteAudio(d, n)
       PROVE  TypeOK' /\ ShownLoggedIn'
  BY <1>13 DEF DeleteAudio
<1>14. ASSUME NEW n \in Names, DeleteDocument(n) PROVE TypeOK' /\ ShownLoggedIn'
  BY <1>14 DEF DeleteDocument
<1>15. CASE UNCHANGED vars
  BY <1>15 DEF vars
<1> QED
  BY <1>1, <1>2, <1>3, <1>4, <1>5, <1>6, <1>7, <1>8, <1>9, <1>10, <1>11, <1>12, <1>13, <1>14,
     <1>15 DEF Next

-----------------------------------------------------------------------------
(* A name that a post had for itself it has had all along.                 *)
LEMMA AloneBefore ==
  ASSUME Kept, NEW p \in Posts, post[p] # None, Alone(p)'
  PROVE  Alone(p)
BY DEF Kept, Alone

PagesFit == \A p \in Posts : post[p] # None => PageFits(p)

LEMMA PagesStep == ASSUME IInv, [Next]_vars PROVE PagesFit'
<1> USE DEF server, page
<1>0. TypeOK /\ ShownLoggedIn /\ PagesFit
  BY DEF IInv, PostsFit, PagesFit
<1>1. ASSUME NEW d \in Devices, LogOut(d) PROVE PagesFit'
  BY <1>0, <1>1, PostFields DEF LogOut, PagesFit, PageFits, TypeOK, On, Over
<1>2. ASSUME NEW d \in Devices, Open(d) PROVE PagesFit'
  BY <1>0, <1>2, PostFields DEF Open, PagesFit, PageFits, TypeOK
<1>3. ASSUME NEW d \in Devices, Leave(d) PROVE PagesFit'
  <2>1. \A p \in Posts : IF post[p] = None THEN post'[p] = None
          ELSE /\ post'[p].phase = post[p].phase /\ post'[p].on = post[p].on
               /\ post'[p].confirmed = post[p].confirmed /\ post'[p].who = post[p].who
               /\ post'[p].taken = post[p].taken
    BY <1>0, <1>3, Abandoning DEF Leave
  <2>2. /\ UNCHANGED user /\ disturbed' = disturbed \union On(d)
        /\ \A e \in Devices : e # d => shown'[e] = shown[e] /\ draft'[e] = draft[e]
    BY <1>0, <1>3 DEF Leave, ClosePage, TypeOK
  <2> QED
    BY <1>0, <2>1, <2>2, PostFields DEF PagesFit, PageFits, On, Over
<1>4. ASSUME NEW d \in Devices, ApplyDocument(d) PROVE PagesFit'
  <2> DEFINE w == Oldest(d)
  <2>1. \A p \in Posts : IF post[p] = None THEN post'[p] = None
          ELSE /\ post'[p].on = post[p].on
               /\ post'[p].confirmed = post[p].confirmed /\ post'[p].who = post[p].who
               /\ \/ p = w.value.by /\ post'[p].phase \in Over
                  \/ p # w.value.by /\ post'[p].phase = post[p].phase /\ post'[p].taken = post[p].taken
    BY <1>0, <1>4, ApplyDocumentPost DEF IInv
  <2>2. /\ UNCHANGED user
        /\ \/ UNCHANGED <<disturbed, page>>
           \/ /\ disturbed' = disturbed \union (On(d) \ {w.value.by})
              /\ \A e \in Devices : e # d => shown'[e] = shown[e] /\ draft'[e] = draft[e]
    BY <1>0, <1>4, ApplyDocumentPost DEF IInv, ApplyDocument, ClosePage, TypeOK
  <2> HIDE DEF w
  <2> QED
    BY <1>0, <2>1, <2>2, PostFields DEF PagesFit, PageFits, On, Over
<1>5. ASSUME NEW d \in Devices, ApplyList(d) PROVE PagesFit'
  BY <1>0, <1>5 DEF ApplyList, PagesFit, PageFits
<1>6. ASSUME NEW d \in Devices, Kill(d) PROVE PagesFit'
  <2>1. /\ \A p \in Posts : p \notin On(d) => post'[p] = post[p]
        /\ \A p \in On(d) : post'[p].phase = "cut"
    BY <1>0, <1>6, KillPost
  <2>2. /\ UNCHANGED user /\ disturbed \subseteq disturbed'
        /\ \A e \in Devices : e # d => shown'[e] = shown[e] /\ draft'[e] = draft[e]
    BY <1>0, <1>6 DEF Kill, ClosePage, TypeOK
  <2> QED
    BY <1>0, <2>1, <2>2, PostFields DEF PagesFit, PageFits, On, Over
<1>7. ASSUME NEW d \in Devices, NEW u \in Users, LogIn(d, u) PROVE PagesFit'
  BY <1>0, <1>7, PostFields DEF LogIn, PagesFit, PageFits, TypeOK, ShownLoggedIn
<1>8. ASSUME NEW d \in Devices, NEW x \in Drafts, Edit(d, x) PROVE PagesFit'
  BY <1>0, <1>8, PostFields DEF Edit, PagesFit, PageFits, TypeOK, On, Over
<1>9. ASSUME NEW p \in Posts, Confirm(p) PROVE PagesFit'
  <2>1. UNCHANGED <<user, shown, draft, disturbed>>
    BY <1>9 DEF Confirm
  <2> QED
    BY <1>0, <1>9, <2>1, ConfirmPost DEF PagesFit, PageFits, Over
<1>10. ASSUME NEW p \in Posts, GetPosts(p) PROVE PagesFit'
  <2>1. UNCHANGED <<user, shown, draft, disturbed>> /\ post[p] # None /\ post[p].phase = "list"
    BY <1>10 DEF GetPosts
  <2> QED
    BY <1>0, <1>10, <2>1, GetPostsPost DEF PagesFit, PageFits, Over
<1>11. ASSUME NEW p \in Posts, Upload(p) PROVE PagesFit'
  <2>1. UNCHANGED <<user, shown, draft, disturbed>> /\ post[p] # None /\ post[p].phase = "upload"
    BY <1>11 DEF Upload
  <2>2. PICK next \in {"stored", "failed"} : Goes(p, next)
    BY <1>11 DEF Upload
  <2> QED
    BY <1>0, <2>1, <2>2, Going DEF PagesFit, PageFits, Phases, Over
<1>12. ASSUME NEW p \in Posts, StoreDocument(p) PROVE PagesFit'
  <2>1. UNCHANGED <<user, shown, draft, disturbed>>
    BY <1>12 DEF StoreDocument, Store
  <2>2. \A q \in Posts : q # p => post'[q] = post[q]
    BY <1>0, <1>12, StoreDocumentPost
  <2>3. /\ post[p] # None /\ post[p].phase \notin Over
        /\ post'[p].phase \in {"document", "done", "cut"} /\ post'[p].on = post[p].on
        /\ post'[p].confirmed = post[p].confirmed /\ post'[p].who = post[p].who
    BY <1>0, <1>12, StoreDocumentPost DEF Over
  <2> QED
    BY <1>0, <2>1, <2>2, <2>3 DEF PagesFit, PageFits, Over
<1>13. ASSUME NEW p \in Posts, UrlFails(p) PROVE PagesFit'
  <2>1. UNCHANGED <<user, shown, draft, disturbed>>
    BY <1>13 DEF UrlFails
  <2> QED
    BY <1>0, <1>13, <2>1, UrlFailsPost DEF PagesFit, PageFits, Over
<1>14. CASE UNCHANGED <<user, shown, draft, disturbed, post>>
  BY <1>0, <1>14 DEF PagesFit, PageFits
<1> QED
  BY <1>1, <1>2, <1>3, <1>4, <1>5, <1>6, <1>7, <1>8, <1>9, <1>10, <1>11, <1>12, <1>13, <1>14
     DEF Next, DeleteAudio, DeleteDocument, vars

-----------------------------------------------------------------------------
(* A file stays what it is for a post that stays in its phase.             *)
LEMMA FileStays ==
  ASSUME TypeOK, Kept, DeletionsGoOn, UNCHANGED file, NEW p \in Posts, post[p] # None,
         FileFits(p), post'[p].phase \in {post[p].phase, "document", "done", "cut"}
  PROVE  FileFits(p)'
BY AloneBefore, PostFields DEF Kept, FileFits, DeletionsGoOn

FilesFit == (\A p \in Posts : post[p] # None => FileFits(p)) /\ FilesNamed

LEMMA FilesStep == ASSUME IInv, [Next]_vars PROVE FilesFit'
<1> USE DEF server, page
<1>0. TypeOK /\ FilesFit /\ PagesFit /\ Kept /\ DeletionsGoOn
  BY KeepsStep, DeletionsStep DEF IInv, PostsFit, FilesFit, PagesFit
<1>1. ASSUME UNCHANGED file,
             \A p \in Posts : IF post[p] = None THEN post'[p] = None
                              ELSE post'[p].phase \in {post[p].phase, "document", "done", "cut"}
      PROVE  FilesFit'
  <2>1. ASSUME NEW p \in Posts, post'[p] # None PROVE FileFits(p)'
    <3>1. post[p] # None /\ post'[p].phase \in {post[p].phase, "document", "done", "cut"}
      BY <1>1, <2>1
    <3> QED
      BY <1>0, <1>1, <3>1, FileStays DEF FilesFit
  <2>2. FilesNamed'
    BY <1>0, <1>1 DEF FilesFit, FilesNamed, Kept
  <2> QED
    BY <2>1, <2>2 DEF FilesFit
<1>2. ASSUME NEW d \in Devices, LogOut(d) \/ Open(d) \/ ApplyList(d) PROVE FilesFit'
  <2>1. UNCHANGED <<file, post>>
    BY <1>2 DEF LogOut, Open, ApplyList
  <2> QED
    BY <1>1, <2>1
<1>3. ASSUME NEW d \in Devices, Leave(d) PROVE FilesFit'
  <2>1. UNCHANGED file /\ post' = Abandoned(d)
    BY <1>3 DEF Leave
  <2> QED
    BY <1>0, <1>1, <2>1, Abandoning
<1>4. ASSUME NEW d \in Devices, ApplyDocument(d) PROVE FilesFit'
  <2>1. UNCHANGED file
    BY <1>4 DEF ApplyDocument
  <2>2. \A p \in Posts : IF post[p] = None THEN post'[p] = None
                         ELSE post'[p].phase \in {post[p].phase, "document", "done", "cut"}
    BY <1>0, <1>4, ApplyDocumentPost DEF IInv, Over
  <2> QED
    BY <1>1, <2>1, <2>2
<1>5. ASSUME NEW d \in Devices, Kill(d) PROVE FilesFit'
  <2>1. UNCHANGED file
    BY <1>5 DEF Kill
  <2>2. \A p \in Posts : post[p] = None => p \notin On(d)
    BY DEF On
  <2>3. \A p \in Posts : IF post[p] = None THEN post'[p] = None
                         ELSE post'[p].phase \in {post[p].phase, "document", "done", "cut"}
    BY <1>0, <1>5, <2>2, KillPost
  <2> QED
    BY <1>1, <2>1, <2>3
<1>6. ASSUME NEW d \in Devices, NEW u \in Users, LogIn(d, u) PROVE FilesFit'
  <2>1. UNCHANGED <<file, post>>
    BY <1>6 DEF LogIn
  <2> QED
    BY <1>1, <2>1
<1>7. ASSUME NEW d \in Devices, NEW x \in Drafts, Edit(d, x) PROVE FilesFit'
  <2>1. UNCHANGED <<file, post>>
    BY <1>7 DEF Edit
  <2> QED
    BY <1>1, <2>1
<1>8. ASSUME NEW p \in Posts, Confirm(p) PROVE FilesFit'
  <2>1. UNCHANGED file
    BY <1>8 DEF Confirm
  <2>2. /\ post[p] = None /\ post'[p] # None /\ post'[p].phase = "list" /\ post'[p].name \in Names
        /\ \A q \in Posts : q # p => post'[q] = post[q]
    <3>1. TypeOK'
      BY TypeStep
    <3>2. post[p] = None /\ post'[p] # None /\ post'[p].phase = "list"
      BY <1>0, <1>8, ConfirmPost DEF IInv
    <3>3. post'[p].name \in Names
      BY <3>1, <3>2 DEF TypeOK, UnderWay
    <3>4. \A q \in Posts : q # p => post'[q] = post[q]
      BY <1>0, <1>8, ConfirmPost DEF IInv
    <3> QED
      BY <3>2, <3>3, <3>4
  <2>3. Alone(p)' => file[post'[p].name] = None
    BY <1>0, <2>2 DEF FilesFit, FilesNamed, Alone
  <2>4. FileFits(p)'
    BY <2>1, <2>2, <2>3 DEF FileFits
  <2>5. ASSUME NEW q \in Posts, q # p, post'[q] # None PROVE FileFits(q)'
    BY <1>0, <2>1, <2>2, <2>5, FileStays DEF FilesFit
  <2>6. FilesNamed'
    BY <1>0, <2>1 DEF FilesFit, FilesNamed, Kept
  <2> QED
    BY <2>4, <2>5, <2>6 DEF FilesFit
<1>9. ASSUME NEW p \in Posts, GetPosts(p) PROVE FilesFit'
  <2>1. UNCHANGED <<file, disturbed>> /\ post[p] # None /\ post[p].phase = "list"
    BY <1>9 DEF GetPosts
  <2>2. post'[p].phase \in {"upload", "cut"} /\ post'[p].name = post[p].name
    BY <1>0, <1>9, GetPostsPost
  <2>3. FileFits(p)'
    BY <1>0, <2>1, <2>2, AloneBefore DEF FilesFit, FileFits
  <2>4. ASSUME NEW q \in Posts, q # p, post'[q] # None PROVE FileFits(q)'
    <3>1. post'[q] = post[q]
      BY <1>0, <1>9, <2>4, GetPostsPost
    <3> QED
      BY <1>0, <2>1, <2>4, <3>1, FileStays DEF FilesFit
  <2>5. FilesNamed'
    BY <1>0, <2>1 DEF FilesFit, FilesNamed, Kept
  <2> QED
    BY <2>3, <2>4, <2>5 DEF FilesFit
<1>10. ASSUME NEW p \in Posts, Upload(p) PROVE FilesFit'
  <2>1. UNCHANGED <<disturbed, deletion>> /\ post[p] # None /\ post[p].phase = "upload"
    BY <1>10 DEF Upload
  <2>2. CASE UNCHANGED file /\ Goes(p, "failed")
    <3>1. /\ post'[p].phase = "failed" /\ post'[p].name = post[p].name
          /\ \A q \in Posts : q # p => post'[q] = post[q]
      BY <1>0, <2>1, <2>2, Going DEF Phases
    <3>2. FileFits(p)'
      BY <1>0, <2>1, <2>2, <3>1, AloneBefore DEF FilesFit, FileFits
    <3>3. ASSUME NEW q \in Posts, q # p, post'[q] # None PROVE FileFits(q)'
      BY <1>0, <2>2, <3>1, <3>3, FileStays DEF FilesFit
    <3>4. FilesNamed'
      BY <1>0, <2>2 DEF FilesFit, FilesNamed, Kept
    <3> QED
      BY <3>2, <3>3, <3>4 DEF FilesFit
  <2>3. CASE /\ Goes(p, "stored") /\ post[p].taken # Blank
             /\ \E audio \in {post[p].taken, draft[post[p].on]} \ {Blank} :
                  file' = [file EXCEPT ![post[p].name] = audio]
    <3>1. PICK audio \in {post[p].taken, draft[post[p].on]} \ {Blank} :
            file' = [file EXCEPT ![post[p].name] = audio]
      BY <2>3
    <3>2. /\ post'[p].phase = "stored" /\ post'[p].name = post[p].name
          /\ post'[p].confirmed = post[p].confirmed
          /\ \A q \in Posts : q # p => post'[q] = post[q]
      BY <1>0, <2>1, <2>3, Going DEF Phases
    <3>3. audio \in Drafts
      BY <1>0, <2>1, PostFields DEF TypeOK
    <3>4. audio # None
      BY <3>3, DistinctAssumption
    <3>5. p \notin disturbed => audio = post[p].confirmed
      BY <1>0, <2>1 DEF PagesFit, PageFits, Over
    <3>6. /\ file'[post[p].name] = audio
          /\ \A n \in Names : n # post[p].name => file'[n] = file[n]
      BY <1>0, <2>1, <3>1, PostFields DEF TypeOK
    <3>7. FileFits(p)'
      BY <2>1, <3>2, <3>4, <3>5, <3>6 DEF FileFits
    <3>8. ASSUME NEW q \in Posts, q # p, post'[q] # None PROVE FileFits(q)'
      <4>1. post'[q] = post[q] /\ post[q].name \in Names /\ FileFits(q)
        BY <1>0, <3>2, <3>8, PostFields DEF FilesFit
      <4>2. CASE post[q].name = post[p].name
        <5>1. ~Alone(q)'
          BY <1>0, <2>1, <3>2, <3>8, <4>1, <4>2 DEF Alone, Kept
        <5> QED
          BY <3>4, <3>6, <4>1, <4>2, <5>1 DEF FileFits
      <4>3. CASE post[q].name # post[p].name
        <5>1. file'[post'[q].name] = file[post[q].name]
          BY <3>6, <4>1, <4>3
        <5>2. Alone(q)' => Alone(q)
          BY <1>0, <3>8, <4>1, AloneBefore
        <5> QED
          BY <2>1, <4>1, <5>1, <5>2 DEF FileFits
      <4> QED
        BY <4>2, <4>3
    <3>9. FilesNamed'
      BY <1>0, <2>1, <3>2, <3>6 DEF FilesFit, FilesNamed, Kept
    <3> QED
      BY <3>7, <3>8, <3>9 DEF FilesFit
  <2> QED
    BY <1>10, <2>2, <2>3 DEF Upload
<1>11. ASSUME NEW p \in Posts, StoreDocument(p) PROVE FilesFit'
  <2>1. UNCHANGED file
    BY <1>11 DEF StoreDocument, Store
  <2>2. post[p] # None /\ post'[p].phase \in {"document", "done", "cut"}
    BY <1>0, <1>11, StoreDocumentPost
  <2>3. \A q \in Posts : q # p => post'[q] = post[q]
    BY <1>0, <1>11, StoreDocumentPost
  <2> QED
    BY <1>1, <2>1, <2>2, <2>3
<1>12. ASSUME NEW p \in Posts, UrlFails(p) PROVE FilesFit'
  <2>1. UNCHANGED file
    BY <1>12 DEF UrlFails
  <2>2. post[p] # None /\ post'[p].phase = "cut"
    BY <1>0, <1>12, UrlFailsPost
  <2>3. \A q \in Posts : q # p => post'[q] = post[q]
    BY <1>0, <1>12, UrlFailsPost
  <2> QED
    BY <1>1, <2>1, <2>2, <2>3
<1>13. ASSUME NEW d \in Devices, NEW n \in Names, DeleteAudio(d, n) PROVE FilesFit'
  <2>1. /\ UNCHANGED <<post, disturbed>> /\ deletion'[n] # "none" /\ file'[n] = None
        /\ \A m \in Names : m # n => file'[m] = file[m] /\ deletion'[m] = deletion[m]
    BY <1>0, <1>13 DEF DeleteAudio, TypeOK
  <2>2. ASSUME NEW p \in Posts, post[p] # None PROVE FileFits(p)'
    <3>1. post[p].name \in Names /\ FileFits(p) /\ (Alone(p)' => Alone(p))
      BY <1>0, <2>2, PostFields, AloneBefore DEF FilesFit
    <3> QED
      BY <2>1, <3>1 DEF FileFits
  <2>3. FilesNamed'
    BY <1>0, <2>1 DEF FilesFit, FilesNamed
  <2> QED
    BY <2>1, <2>2, <2>3 DEF FilesFit
<1>14. CASE UNCHANGED <<file, post>>
  BY <1>1, <1>14
<1> QED
  BY <1>2, <1>3, <1>4, <1>5, <1>6, <1>7, <1>8, <1>9, <1>10, <1>11, <1>12, <1>13, <1>14
     DEF Next, DeleteDocument, vars

-----------------------------------------------------------------------------
(* What was written, or is on its way, stays sound: its post is beyond the *)
(* upload, and no other has its name.                                      *)
LEMMA SoundStays ==
  ASSUME IInv, [Next]_vars, NEW n \in Names, NEW v \in Documents, Sound(n, v)
  PROVE  Sound(n, v)'
<1> DEFINE p == v.by
           FileKept == \/ deletion'[n] # "none"
                       \/ file'[n] # None /\ (Alone(p) => file'[n] = file[n])
<1>1. p \in Posts
  BY DEF Documents
<1>2. Kept /\ TypeOK /\ DeletionsGoOn
  BY KeepsStep, DeletionsStep DEF IInv
<1>3. post[p] # None /\ post[p].name = n /\ post[p].phase \in {"document", "done", "cut"}
  BY DEF Sound
<1>4. FileKept
  <2>1. CASE UNCHANGED file
    BY <1>2, <2>1 DEF Sound, DeletionsGoOn
  <2>2. ASSUME NEW q \in Posts, Upload(q)
        PROVE  FileKept
    <3>1. post[q] # None /\ post[q].phase = "upload"
      BY <2>2 DEF Upload
    <3>2. q # p
      BY <1>3, <3>1
    <3>3. Alone(p) => post[q].name # n
      BY <1>1, <1>3, <3>1, <3>2 DEF Alone
    <3>4. CASE UNCHANGED file
      BY <2>1, <3>4
    <3>5. CASE \E audio \in {post[q].taken, draft[post[q].on]} \ {Blank} :
                 file' = [file EXCEPT ![post[q].name] = audio]
      <4>1. PICK audio \in {post[q].taken, draft[post[q].on]} \ {Blank} :
              file' = [file EXCEPT ![post[q].name] = audio]
        BY <3>5
      <4>2. audio # None
        BY <1>2, <3>1, PostFields, DistinctAssumption DEF TypeOK
      <4>3. file'[n] = IF n = post[q].name THEN audio ELSE file[n]
        BY <1>2, <4>1 DEF TypeOK
      <4> QED
        BY <1>2, <3>3, <4>2, <4>3 DEF Sound, DeletionsGoOn
    <3> QED
      BY <2>2, <3>4, <3>5 DEF Upload
  <2>3. ASSUME NEW d \in Devices, NEW m \in Names, DeleteAudio(d, m) PROVE FileKept
    <3>1. file'[n] = file[n] \/ deletion'[n] = "begun"
      BY <1>2, <2>3 DEF DeleteAudio, TypeOK
    <3> QED
      BY <1>2, <3>1 DEF Sound, DeletionsGoOn
  <2> QED
    BY <2>1, <2>2, <2>3 DEF Next, LogIn, LogOut, Open, Edit, Leave, Confirm, GetPosts,
         StoreDocument, Store, UrlFails, ApplyDocument, ApplyList, Kill, DeleteDocument, server, vars
<1>5. Alone(p)' => Alone(p)
  BY <1>1, <1>2, <1>3, AloneBefore
<1>6. /\ post'[p] # None /\ post'[p].name = post[p].name
      /\ post'[p].confirmed = post[p].confirmed /\ post'[p].who = post[p].who
      /\ post'[p].phase \in {"document", "done", "cut"} /\ disturbed \subseteq disturbed'
  BY <1>1, <1>2, <1>3 DEF Kept
<1>7. deletion'[n] = "none" => deletion[n] = "none"
  BY <1>2 DEF DeletionsGoOn
<1> HIDE DEF p
<1> QED
  BY <1>3, <1>4, <1>5, <1>6, <1>7 DEF Sound, p

(* Documents are only taken away by their deletion.                        *)
LEMMA PostedStays ==
  ASSUME IInv, [Next]_vars, NEW n \in Names, Posted(n)
  PROVE  Posted(n)'
<1>0. deletion[n] = "done" => deletion'[n] = "done"
  BY DeletionsStep DEF IInv, DeletionsGoOn
<1>1. CASE UNCHANGED document
  BY <1>0, <1>1 DEF Posted
<1>2. ASSUME NEW d \in Devices, ApplyDocument(d) PROVE Posted(n)'
  <2>1. document' = [document EXCEPT ![Oldest(d).name] = Oldest(d).value]
    BY <1>2 DEF ApplyDocument
  <2>2. Oldest(d) \in Writes /\ Oldest(d).to = "document"
    BY <1>2, OldestWrite DEF ApplyDocument, IInv
  <2>3. Oldest(d).value # None
    BY <2>2, WriteFields
  <2> QED
    BY <1>0, <2>1, <2>3 DEF IInv, TypeOK, Posted
<1>3. ASSUME NEW m \in Names, DeleteDocument(m) PROVE Posted(n)'
  BY <1>0, <1>3 DEF DeleteDocument, IInv, TypeOK, Posted
<1> QED
  BY <1>1, <1>2, <1>3 DEF Next, LogIn, LogOut, Open, Edit, Leave, Confirm, GetPosts, Upload,
       StoreDocument, Store, UrlFails, ApplyList, Kill, DeleteAudio, server, vars

(* What is sound of a value is sound of the document that equals it.       *)
LEMMA SoundSame ==
  ASSUME NEW n, NEW v, v = document'[n], Sound(n, v)'
  PROVE  Sound(n, document[n])'
BY DEF Sound, Alone

LEMMA SoundStep == ASSUME IInv, [Next]_vars PROVE DocumentsSound' /\ WritesSound' /\ ListedWasPosted'
<1>0. TypeOK /\ DocumentsSound /\ WritesSound /\ ListedWasPosted /\ Kept
  BY KeepsStep DEF IInv
<1>1. ASSUME NEW w \in Writes, SoundWrite(w) PROVE SoundWrite(w)'
  <2>1. w.to = "document" => Sound(w.name, w.value)'
    BY <1>1, WriteFields, SoundStays DEF SoundWrite
  <2>2. w.to = "list" => Posted(w.name)'
    BY <1>1, WriteFields, PostedStays DEF SoundWrite
  <2> QED
    BY <2>1, <2>2 DEF SoundWrite
<1>2. ASSUME NEW c \in Queues, NEW j \in 1..Len(outbox[c]), NEW w, w = outbox[c][j]
      PROVE  w \in Writes /\ SoundWrite(w) /\ SoundWrite(w)'
  <2>1. outbox[c] \in Seq(Writes)
    BY <1>0 DEF TypeOK, Queues, Writes
  <2>2. w \in Writes
    BY <1>2, <2>1
  <2>3. SoundWrite(w)
    BY <1>0, <1>2 DEF WritesSound
  <2> QED
    BY <1>1, <2>2, <2>3
<1>3. ASSUME NEW d \in Devices, Sends(d), NEW w, w = Oldest(d)
      PROVE  w \in Writes /\ SoundWrite(w) /\ SoundWrite(w)'
  BY <1>0, <1>2, <1>3, OldestWrite
<1>4. DocumentsSound'
  <2>1. ASSUME NEW n \in Names, NEW v, v = document[n], v # None PROVE Sound(n, v)'
    BY <1>0, <2>1, SoundStays DEF DocumentsSound, TypeOK
  <2>2. CASE UNCHANGED document
    <3> SUFFICES ASSUME NEW n \in Names, document'[n] # None PROVE Sound(n, document[n])'
      BY DEF DocumentsSound
    <3>1. PICK v : v = document[n] /\ v = document'[n] /\ v # None
      BY <2>2
    <3>2. Sound(n, v)'
      BY <2>1, <3>1
    <3> QED
      BY <3>1, <3>2, SoundSame
  <2>3. ASSUME NEW d \in Devices, ApplyDocument(d) PROVE DocumentsSound'
    <3> SUFFICES ASSUME NEW n \in Names, document'[n] # None PROVE Sound(n, document[n])'
      BY DEF DocumentsSound
    <3>1. PICK w : w = Oldest(d)
      OBVIOUS
    <3>2. w.to = "document" /\ document' = [document EXCEPT ![w.name] = w.value] /\ Sends(d)
      BY <2>3, <3>1 DEF ApplyDocument
    <3>3. w \in Writes /\ Sound(w.name, w.value)'
      BY <1>3, <3>1, <3>2 DEF SoundWrite
    <3>4. CASE n = w.name
      <4>1. document'[n] = w.value
        BY <1>0, <3>2, <3>4 DEF TypeOK
      <4> QED
        BY <3>3, <3>4, <4>1, SoundSame
    <3>5. CASE n # w.name
      <4>1. PICK v : v = document[n] /\ v = document'[n] /\ v # None
        BY <1>0, <3>2, <3>5 DEF TypeOK
      <4>2. Sound(n, v)'
        BY <2>1, <4>1
      <4> QED
        BY <4>1, <4>2, SoundSame
    <3> QED
      BY <3>4, <3>5
  <2>4. ASSUME NEW m \in Names, DeleteDocument(m) PROVE DocumentsSound'
    <3> SUFFICES ASSUME NEW n \in Names, document'[n] # None PROVE Sound(n, document[n])'
      BY DEF DocumentsSound
    <3>1. PICK v : v = document[n] /\ v = document'[n] /\ v # None
      BY <1>0, <2>4 DEF DeleteDocument, TypeOK
    <3>2. Sound(n, v)'
      BY <2>1, <3>1
    <3> QED
      BY <3>1, <3>2, SoundSame
  <2> QED
    BY <2>2, <2>3, <2>4 DEF Next, LogIn, LogOut, Open, Edit, Leave, Confirm, GetPosts, Upload,
         StoreDocument, Store, UrlFails, ApplyList, Kill, DeleteAudio, server, vars
<1>5. WritesSound'
  <2> SUFFICES ASSUME NEW c \in Queues, NEW i \in 1..Len(outbox'[c])
               PROVE  SoundWrite(outbox[c][i])'
    BY DEF WritesSound
  <2>1. CASE \E j \in 1..Len(outbox[c]) : outbox'[c][i] = outbox[c][j]
    <3>1. PICK j \in 1..Len(outbox[c]) : outbox'[c][i] = outbox[c][j]
      BY <2>1
    <3>2. PICK w : w = outbox[c][j]
      OBVIOUS
    <3>3. SoundWrite(w)'
      BY <1>2, <3>2
    <3> QED
      BY <3>1, <3>2, <3>3 DEF SoundWrite, Sound, Alone, Posted
  <2>2. CASE UNCHANGED outbox
    BY <2>1, <2>2
  <2>3. ASSUME NEW d \in Devices, ApplyDocument(d) \/ ApplyList(d)
        PROVE  SoundWrite(outbox[c][i])'
    <3>1. CASE ApplyDocument(d) /\ outbox'[c][i] = ListOf(Oldest(d).value.by)
      <4>1. PICK w : w = Oldest(d)
        OBVIOUS
      <4>2. w.to = "document" /\ document' = [document EXCEPT ![w.name] = w.value] /\ Sends(d)
        BY <3>1, <4>1 DEF ApplyDocument
      <4>3. w \in Writes /\ Sound(w.name, w.value)
        BY <1>3, <4>1, <4>2 DEF SoundWrite
      <4>4. Posted(w.name)'
        BY <1>0, <4>2, <4>3, WriteFields DEF TypeOK, Posted
      <4>5. outbox'[c][i] = [to |-> "list", name |-> w.name]
        BY <3>1, <4>1, <4>3 DEF ListOf, Sound
      <4> QED
        BY <4>4, <4>5 DEF SoundWrite, Posted
    <3> QED
      BY <2>1, <2>3, <3>1, QueuesStep
  <2>4. ASSUME NEW p \in Posts, StoreDocument(p) PROVE SoundWrite(outbox[c][i])'
    <3>1. CASE /\ outbox'[c][i] = DocumentOf(p)
               /\ post'[p].phase = "document" /\ ~NoUrl(p) /\ user[post[p].on] # Nobody
      <4>1. /\ post[p] # None /\ post[p].phase \in {"stored", "failed"}
            /\ PageFits(p) /\ FileFits(p)
        BY <1>0, <2>4, StoreDocumentPost DEF IInv, PostsFit
      <4>2. UNCHANGED <<file, deletion, disturbed>>
        BY <2>4 DEF StoreDocument, Store, server
      <4>3. /\ post'[p] # None /\ post'[p].name = post[p].name
            /\ post'[p].confirmed = post[p].confirmed /\ post'[p].who = post[p].who
        BY <1>0, <4>1 DEF Kept
      <4>4. Alone(p)' => Alone(p)
        BY <1>0, <4>1, AloneBefore
      <4>5. PICK v : v = [by |-> p, owner |-> user[post[p].on],
                          title |-> post[p].taken, tags |-> draft[post[p].on]]
        OBVIOUS
      <4>6. PICK n : n = post[p].name
        OBVIOUS
      <4>7. outbox'[c][i] = [to |-> "document", name |-> n, value |-> v]
        BY <3>1, <4>5, <4>6 DEF DocumentOf
      <4>8. p \notin disturbed /\ Alone(p) =>
              /\ post[p].taken = post[p].confirmed /\ draft[post[p].on] = post[p].confirmed
              /\ file[post[p].name] = post[p].confirmed \/ deletion[post[p].name] # "none"
              /\ user[post[p].on] = post[p].who
        BY <3>1, <4>1 DEF PageFits, FileFits, NoUrl, Over
      <4>9. /\ v.by = p /\ v.owner = user[post[p].on]
            /\ v.title = post[p].taken /\ v.tags = draft[post[p].on]
        BY <4>5
      <4>10. Sound(n, v)'
        BY <3>1, <4>2, <4>3, <4>4, <4>6, <4>8, <4>9 DEF Sound, NoUrl
      <4> QED
        BY <4>7, <4>10 DEF SoundWrite, Sound, Alone, Posted
    <3> QED
      BY <2>1, <2>4, <3>1, StoresStep
  <2> QED
    BY <2>2, <2>3, <2>4 DEF Next, LogIn, LogOut, Open, Edit, Leave, Confirm, GetPosts, Upload,
                            UrlFails, Kill, DeleteAudio, DeleteDocument, vars
<1>6. ListedWasPosted'
  <2> SUFFICES ASSUME NEW u \in Users, NEW n \in posts'[u] PROVE Posted(n)'
    BY DEF ListedWasPosted, Posted
  <2>1. CASE n \in posts[u]
    <3>1. n \in Names /\ Posted(n)
      BY <1>0, <2>1 DEF ListedWasPosted, TypeOK, Posted
    <3> QED
      BY <3>1, PostedStays
  <2>2. ASSUME NEW d \in Devices, ApplyList(d), n \notin posts[u] PROVE Posted(n)'
    <3>1. PICK w : w = Oldest(d)
      OBVIOUS
    <3>2. Sends(d) /\ w.to = "list" /\ posts' = [posts EXCEPT ![user[d]] = {w.name}]
      BY <2>2, <3>1 DEF ApplyList
    <3>3. n = w.name
      BY <1>0, <2>2, <3>2 DEF TypeOK
    <3> QED
      BY <1>3, <3>1, <3>2, <3>3 DEF SoundWrite
  <2>3. CASE UNCHANGED posts
    BY <2>1, <2>3
  <2> QED
    BY <2>1, <2>2, <2>3 DEF Next, LogIn, LogOut, Open, Edit, Leave, Confirm, GetPosts, Upload,
         StoreDocument, Store, UrlFails, ApplyDocument, Kill, DeleteAudio, DeleteDocument, server, vars
<1> QED
  BY <1>4, <1>5, <1>6

-----------------------------------------------------------------------------
LEMMA InitIInv == Init => IInv
<1> SUFFICES ASSUME Init PROVE IInv
  OBVIOUS
<1>1. TypeOK
  BY MaxPagesAssumption DEF Init, TypeOK
<1>2. ShownLoggedIn /\ PostsFit /\ FilesNamed /\ DocumentsSound /\ ListedWasPosted
  BY DEF Init, ShownLoggedIn, PostsFit, FilesNamed, DocumentsSound, ListedWasPosted
<1>3. WritesSound
  BY DEF Init, WritesSound, Queues
<1> QED
  BY <1>1, <1>2, <1>3 DEF IInv

LEMMA Inductive == Spec => []IInv
<1>1. IInv /\ [Next]_vars => IInv'
  BY TypeStep, PagesStep, FilesStep, SoundStep DEF IInv, PostsFit, PagesFit, FilesFit
<1> QED
  BY <1>1, InitIInv, PTL DEF Spec

-----------------------------------------------------------------------------
(* The type invariant, for any number of users, devices and posts.         *)
THEOREM TypeCorrect == Spec => []TypeOK
<1>1. IInv => TypeOK
  BY DEF IInv
<1> QED
  BY <1>1, Inductive, PTL

(* Every post has its audio until its deletion, whatever is left, killed   *)
(* or tapped when.                                                         *)
THEOREM PostsHaveAudio == Spec => []AudioExists
<1>1. IInv => AudioExists
  BY DEF IInv, DocumentsSound, Sound, AudioExists
<1> QED
  BY <1>1, Inductive, PTL

(* A post that was left alone and has its name for itself is what its user *)
(* confirmed.                                                              *)
THEOREM ConfirmedIsPosted == Spec => []PostIsAsConfirmed
<1>1. IInv => PostIsAsConfirmed
  BY DEF IInv, DocumentsSound, Sound, Alone, PostIsAsConfirmed
<1> QED
  BY <1>1, Inductive, PTL

(* No user's list names a post that is yet to be stored: it is there, or   *)
(* was deleted, which leaves its name in the list.                         *)
THEOREM ListedWerePosted == Spec => []ListedWasPosted
<1>1. IInv => ListedWasPosted
  BY DEF IInv
<1> QED
  BY <1>1, Inductive, PTL

(* An uploaded audio gets its post unless the app is killed or the request *)
(* for its URL fails, nobody is logged in by then, or the file was deleted *)
(* with another post of that name.                                         *)
THEOREM UploadsArePosted == Spec => UploadedIsPosted
<1> DEFINE Gets(p) ==
             \/ post'[p].phase \in {"document", "cut"}
             \/ user[post[p].on] = Nobody \/ deletion[post[p].name] # "none"
           AllGet == \A p \in Posts :
             post[p] # None /\ post[p].phase = "stored" /\ post'[p].phase # "stored" => Gets(p)
<1>1. IInv /\ [Next]_vars => [AllGet]_vars
  <2> SUFFICES ASSUME IInv, [Next]_vars, NEW p \in Posts, post[p] # None,
                      post[p].phase = "stored", post'[p].phase # "stored"
               PROVE  Gets(p)
    OBVIOUS
  <2>0. TypeOK /\ WritesSound /\ ShownLoggedIn /\ FileFits(p)
    BY DEF IInv, PostsFit
  <2>1. post' # post
    OBVIOUS
  <2>2. ASSUME NEW d \in Devices, Leave(d) PROVE FALSE
    BY <2>0, <2>2, Abandoning DEF Leave
  <2>3. ASSUME NEW d \in Devices, ApplyDocument(d) PROVE FALSE
    BY <2>0, <2>3, ApplyDocumentPost DEF Sound
  <2>4. ASSUME NEW d \in Devices, Kill(d) PROVE post'[p].phase = "cut"
    BY <2>0, <2>4, KillPost
  <2>5. ASSUME NEW q \in Posts, Confirm(q) PROVE FALSE
    BY <2>0, <2>5, ConfirmPost
  <2>6. ASSUME NEW q \in Posts, GetPosts(q) PROVE FALSE
    <3>1. post[q].phase = "list"
      BY <2>6 DEF GetPosts
    <3> QED
      BY <2>0, <2>6, <3>1, GetPostsPost
  <2>7. ASSUME NEW q \in Posts, Upload(q) PROVE FALSE
    <3>1. post[q] # None /\ post[q].phase = "upload"
      BY <2>7 DEF Upload
    <3>2. PICK next \in {"stored", "failed"} : Goes(q, next)
      BY <2>7 DEF Upload
    <3> QED
      BY <2>0, <3>1, <3>2, Going DEF Phases
  <2>8. ASSUME NEW q \in Posts, StoreDocument(q)
        PROVE  Gets(p)
    <3>1. q = p
      BY <2>0, <2>8, StoreDocumentPost
    <3>2. NoUrl(p) => deletion[post[p].name] # "none"
      BY <2>0 DEF FileFits, NoUrl
    <3> QED
      BY <2>0, <2>8, <3>1, <3>2, StoreDocumentPost
  <2>9. ASSUME NEW q \in Posts, UrlFails(q) PROVE post'[p].phase = "cut"
    BY <2>0, <2>9, UrlFailsPost
  <2> QED
    BY <2>1, <2>2, <2>3, <2>4, <2>5, <2>6, <2>7, <2>8, <2>9
       DEF Next, LogIn, LogOut, Open, Edit, ApplyList, DeleteAudio, DeleteDocument, vars
<1> QED
  BY <1>1, Inductive, PTL DEF Spec, UploadedIsPosted

-----------------------------------------------------------------------------
(* Recorder: the inductive invariant                                       *)

Elems(q) == {q[i] : i \in DOMAIN q}
Calls == Starts \union Stops

(* A call waits for one answer at a time: what it has asked is in one      *)
(* queue, once.                                                            *)
OncePerQueue(q) ==
  \A i, j \in DOMAIN q : q[i][2] = q[j][2] /\ q[i][2] # NoRecorder => i = j

AskedOnce ==
  /\ \A r \in Starts : OncePerQueue(requests[r])
  /\ \A r, s \in Starts : \A x \in Elems(requests[r]) : \A y \in Elems(requests[s]) :
       x[2] = y[2] /\ x[2] # NoRecorder => r = s

(* What each request says of the call that waits for it.                   *)
RequestFits(r, x) ==
  /\ x[1] = "open" => x[2] = r /\ phase[r] = "opening"
  /\ x[1] = "start" => x[2] \in Starts /\ phase[x[2]] = "starting" /\ (x[2] = r \/ r \in crossed)
  /\ x[1] = "stop" => x[2] \in Calls /\ phase[x[2]] = "stopping"
  /\ x[1] = "close" => \/ x[2] = NoRecorder /\ ~visible
                       \/ x[2] \in Stops /\ phase[x[2]] = "closing"

RequestsFit == \A r \in Starts : \A x \in Elems(requests[r]) : RequestFits(r, x)

(* A start that has not made its recorder yet.                             *)
Fresh(r) == phase[r] \in {"idle", "stopping", "stopped", "player", "asking"} =>
  requests[r] = <<>> /\ recorder[r] = "none" /\ audioRecorder # r

(* A start that met no other call is alone while it is under way, and the  *)
(* page holds its recorder; else the page holds that of another one it     *)
(* met.                                                                    *)
StartsAlone(r) ==
  /\ phase[r] \in Waiting /\ r \notin crossed =>
       /\ InProgress = {r} /\ visible
       /\ phase[r] \in {"opening", "opened", "starting", "started"} => audioRecorder = r
  /\ phase[r] \in {"opening", "opened"} => audioRecorder \in crossed \union {r, NoRecorder}

(* Its recorder runs from before it gets the answer, and then only until   *)
(* another call, which first asks it to stop, gets any further, or until   *)
(* the page closes it.                                                     *)
RunsHeld(r) == r \notin crossed /\ recorder[r] = "recording" /\ phase[r] # "started" =>
  /\ phase[r] = "done" /\ audioRecorder = r /\ audioPath # "recorded"
  /\ visible \/ Asked(r, "close")
  /\ \A c \in InProgress : phase[c] = "stopping"
  /\ \A s \in Starts \ {r} : \A x \in Elems(requests[s]) : x[2] = NoRecorder

(* What the page holds runs only if the button says so, or a start is      *)
(* about to say so.                                                        *)
ButtonFits ==
  ~isRecording /\ audioRecorder # NoRecorder /\ recorder[audioRecorder] = "recording"
    => \E c \in Starts : phase[c] = "started"

RecorderIInv ==
  /\ RecorderTypeOK /\ AskedOnce /\ RequestsFit /\ ButtonFits
  /\ \A r \in Starts : Fresh(r) /\ StartsAlone(r) /\ RunsHeld(r)

-----------------------------------------------------------------------------
(* The queues of the recorders                                             *)

Requests == {"open", "start", "stop", "close"} \X (Starts \union Stops \union {NoRecorder})

LEMMA AskedMore ==
  ASSUME NEW q \in Seq(Requests), NEW x \in Requests
  PROVE  /\ Append(q, x) \in Seq(Requests)
         /\ Elems(Append(q, x)) = Elems(q) \union {x}
         /\ OncePerQueue(q) /\ (x[2] = NoRecorder \/ \A y \in Elems(q) : y[2] # x[2])
              => OncePerQueue(Append(q, x))
<1>. DEFINE r == Append(q, x)
            n == Len(q) + 1
<1>1. /\ r \in Seq(Requests) /\ DOMAIN r = DOMAIN q \union {n} /\ r[n] = x
      /\ \A i \in DOMAIN q : i # n /\ r[i] = q[i]
  OBVIOUS
<1>. HIDE DEF r, n
<1>2. Elems(r) = Elems(q) \union {x}
  BY <1>1 DEF Elems
<1>3. ASSUME OncePerQueue(q), x[2] = NoRecorder \/ \A y \in Elems(q) : y[2] # x[2]
      PROVE  OncePerQueue(r)
  <2>1. \A i \in DOMAIN q : x[2] = NoRecorder \/ q[i][2] # x[2]
    BY <1>3 DEF Elems
  <2>. QED BY <1>1, <1>3, <2>1 DEF OncePerQueue
<1>. QED BY <1>1, <1>2, <1>3 DEF r

LEMMA AskedLess ==
  ASSUME NEW q \in Seq(Requests), q # <<>>
  PROVE  /\ Tail(q) \in Seq(Requests) /\ Head(q) \in Requests
         /\ Elems(q) = Elems(Tail(q)) \union {Head(q)}
         /\ OncePerQueue(q) =>
              /\ OncePerQueue(Tail(q))
              /\ Head(q)[2] # NoRecorder => \A y \in Elems(Tail(q)) : y[2] # Head(q)[2]
<1>1. /\ Tail(q) \in Seq(Requests) /\ Head(q) = q[1] /\ Head(q) \in Requests /\ 1 \in DOMAIN q
      /\ \A i \in DOMAIN Tail(q) : i \in Nat /\ i + 1 \in DOMAIN q /\ i + 1 # 1 /\ Tail(q)[i] = q[i + 1]
  OBVIOUS
<1>2. \A i \in DOMAIN q : i = 1 \/ (i - 1 \in DOMAIN Tail(q) /\ Tail(q)[i - 1] = q[i])
  OBVIOUS
<1>3. Elems(q) = Elems(Tail(q)) \union {Head(q)}
  <2>1. ASSUME NEW x \in Elems(q) PROVE x \in Elems(Tail(q)) \union {Head(q)}
    BY <1>1, <1>2 DEF Elems
  <2>2. ASSUME NEW x \in Elems(Tail(q)) PROVE x \in Elems(q)
    BY <1>1 DEF Elems
  <2>3. Head(q) \in Elems(q)
    BY <1>1 DEF Elems
  <2>. QED BY <2>1, <2>2, <2>3
<1>4. ASSUME OncePerQueue(q)
      PROVE  /\ OncePerQueue(Tail(q))
             /\ Head(q)[2] # NoRecorder => \A y \in Elems(Tail(q)) : y[2] # Head(q)[2]
  <2>1. ASSUME NEW i \in DOMAIN Tail(q), NEW j \in DOMAIN Tail(q),
               Tail(q)[i][2] = Tail(q)[j][2], Tail(q)[i][2] # NoRecorder
        PROVE  i = j
    <3>1. i + 1 = j + 1
      BY <1>1, <1>4, <2>1 DEF OncePerQueue
    <3>. QED BY <1>1, <3>1
  <2>2. ASSUME Head(q)[2] # NoRecorder, NEW i \in DOMAIN Tail(q) PROVE Tail(q)[i][2] # Head(q)[2]
    BY <1>1, <1>4, <2>2 DEF OncePerQueue
  <2>. QED BY <2>1, <2>2 DEF OncePerQueue, Elems
<1>. QED BY <1>1, <1>3, <1>4

LEMMA EmptyQueue == Elems(<<>>) = {} /\ OncePerQueue(<<>>) /\ <<>> \in Seq(Requests)
BY DEF Elems, OncePerQueue

LEMMA QueuesTyped ==
  ASSUME RecorderTypeOK
  PROVE  /\ requests \in [Starts -> Seq(Requests)]
         /\ \A r \in Starts : \A x \in Elems(requests[r]) : x \in Requests
<1>1. requests \in [Starts -> Seq(Requests)]
  BY DEF RecorderTypeOK, Requests
<1>2. \A q \in Seq(Requests) : \A i \in DOMAIN q : q[i] \in Requests
  OBVIOUS
<1>. QED BY <1>1, <1>2 DEF Elems

-----------------------------------------------------------------------------
(* The steps' common parts                                                 *)

(* A call goes on.                                                         *)
LEMMA Entering ==
  ASSUME RecorderTypeOK, NEW c \in Calls, NEW p \in Waiting \union {"idle", "done"}, Enter(c, p)
  PROVE  /\ phase' \in [Starts \union Stops -> Waiting \union {"idle", "done"}]
         /\ phase'[c] = p /\ \A d \in Calls : d # c => phase'[d] = phase[d]
         /\ InProgress' = IF p \in Waiting THEN InProgress \union {c} ELSE InProgress \ {c}
<1>1. /\ phase' \in [Starts \union Stops -> Waiting \union {"idle", "done"}]
      /\ phase'[c] = p /\ \A d \in Calls : d # c => phase'[d] = phase[d]
  BY DEF RecorderTypeOK, Enter, Calls
<1>. QED BY <1>1 DEF InProgress, Calls

(* Who waits for a request's answer is under way.                          *)
LEMMA AskersWait ==
  ASSUME RecorderTypeOK, RequestsFit, NEW s \in Starts, NEW x \in Elems(requests[s])
  PROVE  /\ x \in Requests
         /\ x[2] # NoRecorder =>
              /\ x[2] \in Calls /\ x[2] \in InProgress
              /\ phase[x[2]] \in {"opening", "starting", "stopping", "closing"}
<1>1. x \in Requests /\ RequestFits(s, x)
  BY QueuesTyped DEF RequestsFit
<1>2. x[1] \in {"open", "start", "stop", "close"}
  BY <1>1 DEF Requests
<1>. QED BY <1>1, <1>2 DEF RequestFits, InProgress, Waiting, Answers, Calls

(* A request that is still there says no less than before.                 *)
LEMMA FitsStill ==
  ASSUME RecorderTypeOK, RequestsFit, NEW s \in Starts, NEW x \in Elems(requests[s]),
         x[2] \in Calls => phase'[x[2]] = phase[x[2]],
         crossed \subseteq crossed', visible' => visible
  PROVE  RequestFits(s, x)'
<1>1. x \in Requests /\ RequestFits(s, x) /\ RecorderTypeOK
  BY QueuesTyped DEF RequestsFit
<1>. QED BY <1>1 DEF RequestFits, Calls, RecorderTypeOK

(* A call that did not wait for an answer asks something.                  *)
LEMMA Asking ==
  ASSUME RecorderTypeOK, AskedOnce, NEW n \in Starts, NEW c \in Calls \union {NoRecorder},
         NEW what \in {"open", "start", "stop", "close"}, Ask(n, what, c),
         c = NoRecorder \/ \A s \in Starts : \A y \in Elems(requests[s]) : y[2] # c
  PROVE  /\ requests' \in [Starts -> Seq(Requests)] /\ AskedOnce'
         /\ \A s \in Starts \ {n} : requests'[s] = requests[s]
         /\ Elems(requests'[n]) = Elems(requests[n]) \union {<<what, c>>}
<1>. DEFINE x == <<what, c>>
            q == requests[n]
<1>1. x \in Requests /\ x[1] = what /\ x[2] = c /\ q \in Seq(Requests)
  BY QueuesTyped DEF Requests, Calls
<1>2. /\ requests' = [requests EXCEPT ![n] = Append(q, x)]
      /\ \A s \in Starts : requests'[s] = IF s = n THEN Append(q, x) ELSE requests[s]
  BY QueuesTyped DEF Ask
<1>3. OncePerQueue(q) /\ (x[2] = NoRecorder \/ \A y \in Elems(q) : y[2] # x[2])
  BY <1>1 DEF AskedOnce
<1>. HIDE DEF x, q
<1>4. /\ Append(q, x) \in Seq(Requests) /\ OncePerQueue(Append(q, x))
      /\ Elems(Append(q, x)) = Elems(q) \union {x}
  BY <1>1, <1>3, AskedMore
<1>5. requests' \in [Starts -> Seq(Requests)]
  BY <1>2, <1>4, QueuesTyped
<1>6. AskedOnce'
  <2>1. \A s \in Starts : OncePerQueue(requests'[s])
    BY <1>2, <1>4 DEF AskedOnce
  <2>2. ASSUME NEW r \in Starts, NEW s \in Starts, NEW y \in Elems(requests'[r]),
               NEW z \in Elems(requests'[s]), y[2] = z[2], y[2] # NoRecorder
        PROVE  r = s
    <3>1. /\ y \in Elems(requests[r]) \/ (r = n /\ y = x)
          /\ z \in Elems(requests[s]) \/ (s = n /\ z = x)
      BY <1>2, <1>4, <2>2 DEF q
    <3>. QED BY <1>1, <2>2, <3>1 DEF AskedOnce
  <2>. QED BY <2>1, <2>2 DEF AskedOnce
<1>. QED BY <1>2, <1>4, <1>5, <1>6 DEF x, q

(* The oldest request is carried out.                                      *)
LEMMA Answering ==
  ASSUME RecorderTypeOK, AskedOnce, NEW r \in Starts, requests[r] # <<>>,
         requests' = [requests EXCEPT ![r] = Tail(@)]
  PROVE  /\ requests' \in [Starts -> Seq(Requests)] /\ AskedOnce'
         /\ \A s \in Starts \ {r} : requests'[s] = requests[s]
         /\ \A s \in Starts : Elems(requests'[s]) \subseteq Elems(requests[s])
         /\ Head(requests[r])[2] # NoRecorder =>
              \A s \in Starts : \A x \in Elems(requests'[s]) : x[2] # Head(requests[r])[2]
<1>. DEFINE q == requests[r]
            h == Head(q)
<1>1. q \in Seq(Requests) /\ q # <<>> /\ OncePerQueue(q)
  BY QueuesTyped DEF AskedOnce
<1>2. /\ requests' = [requests EXCEPT ![r] = Tail(q)]
      /\ \A s \in Starts : requests'[s] = IF s = r THEN Tail(q) ELSE requests[s]
  BY QueuesTyped
<1>. HIDE DEF q
<1>3. /\ Tail(q) \in Seq(Requests) /\ OncePerQueue(Tail(q)) /\ h \in Requests
      /\ Elems(q) = Elems(Tail(q)) \union {h}
      /\ h[2] # NoRecorder => \A y \in Elems(Tail(q)) : y[2] # h[2]
  BY <1>1, AskedLess
<1>. HIDE DEF h
<1>4. requests' \in [Starts -> Seq(Requests)]
  BY <1>2, <1>3, QueuesTyped
<1>5. \A s \in Starts : Elems(requests'[s]) \subseteq Elems(requests[s])
  BY <1>2, <1>3 DEF q
<1>6. AskedOnce'
  <2>1. \A s \in Starts : OncePerQueue(requests'[s])
    BY <1>2, <1>3 DEF AskedOnce
  <2>2. ASSUME NEW s \in Starts, NEW t \in Starts, NEW x \in Elems(requests'[s]),
               NEW y \in Elems(requests'[t]), x[2] = y[2], x[2] # NoRecorder
        PROVE  s = t
    <3>1. x \in Elems(requests[s]) /\ y \in Elems(requests[t])
      BY <1>5, <2>2
    <3>. QED BY <2>2, <3>1 DEF AskedOnce
  <2>. QED BY <2>1, <2>2 DEF AskedOnce
<1>7. ASSUME h[2] # NoRecorder, NEW s \in Starts, NEW x \in Elems(requests'[s]) PROVE x[2] # h[2]
  <2>1. CASE s = r
    BY <1>2, <1>3, <1>7, <2>1
  <2>2. CASE s # r
    <3>1. x \in Elems(requests[s]) /\ h \in Elems(requests[r])
      BY <1>3, <1>5, <1>7 DEF q
    <3>. QED BY <1>7, <2>2, <3>1 DEF AskedOnce
  <2>. QED BY <2>1, <2>2
<1>. QED BY <1>2, <1>3, <1>4, <1>5, <1>6, <1>7 DEF q, h

(* The request that a recorder carries out: a call waits for it, or it is  *)
(* the one that the end of the page has left.                              *)
LEMMA OldestFits ==
  ASSUME RecorderTypeOK, RequestsFit, NEW r \in Starts, requests[r] # <<>>
  PROVE  /\ Head(requests[r]) \in Elems(requests[r]) /\ Head(requests[r]) \in Requests
         /\ RequestFits(r, Head(requests[r]))
<1>1. Head(requests[r]) \in Elems(requests[r]) /\ Head(requests[r]) \in Requests
  <2>1. \A q \in Seq(Requests) : q # <<>> => Head(q) = q[1] /\ 1 \in DOMAIN q /\ Head(q) \in Requests
    OBVIOUS
  <2>. QED BY <2>1, QueuesTyped DEF Elems
<1>. QED BY <1>1 DEF RequestsFit

(* While a call is under way every other start is crossed that is, too.    *)
LEMMA OthersAreCrossed ==
  ASSUME \A s \in Starts : StartsAlone(s), NEW c \in InProgress, NEW s \in Starts,
         s # c, phase[s] \in Waiting
  PROVE  s \in crossed
BY DEF StartsAlone

LEMMA AskedIs ==
  ASSUME NEW r \in Starts, NEW what
  PROVE  /\ Asked(r, what) <=> \E x \in Elems(requests[r]) : x[1] = what
         /\ Asked(r, what)' <=> \E x \in Elems(requests'[r]) : x[1] = what
BY DEF Asked, Elems

(* While a call does anything but wait for a recorder to stop, no start    *)
(* runs that met no other, but one that is alone and about to be told.     *)
LEMMA NoneRuns ==
  ASSUME RecorderIInv, NEW c \in InProgress, phase[c] \notin {"stopping", "started"}, NEW s \in Starts
  PROVE  ~(s \notin crossed /\ recorder[s] = "recording")
<1>. SUFFICES ASSUME s \notin crossed, recorder[s] = "recording" PROVE FALSE
  OBVIOUS
<1>1. phase[s] = "started"
  BY DEF RecorderIInv, RunsHeld
<1>2. InProgress = {s}
  BY <1>1 DEF RecorderIInv, StartsAlone, Waiting, Answers
<1>. QED BY <1>1, <1>2

-----------------------------------------------------------------------------
(* The steps                                                               *)

LEMMA TapStartStep ==
  ASSUME RecorderIInv, NEW c \in Starts, TapStart(c) PROVE RecorderIInv'
<1>0. /\ RecorderTypeOK /\ AskedOnce /\ RequestsFit /\ ButtonFits
      /\ \A r \in Starts : Fresh(r) /\ StartsAlone(r) /\ RunsHeld(r)
  BY DEF RecorderIInv
<1>1. /\ visible /\ ~isRecording /\ phase[c] = "idle" /\ UNCHANGED <<recordingPage, recorder>>
      /\ crossed' = IF InProgress = {} THEN crossed
                      ELSE crossed \union {c} \union (InProgress \cap Starts)
      /\ c \in Calls /\ c # NoRecorder /\ c \notin InProgress
  BY NoRecorderAssumption DEF TapStart, OffersStart, Calls, InProgress, Waiting, Answers
<1>2. PICK p \in {"stopping", "player"} :
        /\ Enter(c, p)
        /\ IF audioRecorder # NoRecorder THEN p = "stopping" /\ Ask(audioRecorder, "stop", c)
             ELSE p = "player" /\ UNCHANGED requests
  BY DEF TapStart
<1>3. /\ phase' \in [Starts \union Stops -> Waiting \union {"idle", "done"}]
      /\ phase'[c] = p /\ \A d \in Calls : d # c => phase'[d] = phase[d]
      /\ InProgress' = InProgress \union {c}
  BY <1>0, <1>1, <1>2, Entering DEF Waiting, Answers
<1>4. /\ requests' \in [Starts -> Seq(Requests)] /\ AskedOnce'
      /\ \A s \in Starts : s # audioRecorder => requests'[s] = requests[s]
      /\ \A s \in Starts : \A x \in Elems(requests'[s]) :
           \/ x \in Elems(requests[s])
           \/ s = audioRecorder /\ x = <<"stop", c>> /\ p = "stopping"
  <2>1. CASE audioRecorder # NoRecorder
    <3>1. audioRecorder \in Starts /\ phase[c] \notin {"opening", "starting", "stopping", "closing"}
      BY <1>0, <1>1, <2>1 DEF RecorderTypeOK
    <3>2. /\ requests' \in [Starts -> Seq(Requests)] /\ AskedOnce'
          /\ \A s \in Starts \ {audioRecorder} : requests'[s] = requests[s]
          /\ Elems(requests'[audioRecorder]) = Elems(requests[audioRecorder]) \union {<<"stop", c>>}
      BY <1>0, <1>1, <1>2, <2>1, <3>1, AskersWait, Asking
    <3>. QED BY <1>2, <2>1, <3>2
  <2>2. CASE audioRecorder = NoRecorder
    BY <1>0, <1>2, <2>2, QueuesTyped DEF AskedOnce
  <2>. QED BY <2>1, <2>2
<1>5. RecorderTypeOK'
  BY <1>0, <1>1, <1>3, <1>4 DEF RecorderTypeOK, recordingPage, Requests
<1>6. RequestsFit'
  <2>1. ASSUME NEW s \in Starts, NEW x \in Elems(requests[s]) PROVE RequestFits(s, x)'
    <3>1. x[2] # c
      BY <1>0, <1>1, <2>1, AskersWait
    <3>. QED BY <1>0, <1>1, <1>3, <2>1, <3>1, FitsStill DEF recordingPage
  <2>2. ASSUME NEW s \in Starts, p = "stopping" PROVE RequestFits(s, <<"stop", c>>)'
    BY <1>1, <1>3, <2>2 DEF RequestFits
  <2>. QED BY <1>4, <2>1, <2>2 DEF RequestsFit
<1>7. ButtonFits'
  <2>1. \A d \in Starts : phase[d] = "started" => phase'[d] = "started"
    BY <1>1, <1>3 DEF Calls
  <2>. QED BY <1>0, <1>1, <2>1 DEF ButtonFits, recordingPage
<1>8. ASSUME NEW r \in Starts PROVE Fresh(r)'
  <2>1. phase'[r] \in {"idle", "stopping", "stopped", "player", "asking"} =>
          phase[r] \in {"idle", "stopping", "stopped", "player", "asking"}
    BY <1>1, <1>3 DEF Calls
  <2>. QED BY <1>0, <1>1, <1>4, <2>1 DEF Fresh, recordingPage
<1>9. ASSUME NEW r \in Starts PROVE StartsAlone(r)'
  <2>1. CASE r = c
    BY <1>1, <1>3, <2>1 DEF StartsAlone, recordingPage
  <2>2. CASE r # c
    <3>1. phase'[r] = phase[r] /\ crossed \subseteq crossed'
      BY <1>1, <1>3, <2>2 DEF Calls
    <3>2. phase[r] \in Waiting => r \in crossed'
      BY <1>1, <1>9 DEF InProgress
    <3>. QED BY <1>0, <1>1, <3>1, <3>2 DEF StartsAlone, recordingPage
  <2>. QED BY <2>1, <2>2
<1>10. ASSUME NEW r \in Starts PROVE RunsHeld(r)'
  <2>1. SUFFICES ASSUME r \notin crossed', recorder'[r] = "recording" PROVE RunsHeld(r)'
    BY DEF RunsHeld
  <2>2. r \notin crossed /\ recorder[r] = "recording" /\ phase[r] # "started"
    <3>1. phase[r] = "started" => r \in InProgress
      BY DEF InProgress, Waiting, Answers
    <3>. QED BY <1>1, <2>1, <3>1
  <2>3. /\ phase[r] = "done" /\ audioRecorder = r /\ audioPath # "recorded"
        /\ \A d \in InProgress : phase[d] = "stopping"
        /\ \A s \in Starts \ {r} : \A x \in Elems(requests[s]) : x[2] = NoRecorder
    BY <1>0, <2>2 DEF RunsHeld
  <2>4. r # NoRecorder /\ r # c /\ phase'[r] = "done" /\ p = "stopping"
    BY <1>1, <1>2, <1>3, <2>3, NoRecorderAssumption DEF Calls
  <2>5. \A d \in InProgress' : phase'[d] = "stopping"
    BY <1>3, <2>3, <2>4 DEF InProgress, Calls
  <2>6. \A s \in Starts \ {r} : requests'[s] = requests[s]
    BY <1>4, <2>3
  <2>. QED BY <1>1, <2>3, <2>4, <2>5, <2>6 DEF RunsHeld, recordingPage
<1>. QED BY <1>4, <1>5, <1>6, <1>7, <1>8, <1>9, <1>10 DEF RecorderIInv

(* A call goes on that has asked no recorder, or had its answer, and does  *)
(* nothing but wait for something else, or end.                            *)
LEMMA GoesOnStep ==
  ASSUME RecorderIInv, NEW c \in Calls,
         phase[c] \in {"player", "asking", "stopped", "opened", "closed", "failed"},
         NEW p \in {"player", "asking", "done"}, Enter(c, p),
         p # "done" => phase[c] \in {"player", "asking", "stopped"},
         UNCHANGED <<recordingPage, recorder, requests, crossed>>
  PROVE  RecorderIInv'
<1>0. /\ RecorderTypeOK /\ AskedOnce /\ RequestsFit /\ ButtonFits
      /\ \A r \in Starts : Fresh(r) /\ StartsAlone(r) /\ RunsHeld(r)
      /\ UNCHANGED <<visible, isRecording, audioRecorder, audioPath, recorder, requests, crossed>>
  BY DEF RecorderIInv, recordingPage
<1>1. c \in InProgress /\ c # NoRecorder
  BY NoRecorderAssumption DEF Calls, InProgress, Waiting, Answers
<1>2. p \in Waiting \union {"idle", "done"} /\ (p # "done" => p \in Waiting)
  BY DEF Waiting, Answers
<1>3. /\ phase' \in [Starts \union Stops -> Waiting \union {"idle", "done"}]
      /\ phase'[c] = p /\ \A d \in Calls : d # c => phase'[d] = phase[d]
      /\ InProgress' \subseteq InProgress /\ (p # "done" => InProgress' = InProgress)
  BY <1>0, <1>1, <1>2, Entering
<1>4. RecorderTypeOK' /\ AskedOnce'
  BY <1>0, <1>1, <1>3 DEF RecorderTypeOK, AskedOnce
<1>5. RequestsFit'
  <2>1. ASSUME NEW s \in Starts, NEW x \in Elems(requests[s]) PROVE RequestFits(s, x)'
    <3>1. x[2] # c
      BY <1>0, <1>1, <2>1, AskersWait
    <3>. QED BY <1>0, <1>1, <1>3, <2>1, <3>1, FitsStill
  <2>. QED BY <1>0, <2>1 DEF RequestsFit
<1>6. ButtonFits'
  <2>1. \A d \in Starts : phase[d] = "started" => phase'[d] = "started"
    BY <1>3 DEF Calls
  <2>. QED BY <1>0, <2>1 DEF ButtonFits
<1>7. ASSUME NEW r \in Starts PROVE Fresh(r)'
  <2>1. phase'[r] \in {"idle", "stopping", "stopped", "player", "asking"} =>
          phase[r] \in {"idle", "stopping", "stopped", "player", "asking"}
    BY <1>3 DEF Calls
  <2>. QED BY <1>0, <2>1 DEF Fresh
<1>8. ASSUME NEW r \in Starts PROVE StartsAlone(r)'
  <2>1. CASE r = c
    <3>1. phase'[r] \in Waiting => InProgress' = InProgress /\ phase[r] \in Waiting
      BY <1>1, <1>3, <2>1 DEF Waiting, Answers, InProgress
    <3>. QED BY <1>0, <1>3, <2>1, <3>1 DEF StartsAlone
  <2>2. CASE r # c
    <3>1. phase'[r] = phase[r] /\ (phase[r] \in Waiting => r \in crossed)
      BY <1>0, <1>1, <1>3, <2>2, OthersAreCrossed DEF Calls
    <3>. QED BY <1>0, <3>1 DEF StartsAlone
  <2>. QED BY <2>1, <2>2
<1>9. ASSUME NEW r \in Starts PROVE RunsHeld(r)'
  <2>1. ~(r \notin crossed /\ recorder[r] = "recording")
    BY <1>1, NoneRuns
  <2>. QED BY <1>0, <2>1 DEF RunsHeld
<1>. QED BY <1>4, <1>5, <1>6, <1>7, <1>8, <1>9 DEF RecorderIInv

LEMMA StopPlayerStep ==
  ASSUME RecorderIInv, NEW c \in Starts, StopPlayer(c) \/ Deny(c) PROVE RecorderIInv'
BY GoesOnStep DEF StopPlayer, Deny, Calls

LEMMA PermitStep ==
  ASSUME RecorderIInv, NEW c \in Starts, Permit(c) PROVE RecorderIInv'
<1>0. /\ RecorderTypeOK /\ AskedOnce /\ RequestsFit /\ ButtonFits
      /\ \A r \in Starts : Fresh(r) /\ StartsAlone(r) /\ RunsHeld(r)
  BY DEF RecorderIInv
<1>1. /\ phase[c] = "asking" /\ Enter(c, "opening") /\ Ask(c, "open", c) /\ audioRecorder' = c
      /\ UNCHANGED <<visible, isRecording, audioPath, recorder, crossed>>
      /\ c \in Calls /\ c \in InProgress /\ c # NoRecorder
  BY NoRecorderAssumption DEF Permit, Calls, InProgress, Waiting, Answers
<1>2. /\ phase' \in [Starts \union Stops -> Waiting \union {"idle", "done"}]
      /\ phase'[c] = "opening" /\ \A d \in Calls : d # c => phase'[d] = phase[d]
      /\ InProgress' = InProgress
  BY <1>0, <1>1, Entering DEF Waiting, Answers
<1>3. /\ requests' \in [Starts -> Seq(Requests)] /\ AskedOnce'
      /\ \A s \in Starts \ {c} : requests'[s] = requests[s]
      /\ Elems(requests'[c]) = Elems(requests[c]) \union {<<"open", c>>}
      /\ \A s \in Starts : \A x \in Elems(requests[s]) : x[2] # c
  <2>1. \A s \in Starts : \A x \in Elems(requests[s]) : x[2] # c
    BY <1>0, <1>1, AskersWait
  <2>. QED BY <1>0, <1>1, <2>1, Asking
<1>4. RecorderTypeOK' /\ ButtonFits'
  <2>1. recorder[c] = "none"
    BY <1>0, <1>1 DEF Fresh
  <2>. QED BY <1>0, <1>1, <1>2, <1>3, <2>1 DEF RecorderTypeOK, ButtonFits, Requests
<1>5. RequestsFit'
  <2>1. ASSUME NEW s \in Starts, NEW x \in Elems(requests[s]) PROVE RequestFits(s, x)'
    BY <1>0, <1>1, <1>2, <1>3, <2>1, FitsStill
  <2>2. RequestFits(c, <<"open", c>>)'
    BY <1>2 DEF RequestFits
  <2>3. \A s \in Starts : \A x \in Elems(requests'[s]) :
          x \in Elems(requests[s]) \/ (s = c /\ x = <<"open", c>>)
    BY <1>3
  <2>. QED BY <2>1, <2>2, <2>3 DEF RequestsFit
<1>6. ASSUME NEW r \in Starts PROVE Fresh(r)'
  <2>1. CASE r = c
    BY <1>2, <2>1 DEF Fresh
  <2>2. CASE r # c
    <3>1. phase'[r] = phase[r] /\ requests'[r] = requests[r]
      BY <1>2, <1>3, <2>2 DEF Calls
    <3>. QED BY <1>0, <1>1, <2>2, <3>1 DEF Fresh
  <2>. QED BY <2>1, <2>2
<1>7. ASSUME NEW r \in Starts PROVE StartsAlone(r)'
  <2>1. CASE r = c
    BY <1>0, <1>1, <1>2, <2>1 DEF StartsAlone, Waiting, Answers
  <2>2. CASE r # c
    <3>1. phase'[r] = phase[r] /\ (phase[r] \in Waiting => r \in crossed)
      BY <1>0, <1>1, <1>2, <2>2, OthersAreCrossed DEF Calls
    <3>2. phase[r] \in {"opening", "opened"} => c \in crossed
      <4>1. phase[r] \in {"opening", "opened"} => r \in InProgress
        BY DEF InProgress, Waiting, Answers
      <4>. QED BY <1>0, <1>1, <2>2, <4>1, OthersAreCrossed DEF Waiting, Answers
    <3>. QED BY <1>1, <3>1, <3>2 DEF StartsAlone
  <2>. QED BY <2>1, <2>2
<1>8. ASSUME NEW r \in Starts PROVE RunsHeld(r)'
  <2>1. ~(r \notin crossed /\ recorder[r] = "recording")
    BY <1>1, NoneRuns
  <2>. QED BY <1>1, <2>1 DEF RunsHeld
<1>. QED BY <1>3, <1>4, <1>5, <1>6, <1>7, <1>8 DEF RecorderIInv

LEMMA TapStopStep ==
  ASSUME RecorderIInv, NEW c \in Stops, TapStop(c) PROVE RecorderIInv'
<1>0. /\ RecorderTypeOK /\ AskedOnce /\ RequestsFit /\ ButtonFits
      /\ \A r \in Starts : Fresh(r) /\ StartsAlone(r) /\ RunsHeld(r)
  BY DEF RecorderIInv
<1>1. /\ visible /\ phase[c] = "idle" /\ Enter(c, "stopping") /\ Ask(audioRecorder, "stop", c)
      /\ audioRecorder \in Starts /\ UNCHANGED <<recordingPage, recorder>>
      /\ crossed' = crossed \union (InProgress \cap Starts)
      /\ c \in Calls /\ c # NoRecorder /\ c \notin InProgress /\ c \notin Starts
  BY <1>0, NoRecorderAssumption, CallAssumption
  DEF TapStop, OffersStop, Calls, InProgress, Waiting, Answers, RecorderTypeOK
<1>2. /\ phase' \in [Starts \union Stops -> Waiting \union {"idle", "done"}]
      /\ phase'[c] = "stopping" /\ \A d \in Calls : d # c => phase'[d] = phase[d]
      /\ \A s \in Starts : phase'[s] = phase[s]
      /\ InProgress' = InProgress \union {c}
  BY <1>0, <1>1, Entering DEF Waiting, Answers, Calls
<1>3. /\ requests' \in [Starts -> Seq(Requests)] /\ AskedOnce'
      /\ \A s \in Starts \ {audioRecorder} : requests'[s] = requests[s]
      /\ Elems(requests'[audioRecorder]) = Elems(requests[audioRecorder]) \union {<<"stop", c>>}
      /\ \A s \in Starts : \A x \in Elems(requests[s]) : x[2] # c
  <2>1. \A s \in Starts : \A x \in Elems(requests[s]) : x[2] # c
    BY <1>0, <1>1, AskersWait
  <2>. QED BY <1>0, <1>1, <2>1, Asking
<1>4. RecorderTypeOK' /\ ButtonFits'
  <2>1. RecorderTypeOK'
    BY <1>0, <1>1, <1>2, <1>3 DEF RecorderTypeOK, Requests, recordingPage
  <2>2. ButtonFits'
    BY <1>0, <1>1, <1>2 DEF ButtonFits, recordingPage
  <2>. QED BY <2>1, <2>2
<1>5. RequestsFit'
  <2>1. ASSUME NEW s \in Starts, NEW x \in Elems(requests[s]) PROVE RequestFits(s, x)'
    BY <1>0, <1>1, <1>2, <1>3, <2>1, FitsStill DEF recordingPage
  <2>2. RequestFits(audioRecorder, <<"stop", c>>)'
    BY <1>1, <1>2 DEF RequestFits
  <2>3. \A s \in Starts : \A x \in Elems(requests'[s]) :
          x \in Elems(requests[s]) \/ (s = audioRecorder' /\ x = <<"stop", c>>)
    BY <1>1, <1>3 DEF recordingPage
  <2>. QED BY <1>1, <2>1, <2>2, <2>3 DEF RequestsFit, recordingPage
<1>6. ASSUME NEW r \in Starts PROVE Fresh(r)'
  BY <1>0, <1>1, <1>2, <1>3 DEF Fresh, recordingPage
<1>7. ASSUME NEW r \in Starts PROVE StartsAlone(r)'
  <2>1. phase[r] \in Waiting => r \in crossed'
    BY <1>1 DEF InProgress
  <2>. QED BY <1>0, <1>1, <1>2, <2>1 DEF StartsAlone, recordingPage
<1>8. ASSUME NEW r \in Starts PROVE RunsHeld(r)'
  <2>1. SUFFICES ASSUME r \notin crossed', recorder'[r] = "recording" PROVE RunsHeld(r)'
    BY DEF RunsHeld
  <2>2. r \notin crossed /\ recorder[r] = "recording" /\ phase[r] # "started"
    <3>1. phase[r] = "started" => r \in InProgress
      BY DEF InProgress, Waiting, Answers
    <3>. QED BY <1>1, <2>1, <3>1
  <2>3. /\ phase[r] = "done" /\ audioRecorder = r /\ audioPath # "recorded"
        /\ \A d \in InProgress : phase[d] = "stopping"
        /\ \A s \in Starts \ {r} : \A x \in Elems(requests[s]) : x[2] = NoRecorder
    BY <1>0, <2>2 DEF RunsHeld
  <2>4. \A d \in InProgress' : phase'[d] = "stopping"
    BY <1>1, <1>2, <2>3 DEF InProgress, Calls
  <2>. QED BY <1>1, <1>2, <1>3, <2>3, <2>4 DEF RunsHeld, recordingPage
<1>. QED BY <1>3, <1>4, <1>5, <1>6, <1>7, <1>8 DEF RecorderIInv

LEMMA PickAudioFileStep == ASSUME RecorderIInv, PickAudioFile PROVE RecorderIInv'
<1>0. /\ RecorderTypeOK /\ AskedOnce /\ RequestsFit /\ ButtonFits
      /\ \A r \in Starts : Fresh(r) /\ StartsAlone(r) /\ RunsHeld(r)
  BY DEF RecorderIInv
<1>1. /\ audioPath' = "picked"
      /\ UNCHANGED <<visible, isRecording, audioRecorder, phase, recorder, requests, crossed, InProgress>>
  BY DEF PickAudioFile, InProgress
<1>2. RecorderTypeOK' /\ AskedOnce' /\ ButtonFits'
  BY <1>0, <1>1 DEF RecorderTypeOK, AskedOnce, ButtonFits
<1>3. RequestsFit'
  BY <1>0, <1>1 DEF RequestsFit, RequestFits
<1>4. ASSUME NEW r \in Starts PROVE Fresh(r)' /\ StartsAlone(r)' /\ RunsHeld(r)'
  <2>1. Fresh(r)' /\ StartsAlone(r)'
    BY <1>0, <1>1 DEF Fresh, StartsAlone
  <2>2. RunsHeld(r)'
    BY <1>0, <1>1 DEF RunsHeld, Asked
  <2>. QED BY <2>1, <2>2
<1>. QED BY <1>2, <1>3, <1>4 DEF RecorderIInv

LEMMA DisposeStep == ASSUME RecorderIInv, Dispose PROVE RecorderIInv'
<1>0. /\ RecorderTypeOK /\ AskedOnce /\ RequestsFit /\ ButtonFits
      /\ \A r \in Starts : Fresh(r) /\ StartsAlone(r) /\ RunsHeld(r)
  BY DEF RecorderIInv
<1>1. /\ visible' = FALSE /\ audioPath' = "none" /\ crossed' = crossed \union (InProgress \cap Starts)
      /\ UNCHANGED <<isRecording, audioRecorder, phase, recorder, InProgress>>
  BY DEF Dispose, InProgress
<1>2. /\ requests' \in [Starts -> Seq(Requests)] /\ AskedOnce'
      /\ \A s \in Starts : s # audioRecorder => requests'[s] = requests[s]
      /\ \A s \in Starts : \A x \in Elems(requests'[s]) :
           x \in Elems(requests[s]) \/ x = <<"close", NoRecorder>>
      /\ audioRecorder \in Starts => <<"close", NoRecorder>> \in Elems(requests'[audioRecorder])
  <2>1. CASE audioRecorder # NoRecorder
    <3>1. audioRecorder \in Starts /\ Ask(audioRecorder, "close", NoRecorder)
      BY <1>0, <2>1 DEF RecorderTypeOK, Dispose
    <3>2. /\ requests' \in [Starts -> Seq(Requests)] /\ AskedOnce'
          /\ \A s \in Starts \ {audioRecorder} : requests'[s] = requests[s]
          /\ Elems(requests'[audioRecorder])
               = Elems(requests[audioRecorder]) \union {<<"close", NoRecorder>>}
      BY <1>0, <3>1, Asking
    <3>. QED BY <3>1, <3>2
  <2>2. CASE audioRecorder = NoRecorder
    BY <1>0, <2>2, QueuesTyped, NoRecorderAssumption DEF AskedOnce, Dispose
  <2>. QED BY <2>1, <2>2
<1>3. RecorderTypeOK' /\ ButtonFits'
  BY <1>0, <1>1, <1>2 DEF RecorderTypeOK, ButtonFits, Requests
<1>4. RequestsFit'
  <2>1. ASSUME NEW s \in Starts, NEW x \in Elems(requests[s]) PROVE RequestFits(s, x)'
    BY <1>0, <1>1, <2>1, FitsStill
  <2>2. \A s \in Starts : RequestFits(s, <<"close", NoRecorder>>)'
    BY <1>1 DEF RequestFits
  <2>. QED BY <1>2, <2>1, <2>2 DEF RequestsFit
<1>5. ASSUME NEW r \in Starts PROVE Fresh(r)' /\ StartsAlone(r)'
  <2>1. phase[r] \in Waiting => r \in crossed'
    BY <1>1 DEF InProgress
  <2>2. Fresh(r)'
    BY <1>0, <1>1, <1>2 DEF Fresh
  <2>. QED BY <1>0, <1>1, <2>1, <2>2 DEF StartsAlone
<1>6. ASSUME NEW r \in Starts PROVE RunsHeld(r)'
  <2>1. SUFFICES ASSUME r \notin crossed', recorder'[r] = "recording" PROVE RunsHeld(r)'
    BY DEF RunsHeld
  <2>2. r \notin crossed /\ recorder[r] = "recording" /\ phase[r] # "started"
    <3>1. phase[r] = "started" => r \in InProgress
      BY DEF InProgress, Waiting, Answers
    <3>. QED BY <1>1, <2>1, <3>1
  <2>3. /\ phase[r] = "done" /\ audioRecorder = r
        /\ \A d \in InProgress : phase[d] = "stopping"
        /\ \A s \in Starts \ {r} : \A x \in Elems(requests[s]) : x[2] = NoRecorder
    BY <1>0, <2>2 DEF RunsHeld
  <2>4. Asked(r, "close")'
    <3>1. <<"close", NoRecorder>> \in Elems(requests'[r])
      BY <1>2, <2>3
    <3>. QED BY <3>1, AskedIs
  <2>. QED BY <1>1, <1>2, <2>3, <2>4 DEF RunsHeld
<1>. QED BY <1>2, <1>3, <1>4, <1>5, <1>6 DEF RecorderIInv

-----------------------------------------------------------------------------
(* A recorder carries out its oldest request: of who waited for that only  *)
(* the answer is recorded.                                                 *)

(* The requests that are left say what they did.                           *)
LEMMA OthersFit ==
  ASSUME RecorderIInv, NEW c, \A d \in Calls : d # c => phase'[d] = phase[d],
         UNCHANGED <<visible, crossed>>, NEW s \in Starts, NEW x \in Elems(requests[s]), x[2] # c
  PROVE  RequestFits(s, x)'
BY FitsStill DEF RecorderIInv

(* It closes, after the end of the page: nobody waits.                     *)
LEMMA CloseAloneStep ==
  ASSUME RecorderIInv, NEW r \in Starts, requests[r] # <<>>,
         requests' = [requests EXCEPT ![r] = Tail(@)], Head(requests[r])[2] = NoRecorder,
         recorder' = [recorder EXCEPT
           ![r] = IF recorder[r] \in {"open", "recording"} THEN "closed" ELSE recorder[r]],
         UNCHANGED <<recordingPage, phase, crossed>>
  PROVE  RecorderIInv'
<1>0. /\ RecorderTypeOK /\ AskedOnce /\ RequestsFit /\ ButtonFits
      /\ \A s \in Starts : Fresh(s) /\ StartsAlone(s) /\ RunsHeld(s)
  BY DEF RecorderIInv
<1>1. UNCHANGED <<visible, isRecording, audioRecorder, audioPath, phase, crossed, InProgress>>
  BY DEF recordingPage, InProgress
<1>2. /\ requests' \in [Starts -> Seq(Requests)] /\ AskedOnce'
      /\ \A s \in Starts \ {r} : requests'[s] = requests[s]
      /\ \A s \in Starts : Elems(requests'[s]) \subseteq Elems(requests[s])
  BY <1>0, Answering
<1>3. /\ recorder' \in [Starts -> {"none", "open", "recording", "closed"}]
      /\ \A s \in Starts : recorder'[s] = "recording" => s # r /\ recorder[s] = "recording"
      /\ \A s \in Starts : s # r => recorder'[s] = recorder[s]
  BY <1>0 DEF RecorderTypeOK
<1>4. RecorderTypeOK' /\ ButtonFits'
  BY <1>0, <1>1, <1>2, <1>3 DEF RecorderTypeOK, ButtonFits, Requests
<1>5. RequestsFit'
  BY <1>0, <1>1, <1>2 DEF RequestsFit, RequestFits
<1>6. ASSUME NEW s \in Starts PROVE Fresh(s)' /\ StartsAlone(s)' /\ RunsHeld(s)'
  <2>1. Fresh(s)' /\ StartsAlone(s)'
    BY <1>0, <1>1, <1>2, <1>3 DEF Fresh, StartsAlone
  <2>2. s # r => (Asked(s, "close") => Asked(s, "close")')
    BY <1>1, <1>2 DEF Asked
  <2>3. RunsHeld(s)'
    BY <1>0, <1>1, <1>2, <1>3, <2>2 DEF RunsHeld
  <2>. QED BY <2>1, <2>3
<1>. QED BY <1>2, <1>4, <1>5, <1>6 DEF RecorderIInv

(* It answers a call: with what it has done for it, or that it failed.     *)
Carries(r, what, state, a) ==
  \/ what = "open" /\ state = "open" /\ a = "opened"
  \/ what = "start" /\ state = "recording" /\ a = "started"
  \/ what = "stop" /\ state = "open" /\ a = "stopped"
  \/ what = "close" /\ state # "recording" /\ a = "closed"
  \/ what \in {"open", "start"} /\ state = recorder[r] /\ a = "failed"
  \/ what = "stop" /\ state = recorder[r] /\ state # "recording" /\ a = "failed"

LEMMA AnswerStep ==
  ASSUME RecorderIInv, NEW r \in Starts, requests[r] # <<>>,
         requests' = [requests EXCEPT ![r] = Tail(@)],
         NEW c, c = Head(requests[r])[2], c # NoRecorder,
         NEW a \in Answers, Enter(c, a),
         NEW state \in {"none", "open", "recording", "closed"},
         recorder' = [recorder EXCEPT ![r] = state],
         Carries(r, Head(requests[r])[1], state, a), UNCHANGED <<recordingPage, crossed>>
  PROVE  RecorderIInv'
<1>. DEFINE what == Head(requests[r])[1]
<1>0. /\ RecorderTypeOK /\ AskedOnce /\ RequestsFit /\ ButtonFits
      /\ \A s \in Starts : Fresh(s) /\ StartsAlone(s) /\ RunsHeld(s)
      /\ UNCHANGED <<visible, isRecording, audioRecorder, audioPath, crossed>>
  BY DEF RecorderIInv, recordingPage
<1>1. /\ Head(requests[r]) \in Elems(requests[r]) /\ RequestFits(r, Head(requests[r]))
      /\ what \in {"open", "start", "stop", "close"}
  BY <1>0, OldestFits DEF Requests
<1>2. /\ c \in Calls /\ c \in InProgress /\ phase[c] \in {"opening", "starting", "stopping", "closing"}
      /\ what = "open" => c = r /\ phase[r] = "opening"
      /\ what = "start" => c \in Starts /\ phase[c] = "starting" /\ (c = r \/ r \in crossed)
      /\ what = "stop" => phase[c] = "stopping"
      /\ what = "close" => phase[c] = "closing"
  BY <1>0, <1>1, AskersWait DEF RequestFits
<1>3. /\ phase' \in [Starts \union Stops -> Waiting \union {"idle", "done"}]
      /\ phase'[c] = a /\ \A d \in Calls : d # c => phase'[d] = phase[d]
      /\ InProgress' = InProgress
  <2>1. a \in Waiting
    BY DEF Waiting
  <2>2. InProgress \union {c} = InProgress
    BY <1>2
  <2>. QED BY <1>0, <1>2, <2>1, <2>2, Entering
<1>4. /\ requests' \in [Starts -> Seq(Requests)] /\ AskedOnce'
      /\ \A s \in Starts \ {r} : requests'[s] = requests[s]
      /\ \A s \in Starts : Elems(requests'[s]) \subseteq Elems(requests[s])
      /\ \A s \in Starts : \A x \in Elems(requests'[s]) : x[2] # c
  BY <1>0, Answering
<1>5. /\ recorder' \in [Starts -> {"none", "open", "recording", "closed"}]
      /\ recorder'[r] = state /\ \A s \in Starts \ {r} : recorder'[s] = recorder[s]
  BY <1>0 DEF RecorderTypeOK
<1>. HIDE DEF what
<1>6. RecorderTypeOK'
  BY <1>0, <1>3, <1>4, <1>5 DEF RecorderTypeOK, Requests
<1>7. RequestsFit'
  <2>1. ASSUME NEW s \in Starts, NEW x \in Elems(requests[s]), x[2] # c PROVE RequestFits(s, x)'
    BY <1>0, <1>3, <2>1, OthersFit
  <2>. QED BY <1>4, <2>1 DEF RequestsFit
<1>8. ASSUME NEW s \in Starts, recorder'[s] = "recording"
      PROVE  recorder[s] = "recording" \/ (s = r /\ c \in Starts /\ phase'[c] = "started" /\ (c = r \/ r \in crossed))
  <2>1. s # r \/ state = "recording"
    BY <1>5, <1>8
  <2>2. state = "recording" => state = recorder[r] \/ (what = "start" /\ a = "started")
    BY DEF Carries, what
  <2>. QED BY <1>2, <1>3, <1>5, <1>8, <2>1, <2>2
<1>9. ButtonFits'
  <2>1. \A d \in Starts : phase[d] = "started" => phase'[d] = "started"
    BY <1>2, <1>3 DEF Calls
  <2>2. audioRecorder # NoRecorder => audioRecorder \in Starts
    BY <1>0 DEF RecorderTypeOK
  <2>. QED BY <1>0, <1>8, <2>1, <2>2 DEF ButtonFits
<1>10. ASSUME NEW s \in Starts PROVE Fresh(s)'
  <2>1. SUFFICES ASSUME phase'[s] \in {"idle", "stopping", "stopped", "player", "asking"} PROVE Fresh(s)'
    BY DEF Fresh
  <2>2. a = "stopped" => phase[c] = "stopping"
    BY <1>2 DEF Carries, what
  <2>3. phase[s] \in {"idle", "stopping", "stopped", "player", "asking"}
    <3>1. CASE s = c
      <4>1. a = "stopped"
        BY <1>3, <2>1, <3>1 DEF Answers
      <4>. QED BY <2>2, <3>1, <4>1
    <3>2. CASE s # c
      BY <1>3, <2>1, <3>2 DEF Calls
    <3>. QED BY <3>1, <3>2
  <2>4. s # r /\ requests[s] = <<>> /\ recorder[s] = "none" /\ audioRecorder # s
    BY <1>0, <2>3 DEF Fresh
  <2>. QED BY <1>0, <1>4, <1>5, <2>4 DEF Fresh
<1>11. ASSUME NEW s \in Starts PROVE StartsAlone(s)'
  <2>1. /\ phase'[s] \in Waiting => phase[s] \in Waiting
        /\ phase'[s] \in {"opening", "opened"} => phase[s] \in {"opening", "opened"}
        /\ phase'[s] \in {"opening", "opened", "starting", "started"} =>
             phase[s] \in {"opening", "opened", "starting", "started"}
    <3>1. CASE s = c
      <4>1. phase[s] \in Waiting
        BY <1>2, <3>1 DEF Waiting
      <4>2. a = "opened" => phase[c] = "opening"
        BY <1>2 DEF Carries, what
      <4>3. a = "started" => phase[c] = "starting"
        BY <1>2 DEF Carries, what
      <4>. QED BY <1>3, <3>1, <4>1, <4>2, <4>3 DEF Answers
    <3>2. CASE s # c
      BY <1>3, <3>2 DEF Calls
    <3>. QED BY <3>1, <3>2
  <2>. QED BY <1>0, <1>3, <2>1 DEF StartsAlone
<1>12. ASSUME NEW s \in Starts PROVE RunsHeld(s)'
  <2>1. SUFFICES ASSUME s \notin crossed, recorder'[s] = "recording", phase'[s] # "started" PROVE FALSE
    BY <1>0 DEF RunsHeld
  <2>2. recorder[s] = "recording"
    BY <1>8, <2>1
  <2>3. phase[s] # "started"
    BY <1>2, <1>3, <2>1 DEF Calls
  <2>4. /\ \A d \in InProgress : phase[d] = "stopping"
        /\ \A t \in Starts \ {s} : \A x \in Elems(requests[t]) : x[2] = NoRecorder
    BY <1>0, <2>1, <2>2, <2>3 DEF RunsHeld
  <2>5. s = r /\ what = "stop"
    BY <1>1, <1>2, <2>4
  <2>6. state # "recording"
    BY <2>5 DEF Carries, what
  <2>. QED BY <1>5, <2>1, <2>5, <2>6
<1>. QED BY <1>4, <1>6, <1>7, <1>9, <1>10, <1>11, <1>12 DEF RecorderIInv

LEMMA CarryStep == ASSUME RecorderIInv, NEW r \in Starts, Carry(r) PROVE RecorderIInv'
<1>. DEFINE what == Head(requests[r])[1]
            c == Head(requests[r])[2]
            usable == recorder[r] \in {"open", "recording"}
            Becomes(state) == recorder' = [recorder EXCEPT ![r] = state]
            kept == IF usable THEN "closed" ELSE recorder[r]
<1>1. /\ requests[r] # <<>> /\ requests' = [requests EXCEPT ![r] = Tail(@)]
      /\ UNCHANGED <<recordingPage, crossed>>
      /\ RecorderTypeOK /\ RequestsFit
  BY DEF Carry, RecorderIInv
<1>2. \/ what = "open" /\ Becomes("open") /\ Answer(c, "opened")
      \/ what = "start" /\ usable /\ Becomes("recording") /\ Answer(c, "started")
      \/ what = "stop" /\ usable /\ Becomes("open") /\ Answer(c, "stopped")
      \/ what = "close" /\ Answer(c, "closed") /\ Becomes(kept)
      \/ /\ what \in {"open", "start"} \/ (what = "stop" /\ ~usable)
         /\ UNCHANGED recorder /\ Answer(c, "failed")
  BY DEF Carry
<1>3. /\ recorder[r] \in {"none", "open", "recording", "closed"}
      /\ UNCHANGED recorder => Becomes(recorder[r])
      /\ kept \in {"none", "open", "recording", "closed"} /\ kept # "recording"
  BY <1>1 DEF RecorderTypeOK
<1>4. c = NoRecorder => what = "close"
  <2>1. RequestFits(r, Head(requests[r])) /\ what \in {"open", "start", "stop", "close"}
    BY <1>1, OldestFits DEF Requests
  <2>. QED BY <2>1, NoRecorderAssumption DEF RequestFits, Calls
<1>5. CASE c = NoRecorder
  <2>1. Becomes(kept) /\ UNCHANGED phase
    BY <1>2, <1>4, <1>5 DEF Answer
  <2>. QED BY <1>1, <1>5, <2>1, CloseAloneStep
<1>6. CASE c # NoRecorder
  <2>1. PICK a \in Answers, state \in {"none", "open", "recording", "closed"} :
          Enter(c, a) /\ Becomes(state) /\ Carries(r, what, state, a)
    <3>1. CASE what = "close" /\ Answer(c, "closed") /\ Becomes(kept)
      <4>1. "closed" \in Answers /\ Enter(c, "closed") /\ Carries(r, what, kept, "closed")
        BY <1>3, <1>6, <3>1 DEF Answers, Answer, Carries
      <4>. QED BY <1>3, <3>1, <4>1
    <3>2. CASE /\ what \in {"open", "start"} \/ (what = "stop" /\ ~usable)
               /\ UNCHANGED recorder /\ Answer(c, "failed")
      <4>1. "failed" \in Answers /\ Enter(c, "failed") /\ Carries(r, what, recorder[r], "failed")
        BY <1>6, <3>2 DEF Answers, Answer, Carries
      <4>. QED BY <1>3, <3>2, <4>1
    <3>3. CASE what = "open" /\ Becomes("open") /\ Answer(c, "opened")
      BY <1>6, <3>3 DEF Answers, Answer, Carries
    <3>4. CASE what = "start" /\ usable /\ Becomes("recording") /\ Answer(c, "started")
      BY <1>6, <3>4 DEF Answers, Answer, Carries
    <3>5. CASE what = "stop" /\ usable /\ Becomes("open") /\ Answer(c, "stopped")
      BY <1>6, <3>5 DEF Answers, Answer, Carries
    <3>. QED BY <1>2, <3>1, <3>2, <3>3, <3>4, <3>5
  <2>. HIDE DEF c, what
  <2>2. c = Head(requests[r])[2] /\ what = Head(requests[r])[1]
    BY DEF c, what
  <2>. QED BY <1>1, <1>6, <2>1, <2>2, AnswerStep
<1>. QED BY <1>5, <1>6

-----------------------------------------------------------------------------
(* The answer reaches a call, which goes on.                               *)

(* The call is done, or asks the next: what that leaves to be shown of the *)
(* other starts.                                                           *)
LEMMA OthersStay ==
  ASSUME RecorderIInv, NEW c \in InProgress, \A d \in Calls : d # c => phase'[d] = phase[d],
         UNCHANGED <<visible, crossed>>, audioRecorder' \in {audioRecorder, NoRecorder},
         NEW s \in Starts, s # c
  PROVE  StartsAlone(s)'
<1>1. phase'[s] = phase[s] /\ (phase[s] \in Waiting => s \in crossed)
  BY OthersAreCrossed DEF RecorderIInv, Calls
<1>. QED BY <1>1 DEF StartsAlone, RecorderIInv

(* A start asks the recorder in the field to start, a stop to close.       *)
LEMMA AskNextStep ==
  ASSUME RecorderIInv, NEW c \in Calls, NEW what, NEW next, AskNext(c, what, next),
         \/ c \in Starts /\ phase[c] = "opened" /\ what = "start" /\ next = "starting"
         \/ c \in Stops /\ phase[c] = "stopped" /\ what = "close" /\ next = "closing"
  PROVE  RecorderIInv'
<1>0. /\ RecorderTypeOK /\ AskedOnce /\ RequestsFit /\ ButtonFits
      /\ \A s \in Starts : Fresh(s) /\ StartsAlone(s) /\ RunsHeld(s)
  BY DEF RecorderIInv
<1>1. CASE audioRecorder = NoRecorder
  BY <1>1, GoesOnStep DEF AskNext
<1>2. CASE audioRecorder # NoRecorder
  <2>1. /\ audioRecorder \in Starts /\ Enter(c, next) /\ Ask(audioRecorder, what, c)
        /\ UNCHANGED <<visible, isRecording, audioRecorder, audioPath, recorder, crossed>>
        /\ next \in {"starting", "closing"} /\ what \in {"start", "close"}
        /\ c # NoRecorder /\ c \in InProgress
    BY <1>0, <1>2, NoRecorderAssumption
    DEF AskNext, RecorderTypeOK, recordingPage, Calls, InProgress, Waiting, Answers
  <2>2. /\ phase' \in [Starts \union Stops -> Waiting \union {"idle", "done"}]
        /\ phase'[c] = next /\ \A d \in Calls : d # c => phase'[d] = phase[d]
        /\ InProgress' = InProgress
    <3>1. next \in Waiting
      BY <2>1 DEF Waiting
    <3>2. InProgress \union {c} = InProgress
      BY <2>1
    <3>. QED BY <1>0, <2>1, <3>1, <3>2, Entering
  <2>3. /\ requests' \in [Starts -> Seq(Requests)] /\ AskedOnce'
        /\ \A s \in Starts \ {audioRecorder} : requests'[s] = requests[s]
        /\ Elems(requests'[audioRecorder]) = Elems(requests[audioRecorder]) \union {<<what, c>>}
        /\ \A s \in Starts : \A x \in Elems(requests[s]) : x[2] # c
    <3>1. \A s \in Starts : \A x \in Elems(requests[s]) : x[2] # c
      BY <1>0, <2>1, AskersWait
    <3>2. /\ audioRecorder \in Starts /\ Ask(audioRecorder, what, c)
          /\ c \in Calls \union {NoRecorder} /\ what \in {"open", "start", "stop", "close"}
      BY <2>1
    <3>3. /\ requests' \in [Starts -> Seq(Requests)] /\ AskedOnce'
          /\ \A s \in Starts \ {audioRecorder} : requests'[s] = requests[s]
          /\ Elems(requests'[audioRecorder]) = Elems(requests[audioRecorder]) \union {<<what, c>>}
      BY <1>0, <3>1, <3>2, Asking
    <3>. QED BY <3>1, <3>3
  <2>4. RecorderTypeOK'
    BY <1>0, <2>1, <2>2, <2>3 DEF RecorderTypeOK, Requests
  <2>5. RequestsFit'
    <3>1. ASSUME NEW s \in Starts, NEW x \in Elems(requests[s]) PROVE RequestFits(s, x)'
      BY <1>0, <2>1, <2>2, <2>3, <3>1, FitsStill
    <3>2. what = "start" => c = audioRecorder \/ audioRecorder \in crossed
      BY <1>0, <2>1, NoRecorderAssumption DEF StartsAlone
    <3>3. RequestFits(audioRecorder, <<what, c>>)'
      BY <2>1, <2>2, <3>2 DEF RequestFits
    <3>4. \A s \in Starts : \A x \in Elems(requests'[s]) :
            x \in Elems(requests[s]) \/ (s = audioRecorder' /\ x = <<what, c>>)
      BY <2>1, <2>3
    <3>. QED BY <2>1, <3>1, <3>3, <3>4 DEF RequestsFit
  <2>6. ButtonFits'
    <3>1. \A d \in Starts : phase[d] = "started" => phase'[d] = "started"
      BY <2>2 DEF Calls
    <3>. QED BY <1>0, <2>1, <3>1 DEF ButtonFits
  <2>7. ASSUME NEW s \in Starts PROVE Fresh(s)'
    <3>1. SUFFICES ASSUME phase'[s] \in {"idle", "stopping", "stopped", "player", "asking"}
                   PROVE  Fresh(s)'
      BY DEF Fresh
    <3>2. s # c /\ phase'[s] = phase[s]
      BY <2>1, <2>2, <3>1 DEF Calls
    <3>3. requests[s] = <<>> /\ recorder[s] = "none" /\ audioRecorder # s
      BY <1>0, <3>1, <3>2 DEF Fresh
    <3>. QED BY <2>1, <2>3, <3>3 DEF Fresh
  <2>8. ASSUME NEW s \in Starts PROVE StartsAlone(s)'
    <3>1. CASE s = c
      <4>1. phase[c] = "opened" /\ next = "starting"
        BY <3>1, CallAssumption
      <4>2. s \notin crossed => InProgress = {s} /\ visible /\ audioRecorder = s
        BY <1>0, <3>1, <4>1 DEF StartsAlone, Waiting, Answers
      <4>. QED BY <2>1, <2>2, <3>1, <4>1, <4>2 DEF StartsAlone
    <3>2. CASE s # c
      BY <2>1, <2>2, <3>2, OthersStay
    <3>. QED BY <3>1, <3>2
  <2>9. ASSUME NEW s \in Starts PROVE RunsHeld(s)'
    <3>1. ~(s \notin crossed /\ recorder[s] = "recording")
      BY <2>1, NoneRuns
    <3>. QED BY <2>1, <3>1 DEF RunsHeld
  <2>. QED BY <2>3, <2>4, <2>5, <2>6, <2>7, <2>8, <2>9 DEF RecorderIInv
<1>. QED BY <1>1, <1>2

(* A start hears that the recorder runs.                                   *)
LEMMA StartedStep == ASSUME RecorderIInv, NEW c \in Starts, Started(c) PROVE RecorderIInv'
<1>0. /\ RecorderTypeOK /\ AskedOnce /\ RequestsFit /\ ButtonFits
      /\ \A s \in Starts : Fresh(s) /\ StartsAlone(s) /\ RunsHeld(s)
  BY DEF RecorderIInv
<1>1. /\ phase[c] = "started" /\ Enter(c, "done") /\ audioPath' = "none" /\ isRecording' = TRUE
      /\ UNCHANGED <<visible, audioRecorder, recorder, requests, crossed>>
      /\ c \in Calls /\ c # NoRecorder /\ c \in InProgress
  BY NoRecorderAssumption DEF Started, Calls, InProgress, Waiting, Answers
<1>2. /\ phase' \in [Starts \union Stops -> Waiting \union {"idle", "done"}]
      /\ phase'[c] = "done" /\ \A d \in Calls : d # c => phase'[d] = phase[d]
      /\ InProgress' = InProgress \ {c}
  <2>1. "done" \notin Waiting
    BY DEF Waiting, Answers
  <2>. QED BY <1>0, <1>1, <2>1, Entering
<1>3. RecorderTypeOK' /\ AskedOnce'
  BY <1>0, <1>1, <1>2 DEF RecorderTypeOK, AskedOnce
<1>4. ButtonFits'
  BY <1>1 DEF ButtonFits
<1>5. \A s \in Starts : \A x \in Elems(requests[s]) : x[2] # c
  BY <1>0, <1>1, AskersWait
<1>6. RequestsFit'
  <2>1. ASSUME NEW s \in Starts, NEW x \in Elems(requests[s]) PROVE RequestFits(s, x)'
    BY <1>0, <1>1, <1>2, <1>5, <2>1, FitsStill
  <2>. QED BY <1>1, <2>1 DEF RequestsFit
<1>7. ASSUME NEW s \in Starts PROVE Fresh(s)' /\ StartsAlone(s)'
  <2>1. CASE s = c
    <3>1. phase'[s] = "done" /\ "done" \notin Waiting
      BY <1>2, <2>1 DEF Waiting, Answers
    <3>. QED BY <3>1 DEF Fresh, StartsAlone
  <2>2. CASE s # c
    <3>1. Fresh(s)'
      BY <1>0, <1>1, <1>2, <2>2 DEF Fresh, Calls
    <3>2. StartsAlone(s)'
      BY <1>1, <1>2, <2>2, OthersStay
    <3>. QED BY <3>1, <3>2
  <2>. QED BY <2>1, <2>2
<1>8. ASSUME NEW s \in Starts PROVE RunsHeld(s)'
  <2>1. SUFFICES ASSUME s \notin crossed, recorder[s] = "recording" PROVE RunsHeld(s)'
    BY <1>1 DEF RunsHeld
  <2>2. s = c /\ InProgress = {c} /\ visible /\ audioRecorder = c
    <3>1. phase[s] = "started"
      BY <1>0, <1>1, <2>1 DEF RunsHeld
    <3>. QED BY <1>0, <1>1, <2>1, <3>1 DEF StartsAlone, Waiting, Answers
  <2>3. InProgress' = {}
    BY <1>2, <2>2
  <2>4. \A t \in Starts : \A x \in Elems(requests[t]) : x[2] = NoRecorder
    BY <1>0, <1>5, <2>2, AskersWait
  <2>. QED BY <1>1, <1>2, <2>2, <2>3, <2>4 DEF RunsHeld
<1>. QED BY <1>3, <1>4, <1>6, <1>7, <1>8 DEF RecorderIInv

(* A stop hears that the recorder is closed.                               *)
LEMMA ClosedStep == ASSUME RecorderIInv, NEW c \in Stops, Closed(c) PROVE RecorderIInv'
<1>0. /\ RecorderTypeOK /\ AskedOnce /\ RequestsFit /\ ButtonFits
      /\ \A s \in Starts : Fresh(s) /\ StartsAlone(s) /\ RunsHeld(s)
  BY DEF RecorderIInv
<1>1. /\ phase[c] = "closed" /\ Enter(c, "done")
      /\ audioRecorder' = NoRecorder /\ audioPath' = "recorded" /\ isRecording' = FALSE
      /\ UNCHANGED <<visible, recorder, requests, crossed>>
      /\ c \in Calls /\ c # NoRecorder /\ c \in InProgress
  BY NoRecorderAssumption DEF Closed, Calls, InProgress, Waiting, Answers
<1>2. /\ phase' \in [Starts \union Stops -> Waiting \union {"idle", "done"}]
      /\ phase'[c] = "done" /\ \A d \in Calls : d # c => phase'[d] = phase[d]
      /\ \A s \in Starts : s # c /\ phase'[s] = phase[s]
  <2>1. /\ phase' \in [Starts \union Stops -> Waiting \union {"idle", "done"}]
        /\ phase'[c] = "done" /\ \A d \in Calls : d # c => phase'[d] = phase[d]
    BY <1>0, <1>1, Entering
  <2>2. \A s \in Starts : s \in Calls /\ s # c
    BY CallAssumption DEF Calls
  <2>. QED BY <2>1, <2>2
<1>3. RecorderTypeOK' /\ AskedOnce' /\ ButtonFits'
  <2>1. RecorderTypeOK'
    BY <1>0, <1>1, <1>2 DEF RecorderTypeOK
  <2>2. AskedOnce'
    BY <1>0, <1>1 DEF AskedOnce
  <2>3. ButtonFits'
    BY <1>1 DEF ButtonFits
  <2>. QED BY <2>1, <2>2, <2>3
<1>4. RequestsFit'
  <2>1. ASSUME NEW s \in Starts, NEW x \in Elems(requests[s]) PROVE RequestFits(s, x)'
    <3>1. x[2] # c
      BY <1>0, <1>1, <2>1, AskersWait
    <3>. QED BY <1>0, <1>1, <1>2, <2>1, <3>1, FitsStill
  <2>. QED BY <1>1, <2>1 DEF RequestsFit
<1>5. ASSUME NEW s \in Starts PROVE Fresh(s)' /\ StartsAlone(s)' /\ RunsHeld(s)'
  <2>1. Fresh(s)'
    BY <1>0, <1>1, <1>2, NoRecorderAssumption DEF Fresh
  <2>2. StartsAlone(s)'
    BY <1>1, <1>2, OthersStay
  <2>3. ~(s \notin crossed /\ recorder[s] = "recording")
    BY <1>1, NoneRuns
  <2>4. RunsHeld(s)'
    BY <1>1, <2>3 DEF RunsHeld
  <2>. QED BY <2>1, <2>2, <2>4
<1>. QED BY <1>3, <1>4, <1>5 DEF RecorderIInv

LEMMA StartGoesOnStep == ASSUME RecorderIInv, NEW c \in Starts, StartGoesOn(c) PROVE RecorderIInv'
<1>1. CASE StoppedForStart(c) \/ Failed(c)
  BY <1>1, GoesOnStep DEF StoppedForStart, Failed, Calls
<1>2. CASE Opened(c)
  BY <1>2, AskNextStep DEF Opened, Calls
<1>. QED BY <1>1, <1>2, StartedStep DEF StartGoesOn

LEMMA StopGoesOnStep == ASSUME RecorderIInv, NEW c \in Stops, StopGoesOn(c) PROVE RecorderIInv'
<1>1. CASE Failed(c)
  BY <1>1, GoesOnStep DEF Failed, Calls
<1>2. CASE Stopped(c)
  BY <1>2, AskNextStep DEF Stopped, Calls
<1>. QED BY <1>1, <1>2, ClosedStep DEF StopGoesOn

(* The invariant holds at first, every step keeps it, and it says what is  *)
(* promised.                                                               *)
LEMMA RecorderStarts == RecorderInit => RecorderIInv
<1>. SUFFICES ASSUME RecorderInit PROVE RecorderIInv
  OBVIOUS
<1>1. RecorderTypeOK /\ InProgress = {}
  BY EmptyQueue DEF RecorderInit, RecorderTypeOK, InProgress, Waiting, Answers, Requests
<1>2. \A r \in Starts : requests[r] = <<>> /\ recorder[r] = "none" /\ phase[r] = "idle"
  BY DEF RecorderInit
<1>3. AskedOnce /\ RequestsFit /\ ButtonFits
  BY <1>2, EmptyQueue DEF AskedOnce, RequestsFit, ButtonFits, RecorderInit
<1>4. \A r \in Starts : Fresh(r) /\ StartsAlone(r) /\ RunsHeld(r)
  BY <1>2, NoRecorderAssumption DEF Fresh, StartsAlone, RunsHeld, RecorderInit, Waiting, Answers
<1>. QED BY <1>1, <1>3, <1>4 DEF RecorderIInv

LEMMA RecorderSteps == RecorderIInv /\ [RecorderNext]_recorderVars => RecorderIInv'
<1>. SUFFICES ASSUME RecorderIInv, [RecorderNext]_recorderVars PROVE RecorderIInv'
  OBVIOUS
<1>1. ASSUME NEW c \in Starts, TapStart(c) PROVE RecorderIInv'
  BY <1>1, TapStartStep
<1>2. ASSUME NEW c \in Starts, StopPlayer(c) \/ Deny(c) PROVE RecorderIInv'
  BY <1>2, StopPlayerStep
<1>3. ASSUME NEW c \in Starts, Permit(c) PROVE RecorderIInv'
  BY <1>3, PermitStep
<1>4. ASSUME NEW c \in Stops, TapStop(c) PROVE RecorderIInv'
  BY <1>4, TapStopStep
<1>5. ASSUME NEW r \in Starts, Carry(r) PROVE RecorderIInv'
  BY <1>5, CarryStep
<1>7. ASSUME NEW c \in Starts, StartGoesOn(c) PROVE RecorderIInv'
  BY <1>7, StartGoesOnStep
<1>8. ASSUME NEW c \in Stops, StopGoesOn(c) PROVE RecorderIInv'
  BY <1>8, StopGoesOnStep
<1>9. CASE UNCHANGED recorderVars
  <2>1. UNCHANGED <<visible, isRecording, audioRecorder, audioPath, phase, recorder, requests, crossed, InProgress>>
    BY <1>9 DEF recorderVars, recordingPage, InProgress
  <2>. QED BY <2>1 DEF RecorderIInv, RecorderTypeOK, AskedOnce, RequestsFit, RequestFits, ButtonFits,
                       Fresh, StartsAlone, RunsHeld, Asked
<1>. QED BY <1>1, <1>2, <1>3, <1>4, <1>5, <1>7, <1>8, <1>9, PickAudioFileStep, DisposeStep
         DEF RecorderNext

LEMMA RecorderSafe == RecorderIInv => MicrophoneIsHeld /\ StopIsOffered /\ RecordingIsFinished
<1>. SUFFICES ASSUME RecorderIInv PROVE MicrophoneIsHeld /\ StopIsOffered /\ RecordingIsFinished
  OBVIOUS
<1>1. \A r \in Starts : phase[r] = "started" =>
        r \in InProgress /\ (r \in crossed \/ (visible /\ audioRecorder = r))
  BY DEF RecorderIInv, StartsAlone, InProgress, Waiting, Answers
<1>2. MicrophoneIsHeld
  BY <1>1 DEF RecorderIInv, RunsHeld, MicrophoneIsHeld
<1>3. StopIsOffered
  BY <1>1 DEF RecorderIInv, ButtonFits, StopIsOffered
<1>4. RecordingIsFinished
  BY DEF RecorderIInv, RunsHeld, RecordingIsFinished
<1>. QED BY <1>2, <1>3, <1>4

(* A recorder that runs is held by the page that is shown, or about to be  *)
(* closed, unless its start met another call or the end of the page        *)
(* (startRecording, stopRecording, dispose).                               *)
THEOREM MicrophonesAreHeld == RecorderSpec => []MicrophoneIsHeld
BY RecorderStarts, RecorderSteps, RecorderSafe, PTL DEF RecorderSpec

(* With no call under way the button offers to stop the recorder that the  *)
(* page holds and that runs, however the calls have crossed.               *)
THEOREM StopsAreOffered == RecorderSpec => []StopIsOffered
BY RecorderStarts, RecorderSteps, RecorderSafe, PTL DEF RecorderSpec

(* No recorder runs while the path names a recording, unless its start met *)
(* another call or has not got its answer yet: only then what is posted is *)
(* still being written.                                                    *)
THEOREM RecordingsAreFinished == RecorderSpec => []RecordingIsFinished
BY RecorderStarts, RecorderSteps, RecorderSafe, PTL DEF RecorderSpec
=============================================================================
