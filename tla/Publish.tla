------------------------------- MODULE Publish -------------------------------
(***************************************************************************)
(* Posting an audio (addPost.dart, _SendButtonSectionState) from several   *)
(* devices that people may use in turn.                                    *)
(*                                                                         *)
(* postAudio() names the post by the millisecond, uploads the audio, asks  *)
(* for its URL, stores the document and updates the list of posts in the   *)
(* user's document.  The title, the tags and the path of the audio are     *)
(* variables of the file that the end of the page clears: title and path   *)
(* are read when getPosts() has answered, the tags and the user after the  *)
(* upload.  Nothing disables the button meanwhile.                         *)
(*                                                                         *)
(* deletePost() of widget.dart, which the owner may call on a post, shares *)
(* file and document with it; what happens to the comments in between is   *)
(* the matter of PostThread.                                               *)
(*                                                                         *)
(* This is the app on a phone: a browser's page holds bytes instead of a   *)
(* path, which its end does not clear.                                     *)
(*                                                                         *)
(* A draft stands for what the page holds: a title, tags and an audio.     *)
(***************************************************************************)
EXTENDS Naturals, Sequences, FiniteSets

CONSTANTS
  Users,
  Devices,
  Posts,        \* bound: the taps on "Yes"
  Names,        \* the names a post can get: the millisecond
  Drafts,
  Blank,        \* the page holds nothing
  Nobody,       \* nobody is logged in
  None,
  MaxPages      \* bound: how often the page is opened

ASSUME DistinctAssumption ==
  /\ Blank \notin Drafts /\ Nobody \notin Users /\ None \notin Users \union Drafts \union Posts
ASSUME MaxPagesAssumption == MaxPages \in Nat

VARIABLES
  file,         \* whose audio each name's file has
  document,     \* the post of each name
  posts,        \* field of that name of each user's document
  deletion,     \* how far the deletion of each name's post is (bound: one)
  outbox,       \* the writes of each device, by who was logged in
  user,         \* who is logged in
  pages,        \* counts how often it was opened
  shown,        \* the page is shown
  draft,        \* what it holds
  post,         \* the posts under way
  disturbed     \* history: those whose page was changed or left meanwhile

server == <<file, document, posts, deletion>>
page == <<pages, shown, draft>>
vars == <<server, outbox, user, page, post, disturbed>>

(* "cut": the app was killed, or a request failed.                         *)
Over == {"done", "cut"}
Phases == {"list", "upload", "stored", "failed", "document"} \union Over

Documents == [by : Posts, owner : Users, title : Drafts \union {Blank}, tags : Drafts \union {Blank}]

(* `confirmed' and `who' are what and who confirmed it, `taken' what       *)
(* postAudio has read.                                                     *)
UnderWay ==
  [phase : Phases, on : Devices, name : Names, here : BOOLEAN, confirmed : Drafts,
   who : Users, taken : Drafts \union {Blank}]

ASSUME NoneAssumption == None \notin Documents \union UnderWay

TypeOK ==
  /\ file \in [Names -> Drafts \union {None}]
  /\ document \in [Names -> Documents \union {None}]
  /\ posts \in [Users -> SUBSET Names]
  /\ deletion \in [Names -> {"none", "begun", "done"}]
  /\ outbox \in [Devices \X Users -> Seq([to : {"document"}, name : Names, value : Documents]
                                  \union [to : {"list"}, name : Names])]
  /\ user \in [Devices -> Users \union {Nobody}]
  /\ pages \in 0..MaxPages
  /\ shown \in [Devices -> BOOLEAN]
  /\ draft \in [Devices -> Drafts \union {Blank}]
  /\ post \in [Posts -> UnderWay \union {None}]
  /\ disturbed \subseteq Posts

Init ==
  /\ file = [n \in Names |-> None] /\ document = [n \in Names |-> None]
  /\ posts = [u \in Users |-> {}] /\ deletion = [n \in Names |-> "none"]
  /\ outbox = [q \in Devices \X Users |-> <<>>]
  /\ user = [d \in Devices |-> Nobody]
  /\ pages = 0
  /\ shown = [d \in Devices |-> FALSE] /\ draft = [d \in Devices |-> Blank]
  /\ post = [p \in Posts |-> None]
  /\ disturbed = {}

-----------------------------------------------------------------------------
On(d) == {p \in Posts : post[p] # None /\ post[p].on = d /\ post[p].phase \notin Over}

(* The page goes: dispose clears what it holds.                            *)
ClosePage(d) ==
  /\ shown' = [shown EXCEPT ![d] = FALSE]
  /\ draft' = [draft EXCEPT ![d] = Blank]
  /\ UNCHANGED pages

(* The posts under way on a device go on without their page.               *)
Abandoned(d) ==
  [p \in Posts |-> IF p \in On(d) THEN [post[p] EXCEPT !.here = FALSE] ELSE post[p]]

Goes(p, phase) == post' = [post EXCEPT ![p].phase = phase]

(* One that has ended; of its variables nothing is left.                   *)
Ended(r, how) == [r EXCEPT !.phase = how, !.here = FALSE, !.taken = Blank]
Ends(p, how) == post' = [post EXCEPT ![p] = Ended(@, how)]

-----------------------------------------------------------------------------
LogIn(d, u) ==
  /\ user[d] = Nobody
  /\ user' = [user EXCEPT ![d] = u]
  /\ UNCHANGED <<server, outbox, page, post, disturbed>>

(* mutant: the page stays behind the login                                 *)
LogOutAnywhere(d) ==
  /\ user[d] # Nobody
  /\ user' = [user EXCEPT ![d] = Nobody]
  /\ UNCHANGED <<server, outbox, page, post, disturbed>>

LogOut(d) ==
  /\ user[d] # Nobody /\ ~shown[d]
  /\ user' = [user EXCEPT ![d] = Nobody]
  /\ UNCHANGED <<server, outbox, page, post, disturbed>>

Open(d) ==
  /\ user[d] # Nobody /\ ~shown[d]
  /\ pages < MaxPages /\ pages' = pages + 1
  /\ shown' = [shown EXCEPT ![d] = TRUE]
  /\ UNCHANGED <<server, outbox, user, draft, post, disturbed>>

(* A title is typed, tags are added, an audio is recorded or picked.       *)
Edit(d, x) ==
  /\ shown[d] /\ draft[d] # x
  /\ draft' = [draft EXCEPT ![d] = x]
  /\ disturbed' = disturbed \union On(d)
  /\ UNCHANGED <<server, outbox, user, pages, shown, post>>

Leave(d) ==
  /\ shown[d]
  /\ ClosePage(d)
  /\ post' = Abandoned(d)
  /\ disturbed' = disturbed \union On(d)
  /\ UNCHANGED <<server, outbox, user>>

-----------------------------------------------------------------------------
(* showConfirmAlert: the page must be filled in; "Yes" may be tapped.      *)
CanConfirm(d) == shown[d] /\ draft[d] # Blank

(* The post gets its name.                                                 *)
Confirm(p) ==
  \E d \in Devices, n \in Names :
    /\ CanConfirm(d) /\ post[p] = None
    /\ post' = [post EXCEPT ![p] =
         [phase |-> "list", on |-> d, name |-> n, here |-> TRUE,
          confirmed |-> draft[d], who |-> user[d], taken |-> Blank]]
    /\ UNCHANGED <<server, outbox, user, page, disturbed>>

(* getPosts finds none (nothing writes where it looks), or fails, which    *)
(* ends the post when the page is gone; then title and path are read.      *)
GetPosts(p) ==
  /\ post[p] # None /\ post[p].phase = "list"
  /\ \/ post' = [post EXCEPT ![p].phase = "upload", ![p].taken = draft[post[p].on]]
     \/ ~post[p].here /\ Ends(p, "cut")
  /\ UNCHANGED <<server, outbox, user, page, disturbed>>

(* The upload ends.  There is no file without a path; and the recording of *)
(* a changed page overwrites the one that is being read.                   *)
Upload(p) ==
  /\ post[p] # None /\ post[p].phase = "upload"
  /\ \/ /\ post[p].taken # Blank
        /\ \E audio \in {post[p].taken, draft[post[p].on]} \ {Blank} :
             file' = [file EXCEPT ![post[p].name] = audio]
        /\ Goes(p, "stored")
     \/ /\ Goes(p, "failed")
        /\ UNCHANGED file
  /\ UNCHANGED <<document, posts, deletion, outbox, user, page, disturbed>>

(* What postAudio writes: the document, with the tags and the user of the  *)
(* moment, and the list, with the new name alone.                          *)
DocumentOf(p) ==
  [to |-> "document", name |-> post[p].name,
   value |-> [by |-> p, owner |-> user[post[p].on],
              title |-> post[p].taken, tags |-> draft[post[p].on]]]
ListOf(p) == [to |-> "list", name |-> post[p].name]

(* Once the upload has ended, the post is lost, or writes are issued.      *)
(* whenComplete runs its function in either case, but a post whose upload  *)
(* failed ends with that error afterwards, and its page stays.             *)
Store(p, lost, writes) ==
  /\ post[p] # None /\ post[p].phase \in {"stored", "failed"}
  /\ LET me == post[p]  d == me.on IN
       IF lost \/ user[d] = Nobody
         THEN Ends(p, "done") /\ UNCHANGED outbox
         ELSE /\ outbox' = [outbox EXCEPT ![<<d, user[d]>>] = @ \o writes]
              /\ post' = [post EXCEPT ![p].phase = "document",
                                     ![p].here = @ /\ me.phase = "stored"]
  /\ UNCHANGED <<server, user, page, disturbed>>

NoUrl(p) == file[post[p].name] = None

(* mutant: the URL is not asked for                                        *)
StoreDocumentBlindly(p) == Store(p, FALSE, <<DocumentOf(p)>>)

(* mutant: the list first                                                  *)
StoreListFirst(p) == Store(p, NoUrl(p), <<ListOf(p), DocumentOf(p)>>)

(* mutant: only for a page that is still shown                             *)
StoreDocumentIfHere(p) == Store(p, NoUrl(p) \/ ~post[p].here, <<DocumentOf(p)>>)

(* Without a file there is no URL, without a login no owner.               *)
StoreDocument(p) == Store(p, NoUrl(p), <<DocumentOf(p)>>)

(* The request for the URL fails though there is a file: the post is lost. *)
UrlFails(p) ==
  /\ post[p] # None /\ post[p].phase \in {"stored", "failed"}
  /\ Ends(p, "cut")
  /\ UNCHANGED <<server, outbox, user, page, disturbed>>

-----------------------------------------------------------------------------
(* Firestore takes the oldest write of who is logged in.                   *)
Sends(d) == user[d] # Nobody /\ outbox[<<d, user[d]>>] # <<>>
Oldest(d) == Head(outbox[<<d, user[d]>>])
Rest(d) == Tail(outbox[<<d, user[d]>>])

(* A document: then postAudio writes the list - the new name alone -, and  *)
(* shows the home page instead of its own, or instead of the dialog that   *)
(* is open once more.                                                      *)
ApplyDocument(d) ==
  /\ Sends(d) /\ Oldest(d).to = "document"
  /\ LET w == Oldest(d)
         p == w.value.by IN
     /\ document' = [document EXCEPT ![w.name] = w.value]
     /\ IF post[p].phase = "document"
          THEN /\ outbox' = [outbox EXCEPT ![<<d, user[d]>>] = Append(Rest(d), ListOf(p))]
               /\ \/ /\ post[p].here
                     /\ post' = [Abandoned(d) EXCEPT ![p] = Ended(@, "done")]
                     /\ disturbed' = disturbed \union (On(d) \ {p})
                     /\ ClosePage(d)
                  \/ /\ ~post[p].here \/ CanConfirm(d)
                     /\ Ends(p, "done") /\ UNCHANGED <<disturbed, page>>
          ELSE /\ outbox' = [outbox EXCEPT ![<<d, user[d]>>] = Rest(d)]
               /\ UNCHANGED <<post, disturbed, page>>
  /\ UNCHANGED <<file, posts, deletion, user>>

ApplyList(d) ==
  /\ Sends(d) /\ Oldest(d).to = "list"
  /\ posts' = [posts EXCEPT ![user[d]] = {Oldest(d).name}]
  /\ outbox' = [outbox EXCEPT ![<<d, user[d]>>] = Rest(d)]
  /\ UNCHANGED <<file, document, deletion, user, page, post, disturbed>>

(* The app is killed and started again; its pending writes survive.        *)
Kill(d) ==
  /\ shown[d] \/ On(d) # {}
  /\ ClosePage(d)
  /\ post' = [p \in Posts |-> IF p \in On(d) THEN Ended(post[p], "cut") ELSE post[p]]
  /\ disturbed' = disturbed \union On(d)
  /\ UNCHANGED <<server, outbox, user>>

-----------------------------------------------------------------------------
(* deletePost: first the audio, which must be there ...                    *)
DeleteAudio(d, n) ==
  /\ document[n] # None /\ file[n] # None
  /\ deletion[n] = "none"
  /\ user[d] = document[n].owner
  /\ deletion' = [deletion EXCEPT ![n] = "begun"]
  /\ file' = [file EXCEPT ![n] = None]
  /\ UNCHANGED <<document, posts, outbox, user, page, post, disturbed>>

(* ... at last the document, if the deletion gets that far.  No list that  *)
(* names the post is changed.                                              *)
DeleteDocument(n) ==
  /\ deletion[n] = "begun"
  /\ deletion' = [deletion EXCEPT ![n] = "done"]
  /\ document' = [document EXCEPT ![n] = None]
  /\ UNCHANGED <<file, posts, outbox, user, page, post, disturbed>>

-----------------------------------------------------------------------------
Next ==
  \/ \E d \in Devices :
       \/ LogOut(d) \/ Open(d) \/ Leave(d) \/ ApplyDocument(d) \/ ApplyList(d) \/ Kill(d)
       \/ \E u \in Users : LogIn(d, u)
       \/ \E x \in Drafts : Edit(d, x)
       \/ \E n \in Names : DeleteAudio(d, n)
  \/ \E p \in Posts : Confirm(p) \/ GetPosts(p) \/ Upload(p) \/ StoreDocument(p) \/ UrlFails(p)
  \/ \E n \in Names : DeleteDocument(n)

Spec == Init /\ [][Next]_vars

-----------------------------------------------------------------------------
(* Properties                                                              *)

(* A post can be played: its file is there, until its deletion begins.     *)
AudioExists ==
  \A n \in Names : document[n] # None => file[n] # None \/ deletion[n] # "none"

(* A post is what its user confirmed, unless the page was changed or left  *)
(* before it was stored, or another post got the same name.                *)
PostIsAsConfirmed ==
  \A n \in Names : document[n] # None =>
    LET p == document[n].by IN
      \/ /\ document[n].title = post[p].confirmed /\ document[n].tags = post[p].confirmed
         /\ document[n].owner = post[p].who
         /\ file[n] = post[p].confirmed \/ deletion[n] # "none"
      \/ p \in disturbed
      \/ \E q \in Posts \ {p} : post[q] # None /\ post[q].name = n

(* The list in a user's document names what was posted, never what is yet  *)
(* to be stored: each post is there, or was deleted since.                 *)
ListedWasPosted ==
  \A u \in Users : \A n \in posts[u] : document[n] # None \/ deletion[n] = "done"

(* An audio that was uploaded gets its post, though the page be left or    *)
(* changed or another post end it.  Only these lose it: the app is killed  *)
(* or the request for the URL fails, nobody is logged in by then, or the   *)
(* file is deleted with another post of that name.                         *)
UploadedIsPosted ==
  [][\A p \in Posts :
       post[p] # None /\ post[p].phase = "stored" /\ post'[p].phase # "stored"
         => \/ post'[p].phase \in {"document", "cut"}
            \/ user[post[p].on] = Nobody \/ deletion[post[p].name] # "none"]_vars
=============================================================================
