------------------------------- MODULE Profile -------------------------------
(***************************************************************************)
(* The page on which users change their username, description and picture  *)
(* (changeProfile.dart), on one phone that several people use in turn.     *)
(*                                                                         *)
(* The username read last, the picture, the flag isPhotoChanged and the    *)
(* text fields are variables of the file: they outlive the page and the    *)
(* login.  A save with a new picture uploads it as <uid>.jpg, asks for its *)
(* URL and then updates the document, with what the fields hold and for    *)
(* whoever is logged in by then.  An answer that comes after its page was  *)
(* left still sets the variables (setState of a release build runs its     *)
(* function before it fails).                                              *)
(*                                                                         *)
(* The description is loaded, cleared and saved with the username, so it   *)
(* is left out; of a picture only who picked it matters.                   *)
(***************************************************************************)
EXTENDS Naturals, Sequences

CONSTANTS
  People,
  Names,        \* the usernames that can be typed
  Empty,        \* the empty username
  Nobody,       \* nobody is logged in
  None,         \* no file, no picture of one's own, no save
  Url,          \* the variable profilePicture holds a URL
  Saves,        \* the saves that can be under way together
  MaxVisits,    \* bound: how often the page is opened
  MaxWrites     \* bound: pending writes of a user

ASSUME DistinctAssumption ==
  /\ Empty \notin Names
  /\ Nobody \notin People /\ None \notin People /\ Url \notin People
  /\ None \notin Names \union {Empty} /\ None # Url
ASSUME MaxWritesAssumption == MaxWrites \in Nat \ {0}
ASSUME MaxVisitsAssumption == MaxVisits \in Nat

VARIABLES
  username,     \* field of each user's document
  linked,       \* whose files documents, or writes to them, name as the picture
  file,         \* who picked the picture in each user's file, or None
  queue,        \* the writes of this phone to each user's document
  user,         \* who is logged in
  visits,       \* counts how often the page was opened
  shown,        \* the page is shown
  asked,        \* how many requests of each kind, for whom, are not answered
  names,        \* usernameList of the page
  fetched,      \* ... has been fetched
  lastUsername, \* variable `username' of the file
  picture,      \* variable `profilePicture': who picked the file, or Url
  isPhotoChanged,
  nameText,     \* usernameController
  save,         \* the saves under way
  raced         \* history: whose name was sent without its check, or was under
                \* way when another fetched the list

documents == <<username, linked, file>>
variables == <<lastUsername, picture, isPhotoChanged, nameText>>
page == <<visits, shown>>
list == <<names, fetched>>
profileVars == <<documents, queue, user, page, asked, list, variables, save, raced>>

Texts == Names \union {Empty}
Requests == {"photo", "info"} \X People

(* A save under way: whose file it uploads, what it uploads, whether that  *)
(* was taken before the own picture was loaded, whether its page is still  *)
(* shown, the name it checked (None if the check was passed on what was    *)
(* not loaded).                                                            *)
Uploads ==
  [phase : {"upload", "stored", "failed"}, uid : People, source : People \union {Url},
   early : BOOLEAN, here : BOOLEAN, checked : Names \union {None}]

ProfileTypeOK ==
  /\ username \in [People -> Texts]
  /\ linked \subseteq People
  /\ file \in [People -> People \union {None}]
  /\ queue \in [People -> Seq(Texts)]
  /\ user \in People \union {Nobody}
  /\ visits \in 0..MaxVisits /\ shown \in BOOLEAN
  /\ asked \in [Requests -> Nat]
  /\ names \subseteq Texts
  /\ fetched \in BOOLEAN
  /\ lastUsername \in Texts
  /\ picture \in People \union {Url}
  /\ isPhotoChanged \in BOOLEAN
  /\ nameText \in Texts
  /\ save \in [Saves -> Uploads \union {None}]
  /\ raced \subseteq People

(* Everybody has a name of their own.                                      *)
ProfileInit ==
  /\ username \in [People -> Names]
  /\ \A u, v \in People : u # v => username[u] # username[v]
  /\ linked = {} /\ file = [u \in People |-> None]
  /\ queue = [u \in People |-> <<>>]
  /\ user = Nobody
  /\ visits = 0 /\ shown = FALSE /\ asked = [q \in Requests |-> 0]
  /\ names = {} /\ fetched = FALSE
  /\ lastUsername = Empty /\ picture = Url /\ isPhotoChanged = FALSE /\ nameText = Empty
  /\ save = [s \in Saves |-> None]
  /\ raced = {}

-----------------------------------------------------------------------------
(* What the phone reads of a user's document: its own writes come on top.  *)
Sees(u) ==
  IF user = u /\ queue[u] # <<>> THEN queue[u][Len(queue[u])] ELSE username[u]

Update(u, name) ==
  /\ Len(queue[u]) < MaxWrites
  /\ queue' = [queue EXCEPT ![u] = Append(@, name)]

(* The page goes, and with it its list; saves under way go on without it.  *)
ClosePage ==
  /\ shown' = FALSE /\ names' = {} /\ fetched' = FALSE

Abandoned(saves) ==
  [s \in Saves |-> IF saves[s] = None THEN None ELSE [saves[s] EXCEPT !.here = FALSE]]

-----------------------------------------------------------------------------
LogIn(u) ==
  /\ user = Nobody
  /\ user' = u
  /\ UNCHANGED <<documents, queue, page, asked, list, variables, save, raced>>

LogOut ==
  /\ user # Nobody /\ ~shown
  /\ user' = Nobody
  /\ UNCHANGED <<documents, queue, page, asked, list, variables, save, raced>>

(* The page opens and asks for the picture, the fields and the names.      *)
OpenPage ==
  /\ user # Nobody /\ ~shown
  /\ visits < MaxVisits /\ visits' = visits + 1
  /\ shown' = TRUE
  /\ asked' = [q \in Requests |-> IF q[2] = user THEN asked[q] + 1 ELSE asked[q]]
  /\ UNCHANGED <<documents, queue, user, list, variables, save, raced>>

Leave ==
  /\ shown
  /\ ClosePage
  /\ save' = Abandoned(save)
  /\ UNCHANGED <<documents, queue, user, visits, asked, variables, raced>>

(* mutant: a picked picture stays                                          *)
GetProfilePhotoUnlessPicked(u) ==
  /\ asked[<<"photo", u>>] > 0
  /\ asked' = [asked EXCEPT ![<<"photo", u>>] = @ - 1]
  /\ picture' = IF isPhotoChanged THEN picture ELSE Url
  /\ UNCHANGED <<documents, queue, user, page, list, lastUsername, isPhotoChanged,
                 nameText, save, raced>>

(* getProfilePhoto: a picture picked meanwhile is forgotten, but not that  *)
(* one was.                                                                *)
GetProfilePhoto(u) ==
  /\ asked[<<"photo", u>>] > 0
  /\ asked' = [asked EXCEPT ![<<"photo", u>>] = @ - 1]
  /\ picture' = Url
  /\ UNCHANGED <<documents, queue, user, page, list, lastUsername, isPhotoChanged,
                 nameText, save, raced>>

(* getUserInfo                                                             *)
GetUserInfo(u) ==
  /\ asked[<<"info", u>>] > 0
  /\ asked' = [asked EXCEPT ![<<"info", u>>] = @ - 1]
  /\ lastUsername' = Sees(u) /\ nameText' = Sees(u)
  /\ UNCHANGED <<documents, queue, user, page, list, picture, isPhotoChanged, save,
                 raced>>

(* getAllUsername                                                          *)
GetAllUsername ==
  /\ shown /\ ~fetched
  /\ names' = {Sees(u) : u \in People}
  /\ fetched' = TRUE
  /\ raced' = raced \union
       {u \in People \ {user} :
          queue[u] # <<>> \/ \E s \in Saves : save[s] # None /\ save[s].uid = u}
  /\ UNCHANGED <<documents, queue, user, page, asked, variables, save>>

Type(n) ==
  /\ shown
  /\ nameText' = n
  /\ UNCHANGED <<documents, queue, user, page, asked, list, lastUsername, picture,
                 isPhotoChanged, save, raced>>

(* pickImage                                                               *)
PickImage ==
  /\ shown
  /\ isPhotoChanged' = TRUE
  /\ picture' = user
  /\ UNCHANGED <<documents, queue, user, page, asked, list, lastUsername, nameText, save,
                 raced>>

-----------------------------------------------------------------------------
(* changeUserInfo                                                          *)

(* The fields must be filled, and the name nobody else's.                  *)
Accepted == nameText # Empty /\ (nameText \in names => lastUsername = nameText)

(* ... which means something if the list and the own name are those of     *)
(* this page.                                                              *)
CheckMeansFree == nameText = Sees(user) \/ (fetched /\ nameText \notin names)

(* The fields are cleared and the profile replaces the page.               *)
Finish ==
  /\ nameText' = Empty
  /\ ClosePage
  /\ UNCHANGED <<lastUsername, picture, isPhotoChanged>>

(* mutant: the name is not looked up                                       *)
SaveInfoUnchecked ==
  /\ shown /\ nameText # Empty /\ ~isPhotoChanged
  /\ Update(user, nameText)
  /\ raced' = IF nameText \in names \/ CheckMeansFree THEN raced ELSE raced \union {user}
  /\ Finish
  /\ save' = Abandoned(save)
  /\ UNCHANGED <<documents, user, visits, asked>>

(* Without a new picture.                                                  *)
SaveInfo ==
  /\ shown /\ Accepted /\ ~isPhotoChanged
  /\ Update(user, nameText)
  /\ raced' = IF CheckMeansFree THEN raced ELSE raced \union {user}
  /\ Finish
  /\ save' = Abandoned(save)
  /\ UNCHANGED <<documents, user, visits, asked>>

(* With one: the upload starts.  Nothing disables the button meanwhile.    *)
SavePhoto(s) ==
  /\ shown /\ Accepted /\ isPhotoChanged
  /\ save[s] = None
  /\ save' = [save EXCEPT ![s] =
       [phase |-> "upload", uid |-> user, source |-> picture,
        early |-> asked[<<"photo", user>>] > 0, here |-> TRUE,
        checked |-> IF CheckMeansFree THEN nameText ELSE None]]
  /\ UNCHANGED <<documents, queue, user, page, asked, list, variables, raced>>

(* The upload ends.  There is no file whose path is a URL.                 *)
Upload(s) ==
  /\ save[s] # None /\ save[s].phase = "upload"
  /\ \/ /\ save[s].source # Url
        /\ file' = [file EXCEPT ![save[s].uid] = save[s].source]
        /\ save' = [save EXCEPT ![s].phase = "stored"]
     \/ /\ save' = [save EXCEPT ![s].phase = "failed"]
        /\ UNCHANGED file
  /\ UNCHANGED <<username, linked, queue, user, page, asked, list, variables, raced>>

(* mutant: the URL is made up rather than asked for                        *)
WhenCompleteAnyway(s) ==
  /\ save[s] # None /\ save[s].phase # "upload"
  /\ user # Nobody
  /\ Update(user, nameText)
  /\ linked' = linked \union {save[s].uid}
  /\ save' = [save EXCEPT ![s] = None]
  /\ UNCHANGED <<username, file, user, page, asked, list, variables, raced>>

(* whenComplete runs its function in either case: it asks for the URL and  *)
(* updates the document; then a save whose upload failed shows an error.   *)
(* Without a file, or a login, it fails itself.                            *)
WhenComplete(s) ==
  /\ save[s] # None /\ save[s].phase # "upload"
  /\ LET my == save[s]
         others == [save EXCEPT ![s] = None] IN
     IF file[my.uid] = None \/ user = Nobody
       THEN /\ save' = others
            /\ UNCHANGED <<linked, queue, shown, list, variables, raced>>
       ELSE /\ Update(user, nameText)
            /\ linked' = linked \union {my.uid}
            /\ raced' = IF user = my.uid /\ nameText = my.checked THEN raced
                          ELSE raced \union {user}
            /\ CASE my.phase = "failed" ->
                      save' = others /\ UNCHANGED <<shown, list, variables>>
                 [] my.phase = "stored" /\ my.here ->
                      save' = Abandoned(others) /\ Finish
                 [] my.phase = "stored" /\ ~my.here ->
                      /\ save' = others
                      /\ nameText' = Empty
                      /\ UNCHANGED <<shown, list, lastUsername, picture, isPhotoChanged>>
  /\ UNCHANGED <<username, file, user, visits, asked>>

-----------------------------------------------------------------------------
(* The server applies the oldest write of who is logged in.                *)
Apply ==
  /\ user # Nobody /\ queue[user] # <<>>
  /\ username' = [username EXCEPT ![user] = Head(queue[user])]
  /\ queue' = [queue EXCEPT ![user] = Tail(@)]
  /\ UNCHANGED <<linked, file, user, page, asked, list, variables, save, raced>>

(* The app is killed and started again: only the pending writes are left.  *)
Restart ==
  /\ ClosePage
  /\ asked' = [q \in Requests |-> 0]
  /\ lastUsername' = Empty /\ picture' = Url /\ isPhotoChanged' = FALSE /\ nameText' = Empty
  /\ save' = [s \in Saves |-> None]
  /\ UNCHANGED <<documents, queue, user, visits, raced>>

ProfileNext ==
  \/ \E u \in People : LogIn(u) \/ GetProfilePhoto(u) \/ GetUserInfo(u)
  \/ LogOut \/ OpenPage \/ Leave \/ GetAllUsername \/ PickImage
  \/ SaveInfo \/ Apply \/ Restart
  \/ \E n \in Texts : Type(n)
  \/ \E s \in Saves : SavePhoto(s) \/ Upload(s) \/ WhenComplete(s)

ProfileSpec == ProfileInit /\ [][ProfileNext]_profileVars

-----------------------------------------------------------------------------
(* Properties                                                              *)

(* No document names a file that is not there.                             *)
PhotoExists == \A u \in linked : file[u] # None

(* A file gets a picture that another picked only if its owner saved       *)
(* before the own picture was loaded: what the last session left behind    *)
(* does not outlive the loading of the page.                               *)
FileIsOwn ==
  [][\A u \in People : file'[u] \in {file[u], u}
       \/ \E s \in Saves : save[s] # None /\ save[s].uid = u /\ save[s].early]_profileVars

(* A user is without a name, or two have the same, only if one sent a name *)
(* that its check did not see - the fields were changed or cleared, or     *)
(* others logged in, during the upload - or had one under way when the     *)
(* other fetched the list.                                                 *)
BadNameNeedsRace ==
  /\ \A u \in People : username[u] = Empty => u \in raced
  /\ \A u, v \in People : u # v /\ username[u] = username[v] => {u, v} \cap raced # {}
=============================================================================
