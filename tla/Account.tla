------------------------------- MODULE Account -------------------------------
(***************************************************************************)
(* How an account gets its document in "users" and its username: signing   *)
(* up by e-mail (signup.dart) or with Google (signup.dart, login.dart),    *)
(* logging in and out, the page main() shows for what Firebase Auth        *)
(* reports, the check of the home page and the page that asks for a        *)
(* username (setUsername.dart).                                            *)
(*                                                                         *)
(* One person may use several devices, and several people one device.      *)
(* Firestore keeps the writes of a device in a queue per user, which it    *)
(* sends, in order, while that user is logged in; reads see the queue on   *)
(* top of what the server has.                                             *)
(***************************************************************************)
EXTENDS Naturals, Sequences

CONSTANTS
  Users,        \* the people, each with one account at most
  Google,       \* those among them who use the Google buttons
  Devices,
  Clients,      \* who uses which device: a set of <<device, user>>
  Names,        \* the usernames that can be typed, in lower case
  Empty,        \* the empty username
  NoDocument,   \* what is read of a document that does not exist
  Nobody,       \* nobody is logged in
  MaxPending    \* bound: writes in a queue when another name is submitted

ASSUME ClientsAssumption == Google \subseteq Users /\ Clients \subseteq Devices \X Users
ASSUME DistinctAssumption ==
  Empty \notin Names /\ NoDocument \notin Names \union {Empty} /\ Nobody \notin Users
ASSUME MaxPendingAssumption == MaxPending \in Nat

VARIABLES
  accounts,     \* who has an account with Firebase Auth
  verified,     \* whose address is verified
  username,     \* field of each user's document, or NoDocument
  user,         \* who is logged in on each device
  page,         \* the page each device shows
  names,        \* usernameList of the username page
  fetched,      \* ... has been fetched
  signing,      \* progress of each user's sign-up on each device
  queue,        \* the writes of a device to the document of each user
  cut,          \* history: whose sign-up or writes were cut off by a killed app, a
                \* logout or a request that failed, until a sign-up gets its answers
  doubled,      \* history: who was signed up on two devices at once
  blind,        \* history: whose name was submitted before `names' was fetched
  raced         \* history: <<u, v>>: v was named while u's list was in use

cloud == <<accounts, verified, username>>
naming == <<names, fetched>>
history == <<cut, doubled, blind, raced>>
vars == <<cloud, user, page, naming, signing, queue, history>>

Pages == {"start", "unverified", "checking", "username", "app"}
Writes == {"set", "update", "orphan"} \X (Names \union {Empty})

TypeOK ==
  /\ accounts \subseteq Users /\ verified \subseteq Users
  /\ username \in [Users -> Names \union {Empty, NoDocument}]
  /\ user \in [Devices -> Users \union {Nobody}]
  /\ page \in [Devices -> Pages]
  /\ names \in [Devices -> SUBSET (Names \union {Empty})]
  /\ fetched \in [Devices -> BOOLEAN]
  /\ signing \in [Clients -> {"idle", "create", "get"}]
  /\ queue \in [Clients -> Seq(Writes)]
  /\ cut \subseteq Users /\ doubled \subseteq Users /\ blind \subseteq Users
  /\ raced \subseteq Users \X Users

Init ==
  /\ accounts = {} /\ verified = {}
  /\ username = [u \in Users |-> NoDocument]
  /\ user = [d \in Devices |-> Nobody]
  /\ page = [d \in Devices |-> "start"]
  /\ names = [d \in Devices |-> {}]
  /\ fetched = [d \in Devices |-> FALSE]
  /\ signing = [c \in Clients |-> "idle"]
  /\ queue = [c \in Clients |-> <<>>]
  /\ cut = {} /\ doubled = {} /\ blind = {} /\ raced = {}

-----------------------------------------------------------------------------
(* Firestore                                                               *)

Add(c, write) == queue' = [queue EXCEPT ![c] = Append(@, write)]

SetPending(c) == \E i \in DOMAIN queue[c] : queue[c][i][1] = "set"

(* What device d reads of the document of u.                               *)
Sees(d, u) ==
  IF user[d] # u \/ queue[<<d, u>>] = <<>> THEN username[u]
  ELSE IF username[u] = NoDocument /\ ~SetPending(<<d, u>>) THEN NoDocument
  ELSE queue[<<d, u>>][Len(queue[<<d, u>>])][2]

(* The username page of d, or a name it has submitted, goes by a list      *)
(* fetched before.                                                         *)
Relies(d, u) ==
  \/ user[d] = u /\ page[d] = "username" /\ fetched[d]
  \/ \E i \in DOMAIN queue[<<d, u>>] : queue[<<d, u>>][i][1] # "set"

-----------------------------------------------------------------------------
(* Signing up and logging in                                               *)

Uses(d) == {u \in Users : <<d, u>> \in Clients}
UsedBy(u) == {d \in Devices : <<d, u>> \in Clients}

Asking(d) == \E u \in Uses(d) : signing[<<d, u>>] = "create"

(* signup: the fields are checked, then Firebase is asked for an account.  *)
SignUp(d, u) ==
  /\ page[d] = "start" /\ u \notin Google
  /\ ~Asking(d)
  /\ signing' = [signing EXCEPT ![<<d, u>>] = "create"]
  /\ UNCHANGED <<cloud, user, page, naming, queue, history>>

(* mutant: the document is left to the first visit of the profile          *)
CreatedOnly(d, u) ==
  /\ signing[<<d, u>>] = "create" /\ page[d] = "start"
  /\ u \notin accounts
  /\ accounts' = accounts \union {u}
  /\ user' = [user EXCEPT ![d] = u]
  /\ page' = [page EXCEPT ![d] = "unverified"]
  /\ signing' = [signing EXCEPT ![<<d, u>>] = "idle"]
  /\ UNCHANGED <<verified, username, naming, queue, history>>

(* The account is there: main() shows another page, while signup() writes  *)
(* the document.                                                           *)
Created(d, u) ==
  /\ signing[<<d, u>>] = "create" /\ page[d] = "start"
  /\ u \notin accounts
  /\ accounts' = accounts \union {u}
  /\ user' = [user EXCEPT ![d] = u]
  /\ page' = [page EXCEPT ![d] = "unverified"]
  /\ Add(<<d, u>>, <<"set", Empty>>)
  /\ signing' = [signing EXCEPT ![<<d, u>>] = "idle"]
  /\ UNCHANGED <<verified, username, naming, history>>

(* The request fails, or is refused as the address has an account: nobody  *)
(* is logged in, though the account may be there by now.                   *)
CreateFails(d, u) ==
  /\ signing[<<d, u>>] = "create" /\ page[d] = "start"
  /\ \/ UNCHANGED <<accounts, cut>>
     \/ u \notin accounts /\ accounts' = accounts \union {u} /\ cut' = cut \union {u}
  /\ signing' = [signing EXCEPT ![<<d, u>>] = "idle"]
  /\ UNCHANGED <<verified, username, user, page, naming, queue, doubled, blind, raced>>

(* login, for an account that exists: main() shows the page its address    *)
(* calls for.                                                              *)
LogIn(d, u) ==
  /\ page[d] = "start" /\ u \in accounts \ Google
  /\ ~Asking(d)
  /\ user' = [user EXCEPT ![d] = u]
  /\ page' = [page EXCEPT ![d] = IF u \in verified THEN "checking" ELSE "unverified"]
  /\ UNCHANGED <<cloud, naming, signing, queue, history>>

(* signupWithGoogle: signing in creates the account if need be.  main()    *)
(* shows the app at once, while the handler asks for the document.         *)
GoogleSignIn(d, u) ==
  /\ page[d] = "start" /\ u \in Google
  /\ ~Asking(d)
  /\ accounts' = accounts \union {u}
  /\ verified' = verified \union {u}
  /\ user' = [user EXCEPT ![d] = u]
  /\ page' = [page EXCEPT ![d] = "checking"]
  /\ signing' = [signing EXCEPT ![<<d, u>>] = "get"]
  /\ UNCHANGED <<username, naming, queue, history>>

(* The answer is lost: the account is there, but nobody is logged in.      *)
GoogleSignInFails(d, u) ==
  /\ page[d] = "start" /\ u \in Google \ accounts
  /\ ~Asking(d)
  /\ accounts' = accounts \union {u}
  /\ verified' = verified \union {u}
  /\ cut' = cut \union {u}
  /\ UNCHANGED <<username, user, page, naming, signing, queue, doubled, blind, raced>>

(* mutant: the document is written whether there is one or not             *)
GoogleGetAlwaysSets(d, u) ==
  /\ signing[<<d, u>>] = "get"
  /\ signing' = [signing EXCEPT ![<<d, u>>] = "idle"]
  /\ Add(<<d, u>>, <<"set", Empty>>)
  /\ cut' = cut \ {u}
  /\ doubled' = IF \E e \in UsedBy(u) \ {d} : signing[<<e, u>>] = "get" \/ SetPending(<<e, u>>)
                  THEN doubled \union {u} ELSE doubled
  /\ UNCHANGED <<cloud, user, page, naming, blind, raced>>

(* ... and writes a new one if there was none: that makes good for an      *)
(* earlier sign-up that was cut off.                                       *)
GoogleGet(d, u) ==
  /\ signing[<<d, u>>] = "get"
  /\ signing' = [signing EXCEPT ![<<d, u>>] = "idle"]
  /\ cut' = cut \ {u}
  /\ IF Sees(d, u) # NoDocument
       THEN UNCHANGED <<queue, doubled>>
       ELSE /\ Add(<<d, u>>, <<"set", Empty>>)
            /\ doubled' =
                 IF \E e \in UsedBy(u) \ {d} : signing[<<e, u>>] = "get" \/ SetPending(<<e, u>>)
                   THEN doubled \union {u} ELSE doubled
  /\ UNCHANGED <<cloud, user, page, naming, blind, raced>>

(* The document cannot be read: the handler ends, the user is logged in.   *)
GoogleGetFails(d, u) ==
  /\ signing[<<d, u>>] = "get"
  /\ signing' = [signing EXCEPT ![<<d, u>>] = "idle"]
  /\ cut' = cut \union {u}
  /\ UNCHANGED <<cloud, user, page, naming, queue, doubled, blind, raced>>

(* The link of the mail is followed: signup sends one and EmailNotVerified *)
(* another at will.  No page takes notice before the next login or start.  *)
Verify(u) ==
  /\ u \in accounts
  /\ verified' = verified \union {u}
  /\ UNCHANGED <<accounts, username, user, page, naming, signing, queue, history>>

(* EmailNotVerified, "Login", and the logout of the settings.  The         *)
(* username page has no way out.  What signupWithGoogle still asks for is  *)
(* refused without a login.                                                *)
LogOut(d) ==
  /\ page[d] \in {"unverified", "checking", "app"}
  /\ user' = [user EXCEPT ![d] = Nobody]
  /\ page' = [page EXCEPT ![d] = "start"]
  /\ IF signing[<<d, user[d]>>] = "get"
       THEN /\ signing' = [signing EXCEPT ![<<d, user[d]>>] = "idle"]
            /\ cut' = cut \union {user[d]}
       ELSE UNCHANGED <<signing, cut>>
  /\ UNCHANGED <<cloud, naming, queue, doubled, blind, raced>>

-----------------------------------------------------------------------------
(* The home page and the username page                                     *)

(* checkUsername of the home page.  Who has a name goes on, and so does    *)
(* who left the page before the answer.                                    *)
Check(d) ==
  /\ page[d] = "checking"
  /\ \/ /\ Sees(d, user[d]) \in {NoDocument, Empty}
        /\ page' = [page EXCEPT ![d] = "username"]
     \/ page' = [page EXCEPT ![d] = "app"]
  /\ UNCHANGED <<cloud, user, naming, signing, queue, history>>

(* The home page is built anew.                                            *)
Home(d) ==
  /\ page[d] = "app"
  /\ page' = [page EXCEPT ![d] = "checking"]
  /\ UNCHANGED <<cloud, user, naming, signing, queue, history>>

(* getAllUsername                                                          *)
FetchNames(d) ==
  /\ page[d] = "username" /\ ~fetched[d]
  /\ names' = [names EXCEPT ![d] = {Sees(d, u) : u \in Users} \ {NoDocument}]
  /\ fetched' = [fetched EXCEPT ![d] = TRUE]
  /\ UNCHANGED <<cloud, user, page, signing, queue, history>>

(* mutant: the list is not consulted                                       *)
SubmitUnchecked(d, n) ==
  /\ page[d] = "username"
  /\ Len(queue[<<d, user[d]>>]) <= MaxPending
  /\ Add(<<d, user[d]>>, <<"update", n>>)
  /\ blind' = IF fetched[d] THEN blind ELSE blind \union {user[d]}
  /\ UNCHANGED <<cloud, user, page, naming, signing, cut, doubled, raced>>

(* setUsername: a name that is in the list is refused.  Nothing disables   *)
(* the button, neither before the list is there nor while a name is on its *)
(* way.                                                                    *)
Submit(d, n) ==
  /\ page[d] = "username"
  /\ n \notin names[d]
  /\ Len(queue[<<d, user[d]>>]) <= MaxPending
  /\ Add(<<d, user[d]>>, <<"update", n>>)
  /\ blind' = IF fetched[d] THEN blind ELSE blind \union {user[d]}
  /\ UNCHANGED <<cloud, user, page, naming, signing, cut, doubled, raced>>

-----------------------------------------------------------------------------
(* With the page go its list and the handlers that wait for an answer.     *)
CloseNames(d) ==
  /\ names' = [names EXCEPT ![d] = {}]
  /\ fetched' = [fetched EXCEPT ![d] = FALSE]

Orphaned(writes) ==
  [i \in DOMAIN writes |->
     IF writes[i][1] = "update" THEN <<"orphan", writes[i][2]>> ELSE writes[i]]

(* The server applies the oldest write of the queue of the user who is     *)
(* logged in, and its answer resumes the handler that waits for it.        *)

Sends(d, u, kinds) ==
  user[d] = u /\ queue[<<d, u>>] # <<>> /\ Head(queue[<<d, u>>])[1] \in kinds

(* set() replaces the document.                                            *)
ApplySet(d, u) ==
  /\ Sends(d, u, {"set"})
  /\ username' = [username EXCEPT ![u] = Head(queue[<<d, u>>])[2]]
  /\ queue' = [queue EXCEPT ![<<d, u>>] = Tail(@)]
  /\ UNCHANGED <<accounts, verified, user, page, naming, signing, history>>

(* update() of a missing document is refused and the username page stays;  *)
(* else the profile replaces it.                                           *)
ApplyUpdate(d, u) ==
  /\ Sends(d, u, {"update", "orphan"})
  /\ IF username[u] = NoDocument
       THEN UNCHANGED <<username, raced>>
       ELSE /\ username' = [username EXCEPT ![u] = Head(queue[<<d, u>>])[2]]
            /\ raced' = raced \union
                 {<<v, u>> : v \in {v \in Users \ {u} : \E e \in UsedBy(v) : Relies(e, v)}}
  /\ IF username[u] # NoDocument /\ Sends(d, u, {"update"})
       THEN /\ page' = [page EXCEPT ![d] = "app"]
            /\ queue' = [queue EXCEPT ![<<d, u>>] = Orphaned(Tail(@))]
            /\ CloseNames(d)
       ELSE /\ queue' = [queue EXCEPT ![<<d, u>>] = Tail(@)]
            /\ UNCHANGED <<page, naming>>
  /\ UNCHANGED <<accounts, verified, user, signing, cut, doubled, blind>>

(* The app is killed and started again: its handlers end; what it had      *)
(* queued survives, but not in a browser; a request for an account may     *)
(* have arrived or not.  Who was logged in still is; that the address was  *)
(* verified meanwhile may be known by now or not.                          *)
Restart(d) ==
  /\ \/ page[d] \in {"start", "unverified"} /\ UNCHANGED page
     \/ /\ \/ page[d] \in {"checking", "username", "app"}
           \/ page[d] = "unverified" /\ user[d] \in verified
        /\ page' = [page EXCEPT ![d] = "checking"]
  /\ \E created \in SUBSET {u \in Uses(d) : signing[<<d, u>>] = "create"} :
       accounts' = accounts \union created
  /\ cut' = cut \union {u \in Uses(d) : signing[<<d, u>>] # "idle" \/ queue[<<d, u>>] # <<>>}
  /\ signing' = [c \in Clients |-> IF c[1] = d THEN "idle" ELSE signing[c]]
  /\ \E survives \in BOOLEAN :
       queue' = [c \in Clients |-> IF c[1] # d THEN queue[c]
                                  ELSE IF survives THEN Orphaned(queue[c]) ELSE <<>>]
  /\ CloseNames(d)
  /\ UNCHANGED <<verified, username, user, doubled, blind, raced>>

-----------------------------------------------------------------------------
Next ==
  \/ \E d \in Devices : \E u \in Uses(d) :
       \/ SignUp(d, u) \/ Created(d, u) \/ LogIn(d, u)
       \/ GoogleSignIn(d, u) \/ GoogleGet(d, u)
       \/ CreateFails(d, u) \/ GoogleSignInFails(d, u) \/ GoogleGetFails(d, u)
       \/ ApplySet(d, u) \/ ApplyUpdate(d, u)
  \/ \E d \in Devices :
       LogOut(d) \/ Check(d) \/ Home(d) \/ FetchNames(d) \/ Restart(d)
  \/ \E d \in Devices, n \in Names \union {Empty} : Submit(d, n)
  \/ \E u \in Users : Verify(u)

Spec == Init /\ [][Next]_vars

-----------------------------------------------------------------------------
(* Properties                                                              *)

(* Somebody who has an account but no document is about to get one, unless *)
(* the last sign-up was cut off or a request of it failed: otherwise the   *)
(* username page takes no name.                                            *)
UndocumentedIsUnderWay ==
  \A u \in accounts : username[u] = NoDocument =>
    u \in cut \/ \E d \in UsedBy(u) : signing[<<d, u>>] = "get" \/ SetPending(<<d, u>>)

(* Two users have the same name only if one submitted it before the list   *)
(* of names was there, or was using a list while the other was named.      *)
SharedNameNeedsRace ==
  \A u, v \in Users : u # v /\ username[u] = username[v] /\ username[u] \in Names
    => {u, v} \cap blind # {} \/ <<u, v>> \in raced \/ <<v, u>> \in raced

(* No sign-up takes a name away again, unless the account was signed up on *)
(* two devices at once: only the user can, with the empty name, that the   *)
(* username page takes as long as its list has nobody without a name.      *)
NameKept ==
  [][\A u \in Users : username[u] \in Names /\ username'[u] \notin Names
       => u \in doubled \/ \E d \in UsedBy(u) : ApplyUpdate(d, u)]_vars
=============================================================================
