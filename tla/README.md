# Ilili: a verification development

Ilili is a Flutter application (`src/lib`, Dart) in which users publish short
audio posts, comment on them and like them, follow each other and chat. It has
no server code of its own: every screen talks directly to Firebase (Auth,
Firestore, Storage, Messaging), from any number of phones and browsers at once,
without one transaction. Every `await` of a handler is therefore a place where
other handlers, other screens, other devices or a kill can come in between. The
repository has one trivial widget test (`test/widget_test.dart`); none of that
is tested. It is what the modules here are about.

Contents: [the system](#1-the-system-an-inventory),
[assumptions about the platform](#2-what-is-assumed-of-the-platform),
[the modules](#3-the-modules), [runs](#4-the-runs), [proofs](#5-the-proofs),
[disagreements met](#6-where-code-and-comments-disagree),
[what is left](#7-what-is-not-modelled-and-the-plan).

## 1. The system: an inventory

All the program's own logic is in `src/lib/main.dart`, `src/lib/appRouter.dart`
and `src/lib/components/*.dart`, 9,128 lines in 24 files, two thirds of which
are layout. The rest of the repository is generated by Flutter, vendored
packages or build output.

What is shared is in the cloud: Firestore's `users/<uid>` (username, followers,
followings, chats, posts, description, picture), `posts/<name>` (title, tags,
owner, audio path, comments, likes, score), `comments/<id>` (text, likes,
score), `chats/<me>/<other>/<message>` (one box per direction), and the files of
Storage (audio, pictures). Each screen keeps copies of what it fetched when it
was opened, and decides from them.

| Component | State it keeps | Operations | What is hard | What makes it correct |
|---|---|---|---|---|
| Comments and deletion (`widget.dart`) | the widget's copy of comments and audio path | `postComment`, `getPostInfo`, `deletePost` | four awaits each, failures, kills, several screens | no playable post names a missing comment; losses only by overlap; a deletion is thorough and final |
| Following (`UserProfilePage.dart`) | copy of the followers | `getUserData`, `follow` | two writes per tap, overlapping taps, stale copy | the two documents agree; a follower can unfollow |
| Sending (`chat.dart`) | the text field, pending writes | `sendMessage`, `addConversation` | un-awaited writes, lists written back whole, kills | conversations are not empty; losses only to others; delivery |
| Read flags (`chat.dart`) | a listener on the *other* box | build, `markAllAsRead` | overlapping loops; the box shown is not the one marked | what is read was shown, what is shown gets read |
| Likes of a comment (`postPage.dart`) | the flag `isLiked` | `getComment`, `likeComment` | un-awaited updates, stale flag | the score counts screens; the last tap wins |
| Accounts (`signup.dart`, `login.dart`, `setUsername.dart`, `emailNotVerified.dart`, `home.dart`, `settings.dart`, `main.dart`) | the page of each device, the list of names, the queue of writes | sign-up, login, logout, `checkUsername`, `setUsername` | the page changes while `signup()` still runs; users share devices | accounts get documents; names are unique but for races; names stay |
| Profile editing (`changeProfile.dart`) | file globals that outlive page and login | `pickImage`, `getProfilePhoto`, `changeUserInfo` | fields read after the upload, late answers | no missing picture; nobody else's picture; no bad name without a race |
| Publishing (`addPost.dart`, `appRouter.dart`) | title, tags, audio (globals) | `postAudio` | fields read after each await; logout, kill, second tap | playable posts; posts are what was confirmed; uploads become posts |
| Recording (`addPost.dart`) | `isRecording`, `audioRecorder`, `audioPath` | `startRecording`, `stopRecording`, `pickAudioFile`, `dispose` | the recorder is re-read after each await; leaving in between | the microphone is held by the page or released |
| Comment page (`postPage.dart`) | one list of comments that all pages of the file share | `getComments`, `refresh`, `sort`, `dispose`, the frame that builds the section | late answers of pages that were left; a list replaced just before the frame; comments that are gone | a page shows its own post's comments, all of them; it only breaks over a deletion; it is built |
| Likes and tags of a post (`widget.dart`) | the widget's list of likes; the dialog's list of tags | `likePost`; `getTags`, `addTag`, `deleteTag`, `postTags` | an awaited update before the list changes; a list written back whole; pops without asking what is on top | hearts tell the truth; tags are lost only on purpose and never too many; the page below stays |
| Notifications (`main.dart`, `settings.dart`) | the topics of a phone, the stored preference | start, login, logout, the switch | several users of one phone; nothing is awaited | on is on, off is off |
| Unread conversations (`home.dart`, `messageList.dart`) | the number on the home page | `getNumbersLastMessage` | one await per conversation; order by text timestamps | what is unread is counted |
| Feed (`home.dart`), player and report (`widget.dart`) | what was fetched | `getFeedPosts`, play | – | not modelled |
| Own profile, search, static pages, e-mail and password recovery, language and support, advertisements | nothing shared, or one request | – | – | not modelled |

The components meet in the documents they share: publishing creates the post
that comments and deletion change; the comment page relies on what these
promise, stated by Thread (its sort throws on one missing comment among several,
`postPage.dart:62`); the widgets of a post and of a comment write likes and tags
beside it; accounts and profile editing both write `username`;
sending creates the messages that the read flags are about and that the home
page counts; logging in and out
(Accounts) decides whose queue of writes a device sends, which Publish and
Profile model again as `LogIn` and `LogOut`.

`PROJECT.json` lists the hazards of this code, each at its line, with the
properties that cover it.

## 2. What is assumed of the platform

What is not in `src/lib` is modelled from the way the code uses it, as follows.

- **Firestore.** An operation on one document is atomic. `update()` of a missing
  document is refused; `set()` creates or overwrites; `delete()` of a missing
  document succeeds. `arrayUnion`, `arrayRemove` and `increment` are carried out
  by the server. An awaited write resumes when it is acknowledged.
- A client's writes to the documents wait in a queue per device and user, are
  sent in order and only while that user is logged in; `get()` shows the own
  pending writes on top of what the server has. A phone keeps the queue over a
  kill, a browser loses it: where that matters the model leaves both open.
- A snapshot listener is told when data it watches has changed, not otherwise.
- **Storage.** Deleting a missing file throws. Uploading a path that is no file
  fails. `whenComplete` runs its function after a failure too, and then rethrows.
- **FlutterSound.** A recorder carries out its calls in order; starting or
  stopping one that is not open fails.
- **Dart.** Handlers run to their next `await` without interruption. An answer
  that comes after the page was left still resumes its handler; `setState` of a
  left page has no effect beyond the assignment in it. (That is the release
  build. A debug build throws there; `getComments` would then stop before it
  replaces the shared list, which PostPage covers as a call that fails.)
- **Firebase Messaging.** Subscribing to topics and leaving them are carried out
  in the order they were asked for; an app that ends keeps a first part of them.
- **SharedPreferences.** A preference is changed in memory at once and stored later.
- **Navigator.** `pop` removes what is on top: a route that is already on its way
  out is passed over, and the one below goes.
- Requests may fail where the code has a path for it: each `catch` that ends a
  handler which has something left to do is an action, or one of the ways an action
  can end. Refusals by security
  rules, which are not in the repository, are left out, but for writes of
  somebody who is no longer logged in. A chat with oneself is left out.
- PostThread and Chat are about clients whose user stays logged in, ReadReceipts
  too. The code reads `auth.currentUser` again after its awaits (`chat.dart:147`,
  285, 294-296): after a logout such a handler throws or its writes are refused, as
  if the app had been killed there, which `AbandonComment`, `Kill` and `GiveUp`
  cover; that another user of the same phone logs in meanwhile, so that the handler
  goes on as theirs, is left out. What `DeletionCompletes` and `Delivered` excuse
  for a kill is therefore to be read as a kill or a logout.

**Fairness** is assumed of nobody's taps. Where a liveness property needs it,
each request that was sent is answered, perhaps with a failure, and the event loop
resumes the handler that waits for it (weak fairness of each handler's steps):
PostThread, Chat, ReadReceipts, PostPage, and of each recorder in Recorder.
PostPage also assumes that frames are drawn and that the transition of a page
that is left ends. The code waits for these without a timeout, so nothing in it
needs more. Deadlock is checked unless the taps of the model are used up by
design (each comment, send, dialog or recording call occurs once: the runs
thread, chat, likes and recorder).

## 3. The modules

Each module has one action per stretch of a handler between two awaits; the
variables named "history" are not in the code and are only read by properties.
A definition whose comment says "mutant" is a wrong variant of the one after it
and is used by no specification: `PROJECT.json` says which property it breaks.

**PostThread** – one post (no operation touches two). `postLive`,
`postComments`, `audioLive` and `commentDocs` are the server; `writing`/`list`
the progress and the local list of `postComment`; `view`/`cached` what
`getPostInfo` brought the widget; `deleting`/`todo` the progress of `deletePost`.
`TapComment → SetComment → GetPost → UpdatePost` is `postComment`, any step of
which may be the last (`AbandonComment`: an exception or a kill). `TapDelete →
DeleteAudio → DeleteComment* → DeletePost` is `deletePost`.

**Thread** – the abstract promise of PostThread to whoever shows a post: comments
are stored before they are listed, none goes while the post has its audio, and a
deleted post stays so. `KeepsThread` states that PostThread implements it, with
`live`, `playable`, `listed` and `stored` mapped to the server's four variables.

**PostPage** – extends Thread, whose steps are the environment. `commentList` is
the variable of the file that all pages share; a page is `Open`ed on top of the
others, its first call of `getComments` goes on with `GetPost` and `GetComments`
(or `Fail`s), and the first frame after it `Build`s the section, once: it is
`const` (`postPage.dart:150`), so that a refresh or a sort changes the list but
not what is shown. A page that is left is `Dispose`d at the end of the transition,
which empties the list under whichever page is on top by then. The loop over the
comments is one step: a comment that is gone shows at its end in either case.

**Follow** – `followers`/`followings` of all users. A page is `Open`ed and
`Load`ed; `Tap` chooses the branch of `follow()` by the page's copy, of which
only `times`, how often it holds the own name, matters; `sent` are the writes a
page waits for, answered in order by `Answer` (the second write of a tap is sent
by the answer to the first). The unfollow branch removes from the field
`following`, which no document has (`UserProfilePage.dart:79`).

**Chat** – a send is `Tap` (the sender's copy), `AddPeer` on its acknowledgement
(which reads the text field anew, `chat.dart:252`; `edited` notes the sends whose
field was changed until then), `GetOwn` and `GetPeer`
(`addConversation`: read a list, extend it, write it back un-awaited). `outbox`
is each client's queue; `Apply` sends its head. `Kill` ends all handlers of a
client and loses or keeps what is pending.

**Inbox**, **ReadReceipts** – Inbox is the abstract promise: a message is marked
only once it is there, no mark is taken back, and what a reader has begun to
read gets read, unless that is excused (the reader's app was killed, or the call failed). ReadReceipts is the page:
`Open`, `GetMyInfo` and `Build` show the *other's* box and each start a call of
`markAllAsRead`, which `Get`s the *own* box and `Update`s message by message; the
calls overlap (`getting`, `left`) and outlive the page. A call that throws at its read
or at any update gives up (`GiveUp`), and a page whose `getMyInfo` fails is built once
less; nothing retries either, which `missed` notes. `MeetsInbox` states that
it implements Inbox, with `there` mapped to the receiver's copies, `reading`
to what the calls have found and `excused` to what a failed or killed call owed.

**CommentLikes** – the document's `likes` and `score`; each widget's `isLiked`
starts false whatever the server has (`postPage.dart:297` assigns a local that
hides the field), flips at every `Tap`, and sends an update of both fields.

**PostLikes** – the heart of a post. `likePost` chooses its branch by the widget's
list, of which only `entries` matters, how often it holds the user; the list is
changed by the `Answer`, so that a second `Tap` before it takes the same branch.

**TagsDialog** – the dialogs of a post's tags. `GetTags` replaces what the dialog
shows whenever it comes, `PostTags` sends the whole list, any number of times, and
each `Answer` pops: the dialog, or the page below if the dialog is leaving already.
`kept` is what the dialog has fetched and the user has not deleted in it.
**Likes** – CommentLikes (as `Comment`), PostLikes (as `Post`) and TagsDialog side by
side, with each one's assumption and properties by their own names. They share no
state, so *MCLikes* lets one of them move per behaviour.

**Notifications** – one phone and its users in turn: `user`, the preference in
memory and in storage, `topics`, and the `queue` of subscriptions. `LogIn` is
`main()` hearing of a login and subscribing to the user's topic; nothing leaves it
at `LogOut`; `Switch` is `setValues`; `Restart` is an app that ends, loses what had
not reached queue or storage, and starts again.

**Unread** – the home page's count. A message is written `at` an instant and bears
its writer's local time as text; `Timestamp` is the number that is ordered as that
text is, with `kk` printing hours from 1 to 24. `GetLast` is one round of the loop,
which asks for the last message of one conversation by that order. *MCNotifications*
puts it beside Notifications as MCLikes does.

ReadReceipts, Recorder, Profile and Unread name their specifications
`ReceiptsSpec`, `RecorderSpec`, `ProfileSpec` and `UnreadSpec`, their parts
accordingly: a module of proofs extends two modules at a time.

**Account** – `accounts`, `verified` and `username` (the documents) in the
cloud; per device who is logged in and which page `main()` shows; per device and
user the queue of writes and the progress of a sign-up. `SignUp`/`Created` are
the two halves of `signup()`, `GoogleSignIn`/`GoogleGet` those of
`signupWithGoogle()`, `CreateFails`, `GoogleSignInFails` and `GoogleGetFails` their
`catch` blocks (an account whose creation is answered by an error may be there
or not, and a failing read leaves the account without a document), `FetchNames`/`Submit`/`CloseNames` the username page,
`Check` and `Home` the home page, `Restart` a kill and a new start.

**Profile** – one phone and its users in turn. The globals of
`changeProfile.dart` (`lastUsername`, `picture`, `isPhotoChanged`) survive page
and login. Opening the page asks three requests whose answers come in any order,
also after it was left or another has logged in; `asked` counts those of each kind
and user that are not answered. `SaveInfo` and `SavePhoto` are
the two branches of `changeUserInfo`, the latter going on with `Upload` and
`WhenComplete`.

**Publish** – several devices. `Confirm` fixes the name of a post; `GetPosts`
takes title and path; `Upload` stores the file; `StoreDocument` takes tags and
user, writes the document, and after that the list in the user's document. The
page can be edited, left or opened anew and the user logged out at every point.
Title, tags and audio are one draft of which each part remembers where it is from.
`ApplyDocument` and `ApplyList` send what a device has queued; with the answer to the
first the page closes, or only a confirmation dialog that was opened on it once more.
`UrlFails` is a request for the URL that fails for another reason than a missing
file: the handler's `catch` ends it. `DeleteAudio` and `DeleteDocument` are
`deletePost` of `widget.dart` on a stored post, once per name, and leave the name in
the list of the user's document, as the code does (`widget.dart:224`).

**Recorder** – one visit of the page. Every call of `startRecording` or
`stopRecording` is its own process; each recorder has a queue of requests, which
`Carry` answers in order: the recorder runs, or has stopped, from then on. The call
that waits resumes in a step of its own (`Opened`, `Started`, `Stopped`, `Closed`,
`Failed`), so that anything may come in between, and a file may be written before
`setState` has cleared the path (`addPost.dart:200`, 202). It reads
`audioRecorder` again when it resumes, so it may act on another's recorder.

## 4. The runs

A run checks the properties named in its `.cfg` on the instance in the `MC`
module. Every property of a passing run has a mutant, a plausible bug in one of
the mapped definitions with which TLC finds it violated.

| Run | Instance | States | Checks |
|---|---|---|---|
| thread | 3 comments, 2 owner's widgets | 428,806 | a playable post lists only comments that exist; a comment is lost only to an overlapping one; a completed deletion removed all its widget knew; refinement of Thread (so deleted posts stay so); once the audio is gone the post follows, unless killed |
| follow | 2 pages of one user on one profile, 2 pending taps each | 106,645 | each follower follows, but for follows under way or cut off; the settled page of a follower offers to unfollow |
| chat | 3 users, 3 sends (1→2 twice on one page, 3→1) | 281,436 | both copies of a message agree unless the field was changed in between; no listed conversation is empty; once nothing waits, lists lack entries only after another client's stale write; what is sent arrives |
| receipts | 2 messages to one reader, 2 overlapping marking calls there, 1 at the sender | 249,204 | refinement of Inbox; what is read was shown; what an idle page shows is read, unless it was shown before the receiver's copy existed or the call that owed it failed |
| likes | 3 hearts of a comment, two of one user, 3 pending updates; 2 hearts of a post, 3 unanswered taps; 2 dialogs (2 saves, 1 save), 3 tags, at most 2 | 2.3 M | the score is the number of screens whose last applied tap was a like (so never negative); on a settled widget the last tap wins; a post's heart tells the truth unless tapped early; tags go only when deleted or not known, and are never too many; the page below a dialog stays |
| account | an e-mail user and a Google user, 2 devices, one shared | 4.2 M | an account without a document is getting one, unless a kill, a logout or a failing request cut that off; equal names need a race; no sign-up takes a name away, unless it ran on two devices |
| profile | 2 users of a phone, 2 names, 2 visits, 1 save at a time | 1.1 M | no document names a missing picture; no picture of another without a save before the loading; empty or equal names need a race |
| recorder | 3 starts, 2 stops | 2.3 M | a running recorder is the page's or about to be closed; the button offers to stop it; what can be posted is finished but until the start that overwrites it has its answer; leaving releases the microphone – all but the second unless starts crossed another call or the leaving |
| publish | 2 users, 2 devices, 2 posts, 2 names, 2 drafts, 2 visits | 3.8 M | a post's file exists until its deletion begins; a post is what was confirmed unless disturbed; lists name only posts that were stored; an uploaded audio gets its post unless its app is killed, its request fails, nobody is logged in or its file is deleted with another post of that name |
| post_page | 2 pages, the first of another post and refreshed; 2 comments, 1 of the other post | 814,882 | a page shows its post's comments, none missing that were there all the time, unless its call failed or the list changed before the frame; calls break only over a deletion; every page is built |
| notifications | 2 users of a phone, 3 queued operations; 2 conversations of 2 messages, days of 3 hours with 2 instants each, 7 instants, 2 time zones | 4.3 M | with the switch on the user's topic is subscribed, with it off not, unless somebody else used it last or a start came between; an unread conversation is counted unless a later message, another zone or midnight hides it |
| follow_symmetric | as follow | – | a comment of the code that the code contradicts (section 6) |

The longest run, publish, takes about three and a half minutes with two workers.

**Bounds.** `MaxPending` bounds the taps or writes that wait at once, `MaxPages`
and `MaxVisits` how often a page is opened, `Runs` how many marking calls one
user has under way, `MaxTaps` and `MaxSaves` the unanswered taps and saves,
`MaxQueue` the queued subscriptions, `NumPages` the pages of comments opened one
after the other and `Refreshing` those that are refreshed, `MaxTime` and `PerHour`
the instants; `Comments`, `Sends`, `Starts`, `Stops`, `Posts`, `Messages` are the
events that may occur at all. `MaxTags` is 3 in the code; 2 of 3 tags already fill a
post. They are enough for what can go wrong here: every
hazard is a meeting of two handlers (a third comment, start or send shows what
the loser of a first race does to the next), a queue of two already has an order
to get wrong, and a second visit is what a global that outlives the first needs. In Unread a
user an hour ahead of midnight sees both a change of day and an hour that is not
the first within seven instants, which both excuses of its property need.
In Account, `MaxPending = 0` says that no name is submitted while a write to the
same document is pending; a pending `set()` of a sign-up still meets a name.
Follow, Profile and Publish use symmetry over sets whose members no definition
tells apart; none of these runs has a liveness property.

**Excuses in properties.** Several properties say "unless". The conditions are
history variables or a description of the race, not parameters of the model:
they name exactly the schedules in which this code fails, and the property
shows that it fails in no other. The mutants show that the excuses are not so
wide as to hide a bug next to them.

## 5. The proofs

TLAPS proves, for every value of the constants (any number of users, devices,
pages, comments, screens, any bound on pending writes):

| Module | Theorem | From |
|---|---|---|
| PostThreadProofs | `TypeCorrect`, `PlayableIsConsistent`, `LossNeedsOverlap`, `DeletionIsThorough`, `NoResurrection`, `ThreadIsKept` | no assumption |
| PostPageProofs | `TypeCorrect`, `PagesAreCurrent`, `OnlyDeletionBreaks` | `PagesAssumption`, `CommentsAssumption` (comments of the two posts differ) |
| FollowProofs | `TypeCorrect`, `FollowersAreBacked`, `FollowersCanUnfollow` | `PageAssumption` (a page has a user and a profile) |
| FollowProofs (Profile) | `PhotosExist`, `NamesNeedRace`, `FilesAreOwn` | `DistinctAssumption` (placeholders are no users and no texts), `MaxVisitsAssumption` |
| ChatProofs | `TypeCorrect`, `ListedIsBacked`, `TextsAreTheSame`, `ListsAreKept` | `SendAssumption` (whose sends they are, and to whom; nobody writes to himself) |
| ChatProofs (ReadReceipts) | `MarkedWasShown`, `ShownGetsRead`, `MarksFitInbox` | `FromAssumption`, `PairAssumption` (two users) |
| LikesProofs | `TagsStayFew`, `TagsAreKept`, `PagesStay` | `TagsAssumption` (finitely many tags; a post is published with no more than may be typed) |
| LikesProofs (PostLikes, CommentLikes) | `HeartsTell`, `ScreensAreCounted`, `LastTapsWin` | `PostAssumption`, `CommentAssumption` (finitely many widgets) |
| PublishProofs | `TypeCorrect`, `PostsHaveAudio`, `ConfirmedIsPosted`, `ListedWerePosted`, `UploadsArePosted` | `DistinctAssumption`, `NoneAssumption` (placeholders are no values), `MaxPagesAssumption` |
| PublishProofs (Recorder) | `MicrophonesAreHeld`, `StopsAreOffered`, `RecordingsAreFinished` | `NoRecorderAssumption`, `CallAssumption` (starts are no stops) |
| NotificationsProofs | `SwitchedOnIsOn`, `SwitchedOffIsOff` | `DistinctAssumption` |
| NotificationsProofs (Unread) | `UnreadAreCounted` | `UnreadAssumption` (a message is of its conversation; an hour and a day are not empty) |
| AccountProofs | `TypeCorrect`, `AccountsGetDocuments`, `NamesAreUnique`, `NamesAreKept` | `ClientsAssumption`, `DistinctAssumption` |

The inductive invariants, and why the properties alone do not suffice:

- **PostThread.** `NoDanglingComment` is not inductive: a stale list about to be
  written could name a deleted comment. `AudioGuards` says that, while the audio
  is there, also the lists under way name only stored comments, and that no
  deletion loop has begun. `ListedBySomeone` says that the post's list is the one
  some posted comment sent, own id included: whoever is not in it was not in what
  that comment had fetched. `TravelsStored` (every id that travels belongs to a
  comment stored before, and each id is stored once) with `LoopProgress` gives
  that nothing a loop has deleted comes back. The same invariant gives the
  refinement `ThreadIsKept`: each action is mapped to one of Thread's or to a
  stutter; the guards `playable => l \subseteq stored` of `List` and `~playable` of
  `Remove` are what `AudioGuards` says.
- **PostPage.** Nothing about what is shown is inductive without what may come to
  be shown: `FindsOwn` says what the calls have found, `WaitsForIts` that the shared
  list fits each page about to be built from it unless it was overtaken, `ShowsIts`
  the same of what was built. `StoredWhole` says that, while the post is there with
  its audio, all that it lists or a call has found is stored: it needs Thread and
  nothing else of PostThread, so that with `ThreadIsKept` it holds of the whole.
- **Chat.** `ListsBacked` says of the lists that *travel*, too, that they name only
  conversations with both copies, because `addConversation` begins when both are
  there. `TextsAgree` follows a text from the tap over the queue to the box.
  `ListLostOnlyToOthers` speaks of the end, when nothing waits; `ListsKept` says it of
  every moment: the lists of one client are `Linked`, so that who is in a queued list
  is in every earlier one and in the stored one unless a write in between adds them or
  another client's did without (`LostIn`), and who was `Told` – is in what the client
  reads, its own queue first – stays so. It is kept because a client reads its own
  writes before it extends a list, so that two of its sends do not overwrite each
  other. Lemmas say what appending to a queue and applying its head do to `Linked`.
- **ReadReceipts.** That what is read was shown needs the same of what the calls have
  *found* (`FoundFits`) and that calls outlive a page only if it was left in a hurry
  (`CallsOnOpen`). `SeenIsMarked` is `ShownIsRead` before the calls have ended: what
  an open page has shown is read, or a call will find it, or has it left to mark.
  `MarksFitInbox` maps each step to one of Inbox (`Arrive`, `Begin`, `Read`, `Excuse`) or to
  a stutter; with the `Finishes` that TLC checks this is `MeetsInbox`.
- **Likes of a comment.** `ScoreCountsScreens` equates a number with the cardinality
  of a set and says nothing of the updates on their way. `Turns` does: those of a
  widget alternate, from what was applied last to what its flag says, so that each
  changes by one both the score and the set. `LastCounts` relates `likes` to the last
  update of each user.
- **Heart of a post.** `PostInv`: a screen that was not tapped too early has one
  update under way at most, which agrees with its list.
- **Tags.** `ListsFit`: what is shown, sent or stored is small and holds what
  was `kept`; `PressedFirst`: more than one save under way, or one under way from a
  dialog that leaves, was noted.
- **Publish.** `PageFits` says that, until a post is done or disturbed, page and user
  are as they were at the confirmation (one that was cut off stores nothing more);
  `FileFits` says, of a name that no two posts
  share (`Alone`), that it has no file before the upload and the right one after.
  `Sound` says of a
  document, stored or *queued*, whose it is and what it holds, and that its file is
  there unless its deletion has begun; that writes are sent
  in order keeps a queued list behind its document. `Posted` is what a list may name:
  a post that is stored, or was until its deletion was done.
- **Recorder.** The three properties share one invariant. `AskedOnce` and
  `RequestsFit` tie each request to the one call that waits for its answer;
  `StartsAlone` says of a start that crossed nothing that no other call is in
  progress and that the page holds its recorder, or that of a start it met;
  `RunsHeld`, of one that runs and whose start has its answer, that other calls first
  wait for it to stop;
  `ButtonFits` that what the page holds runs only if the button says so, or before
  the answer has come.
- **Notifications.** The topics say nothing while operations wait. `OnWillBe` and
  `OffWillBe` state the properties of what the queue will come to (`Ends`: the last
  operation on a topic decides); lemmas say what appending, sending and cutting the
  queue short do to that.
- **Unread.** `DueIsFound` says of every moment of the loop that what was to be found is
  still to be looked at, counted, read or hidden. The one step with content,
  `LaterTextHides`, is about the text of times: if the text of one is not before that
  of another, it is not older or one of the excuses applies. It rests on lemmas on
  division by any number (`Division`, `DivisionUnique`, `DivisionTwice`) and on
  `Digits`, which compares days, hours and instants with the first hour moved to the
  end of its day.
- **Profile.** `BadNameNeedsRace` says nothing of names on their way. `Claims` are the
  names a user has, has queued, or has checked for a save under way; `ClaimsApart`
  says that users who have not raced claim different ones and never the empty one.
  A checked name is free because a fetched list has every other user's only name
  (`ListIsCurrent`): nothing of theirs was under way when it was fetched, or they are
  noted as having raced. `PhotoLoaded` and `SourceIsOwn` say where the picture of a
  page and of a save is from.
- **Follow.** `FollowersBacked` is inductive with the types. For
  `FollowerCanUnfollow`, `CopyCatchesUp` relates a page's copy to the *last word*
  among its pending writes; lemmas `QueueAppend` and `QueueTail` say what adding
  and answering a write does to a queue.
- **Account.** A page tells who may be logged in (`PageMatchesUser`), and only
  Google users wait for `signupWithGoogle`'s read (`OnlyGoogleGets`); with these
  `UndocumentedIsUnderWay` is kept by every step. Lemmas on queues say that
  appending, sending and orphaning keep a pending `set()` where it is. For the names,
  `ClaimsAreChecked` says that the list a device relies on has the name of every other
  user, and that nobody has a pending write of another's name, unless it was sent
  without a list (`blind`) or the other was named meanwhile (`raced`); for `NameKept`, `OneSet` and
  `NewAreBlank` say that a user's document is made by one `set()`, which is blank, and
  not while there is one, unless the user was signed up on two devices at once.

With these each invariant and each action property that a run checks is proved.
**Only model-checked** is liveness under fairness (`DeletionCompletes`, `Delivered`,
`MicrophoneIsReleased`, `PageIsBuilt`, the `Finishes` of Inbox and with it `MeetsInbox`
as a whole), which is beyond the provers used.
Each module states a type invariant; it is a theorem where the table says so and a
part of the inductive invariant elsewhere. The inductive invariants were themselves
checked on the instances of the runs before they were proved.

## 6. Where code and comments disagree

Shown by a run that violates what a comment says:

- *follow_symmetric*: unfollowing removes from the field `following` (not
  `followings`), so the user goes on following (`UserProfilePage.dart:74`, 79).

Met while modelling, without a run of their own:

- The receiver's copy of a message is whatever the text field holds when the
  sender's copy has been acknowledged (`chat.dart:247`, 252; `SameText` bounds it).
- The hour of a message's time is printed from 1 to 24 (`kk`, `chat.dart:237`), and
  "the last message" (`messageList.dart:42`) is the last by that text: what was read
  of the first hour of a day hides everything unread of the rest of the day from
  list and count (`UnreadIsCounted` bounds it).
- "Stop any ongoing recording before starting a new one" (`addPost.dart:182`) is not
  done for one that is about to start (`MicrophoneIsHeld` bounds it).
- Refreshing or sorting comments changes the list but nothing that is shown: the
  section is `const` (`postPage.dart:150`).
- Deleting a post leaves its name in the `posts` of the user's document
  (`widget.dart:209-235` never touches it), so that this list comes to name posts that
  are gone (`ListedWasPosted` bounds it).
- A caught failure is not made up for: an account whose creation or first read fails
  after the account is there stays without a document (`signup.dart:189`, 536,
  `login.dart:361`), an uploaded audio whose URL cannot be had stays without a post
  (`addPost.dart:821`), a call of `markAllAsRead` that throws leaves the rest unread
  (`chat.dart:152`).
- Every start subscribes to "general" again after it was switched off, and the topic
  of who logs out stays (`main.dart:167`, 178; `OffIsOff` bounds it).
- The answer to a second "Change tags", or one to a dialog that was just dismissed,
  pops the page below (`widget.dart:629`; `PageStays` bounds it).
- The rest in short: a second `deletePost` after a
  broken one throws on the missing audio, so the post stays (`widget.dart:215`);
  the heart of a comment is grey whenever its page is opened (`postPage.dart:297`);
  a second save during the first's upload stores the empty username that the first
  left in the field (`changeProfile.dart:495`; `BadNameNeedsRace` bounds it); the
  message shown last stays unread until another event (`chat.dart:167`;
  `ShownIsRead` bounds it); `getPosts` reads a sub-collection nobody writes, so the
  list it is to extend only ever holds the newest post (`addPost.dart:759`);
  `dispose` ends the file's only player (`addPost.dart:43`), so that on the next
  visit `startRecording` throws at `stop()` (188), which is why Recorder covers
  one visit.

## 7. What is not modelled, and the plan

Not modelled: layout, texts and languages; advertisements; the report and support
e-mails; static pages; recovery of e-mail and password (one request each); sending
a notification (one request whose answer nobody waits for); the order of the feed
(a pure function of what was fetched) and the search; the own profile (two
queries); the picture upload of a browser, and its page for audio, which holds bytes
(`urlBytes`, `urlSource`) that `dispose` does not clear (`addPost.dart:40`); the preview player and the player of a
post, which show what the audio library reports; platform runners, vendored
packages and build output.

What the modules leave out on purpose: the order of tags, a chat with oneself, two
phones' topics (a phone shares none of them), and in Unread the minutes and seconds
but for an order within the hour, and messages of one text time, of which the
database may take either.

Written in this order, the most used and most exposed behaviour first: PostThread,
Follow, Chat, CommentLikes, Account, Profile, Inbox and ReadReceipts, Recorder,
Publish; Thread and PostPage; PostLikes and TagsDialog; Notifications; Unread; and
the proofs. To come:

1. **Player** of `widget.dart` (106-155): one player per widget, several on a page,
   and what `dispose` does to one that is loading.
2. **Feed**: `getFeedPosts` as a pure function, against posts and followings that
   change between its two requests.
