----------------------------- MODULE PostThread -----------------------------
(***************************************************************************)
(* The life of one published post: its document in "posts", its audio file *)
(* in storage and the documents of its comments, while readers comment on  *)
(* it (CommentModal.postComment) and its owner deletes it                  *)
(* (AudioPlayerWidget.deletePost), from any number of screens at once.     *)
(*                                                                         *)
(* Every `await' of the code is a place where the other screens run, so a  *)
(* handler is one action per server round trip.  No operation touches two  *)
(* posts: one post is enough.                                              *)
(***************************************************************************)
EXTENDS Integers, FiniteSets

CONSTANTS
  Comments,     \* the document ids drawn by the taps on "Post Comment"
  Widgets       \* the AudioPlayerWidget instances shown to the post's owner

VARIABLES
  postLive,     \* the document posts/<postId> exists
  postComments, \* its field 'comments'
  audioLive,    \* its audio file exists in storage
  commentDocs,  \* the documents that exist in "comments"
  writing,      \* progress of postComment, for each comment
  list,         \* the local `comments' list of postComment
  view,         \* progress of getPostInfo, for each widget
  cached,       \* the widget's field `comments'
  deleting,     \* progress of deletePost, for each widget
  todo,         \* the comments its loop has still to delete
  scope         \* history: the comments its loop set out to delete

server == <<postLive, postComments, audioLive, commentDocs>>
commenting == <<writing, list>>
viewing == <<view, cached>>
deletion == <<deleting, todo, scope>>
vars == <<server, commenting, viewing, deletion>>

Writing == {"idle", "set", "get", "update", "posted", "failed"}
Viewing == {"closed", "loading", "loaded", "broken"}
Deleting == {"idle", "audio", "docs", "done", "failed", "killed"}

TypeOK ==
  /\ postLive \in BOOLEAN
  /\ audioLive \in BOOLEAN
  /\ postComments \subseteq Comments
  /\ commentDocs \subseteq Comments
  /\ writing \in [Comments -> Writing]
  /\ list \in [Comments -> SUBSET Comments]
  /\ view \in [Widgets -> Viewing]
  /\ cached \in [Widgets -> SUBSET Comments]
  /\ deleting \in [Widgets -> Deleting]
  /\ todo \in [Widgets -> SUBSET Comments]
  /\ scope \in [Widgets -> SUBSET Comments]

(* The post as postAudio leaves it: audio uploaded, no comment yet.        *)
Init ==
  /\ postLive = TRUE
  /\ postComments = {}
  /\ audioLive = TRUE
  /\ commentDocs = {}
  /\ writing = [c \in Comments |-> "idle"]
  /\ list = [c \in Comments |-> {}]
  /\ view = [w \in Widgets |-> "closed"]
  /\ cached = [w \in Widgets |-> {}]
  /\ deleting = [w \in Widgets |-> "idle"]
  /\ todo = [w \in Widgets |-> {}]
  /\ scope = [w \in Widgets |-> {}]

-----------------------------------------------------------------------------
(* CommentModal.postComment                                                *)

(* A tap draws a document id and issues its set().  The button stays       *)
(* enabled and nothing ties the tap to the post still being there.         *)
TapComment(c) ==
  /\ writing[c] = "idle"
  /\ writing' = [writing EXCEPT ![c] = "set"]
  /\ UNCHANGED <<server, list, viewing, deletion>>

(* The server stores the comment; the code goes on to get() the post.      *)
SetComment(c) ==
  /\ writing[c] = "set"
  /\ commentDocs' = commentDocs \union {c}
  /\ writing' = [writing EXCEPT ![c] = "get"]
  /\ UNCHANGED <<postLive, postComments, audioLive, list, viewing, deletion>>

(* mutant: the new id is never added to the fetched list                   *)
GetPostForgetsId(c) ==
  /\ writing[c] = "get"
  /\ postLive
  /\ list' = [list EXCEPT ![c] = postComments]
  /\ writing' = [writing EXCEPT ![c] = "update"]
  /\ UNCHANGED <<server, viewing, deletion>>

(* The post arrives: its list is copied, extended and sent back whole.     *)
(* Reading a field of a missing document throws, and the catch ends there. *)
GetPost(c) ==
  /\ writing[c] = "get"
  /\ \/ /\ postLive
        /\ list' = [list EXCEPT ![c] = postComments \union {c}]
        /\ writing' = [writing EXCEPT ![c] = "update"]
     \/ /\ ~postLive
        /\ writing' = [writing EXCEPT ![c] = "failed"]
        /\ UNCHANGED list
  /\ UNCHANGED <<server, viewing, deletion>>

(* mutant: set(.., merge) in the place of update: the post is created      *)
UpdatePostCreates(c) ==
  /\ writing[c] = "update"
  /\ postLive' = TRUE
  /\ postComments' = list[c]
  /\ writing' = [writing EXCEPT ![c] = "posted"]
  /\ UNCHANGED <<audioLive, commentDocs, list, viewing, deletion>>

(* The server replaces the field by the list it is sent; update() of a     *)
(* missing document is refused.                                            *)
UpdatePost(c) ==
  /\ writing[c] = "update"
  /\ \/ /\ postLive
        /\ postComments' = list[c]
        /\ writing' = [writing EXCEPT ![c] = "posted"]
     \/ /\ ~postLive
        /\ writing' = [writing EXCEPT ![c] = "failed"]
        /\ UNCHANGED postComments
  /\ UNCHANGED <<postLive, audioLive, commentDocs, list, viewing, deletion>>

(* A request throws, or the app is killed: nothing after it runs.          *)
AbandonComment(c) ==
  /\ writing[c] \in {"set", "get", "update"}
  /\ writing' = [writing EXCEPT ![c] = "failed"]
  /\ UNCHANGED <<server, list, viewing, deletion>>

-----------------------------------------------------------------------------
(* AudioPlayerWidget: getPostInfo and deletePost                           *)

OpenWidget(w) ==
  /\ view[w] = "closed"
  /\ view' = [view EXCEPT ![w] = "loading"]
  /\ UNCHANGED <<server, commenting, cached, deletion>>

(* getPostInfo fills the fields of the widget once; data()! of a missing   *)
(* document throws and they keep their empty defaults.                     *)
LoadWidget(w) ==
  /\ view[w] = "loading"
  /\ \/ /\ postLive
        /\ cached' = [cached EXCEPT ![w] = postComments]
        /\ view' = [view EXCEPT ![w] = "loaded"]
     \/ /\ ~postLive
        /\ view' = [view EXCEPT ![w] = "broken"]
        /\ UNCHANGED cached
  /\ UNCHANGED <<server, commenting, deletion>>

(* The menu is there before the post is loaded.  Until then audioPath and  *)
(* comments are empty: the audio is skipped and the loop has no iteration. *)
TapDelete(w) ==
  /\ view[w] # "closed"
  /\ deleting[w] \in {"idle", "failed"}
  /\ deleting' = [deleting EXCEPT ![w] =
                    IF view[w] = "loaded" THEN "audio" ELSE "docs"]
  /\ UNCHANGED <<server, commenting, viewing, todo, scope>>

(* mutant: the loop over the comments runs before the audio is deleted     *)
DeleteAudioLast(w) ==
  /\ deleting[w] = "audio"
  /\ deleting' = [deleting EXCEPT ![w] = "docs"]
  /\ todo' = [todo EXCEPT ![w] = cached[w]]
  /\ scope' = [scope EXCEPT ![w] = cached[w]]
  /\ UNCHANGED <<server, commenting, viewing>>

(* Storage deletes the audio file, and refuses when there is none: the     *)
(* exception then skips the rest of deletePost.                            *)
DeleteAudio(w) ==
  /\ deleting[w] = "audio"
  /\ \/ /\ audioLive
        /\ audioLive' = FALSE
        /\ deleting' = [deleting EXCEPT ![w] = "docs"]
        /\ todo' = [todo EXCEPT ![w] = cached[w]]
        /\ scope' = [scope EXCEPT ![w] = cached[w]]
     \/ /\ ~audioLive
        /\ deleting' = [deleting EXCEPT ![w] = "failed"]
        /\ UNCHANGED <<audioLive, todo, scope>>
  /\ UNCHANGED <<postLive, postComments, commentDocs, commenting, viewing>>

(* The loop deletes the cached comments one by one (a missing one is fine) *)
DeleteComment(w) ==
  /\ deleting[w] = "docs"
  /\ \E c \in todo[w] :
       /\ commentDocs' = commentDocs \ {c}
       /\ todo' = [todo EXCEPT ![w] = @ \ {c}]
  /\ UNCHANGED <<postLive, postComments, audioLive, commenting, viewing,
                 deleting, scope>>

(* mutant: the loop stops one comment short                                *)
DeletePostEarly(w) ==
  /\ deleting[w] = "docs"
  /\ Cardinality(todo[w]) <= 1
  /\ postLive' = FALSE
  /\ deleting' = [deleting EXCEPT ![w] = "done"]
  /\ todo' = [todo EXCEPT ![w] = {}]
  /\ UNCHANGED <<postComments, audioLive, commentDocs, commenting, viewing,
                 scope>>

(* mutant: the post is deleted in the body of the loop: never, for a post  *)
(* without comments                                                        *)
DeletePostInLoop(w) ==
  /\ deleting[w] = "docs"
  /\ todo[w] = {}
  /\ cached[w] # {}
  /\ postLive' = FALSE
  /\ deleting' = [deleting EXCEPT ![w] = "done"]
  /\ UNCHANGED <<postComments, audioLive, commentDocs, commenting, viewing,
                 todo, scope>>

(* ... and then the post itself.                                           *)
DeletePost(w) ==
  /\ deleting[w] = "docs"
  /\ todo[w] = {}
  /\ postLive' = FALSE
  /\ deleting' = [deleting EXCEPT ![w] = "done"]
  /\ UNCHANGED <<postComments, audioLive, commentDocs, commenting, viewing,
                 todo, scope>>

(* The app is killed, or a request throws, with the deletion under way.    *)
(* The next start shows the post in another widget.                        *)
KillDelete(w) ==
  /\ deleting[w] \in {"audio", "docs"}
  /\ deleting' = [deleting EXCEPT ![w] = "killed"]
  /\ UNCHANGED <<server, commenting, viewing, todo, scope>>

-----------------------------------------------------------------------------
CommentStep(c) ==
  \/ TapComment(c) \/ SetComment(c) \/ GetPost(c) \/ UpdatePost(c)
  \/ AbandonComment(c)

WidgetStep(w) ==
  \/ OpenWidget(w) \/ LoadWidget(w) \/ TapDelete(w)
  \/ DeleteAudio(w) \/ DeleteComment(w) \/ DeletePost(w) \/ KillDelete(w)

Next ==
  \/ \E c \in Comments : CommentStep(c)
  \/ \E w \in Widgets : WidgetStep(w)

Spec == Init /\ [][Next]_vars

(* Requests that were sent are answered, and the event loop resumes every  *)
(* handler whose answer is there; nobody has to tap, open or kill.         *)
Fairness ==
  \A w \in Widgets :
    /\ WF_vars(LoadWidget(w))
    /\ WF_vars(DeleteAudio(w))
    /\ WF_vars(DeleteComment(w))
    /\ WF_vars(DeletePost(w))

FairSpec == Spec /\ Fairness

-----------------------------------------------------------------------------
(* Properties                                                              *)

(* A post that can still be played lists no comment whose document is      *)
(* missing: postComment stores the document before it links it, deletePost *)
(* removes the audio before the first comment.  PostPage.getComments       *)
(* relies on it: one missing document makes its sort throw.                *)
NoDanglingComment == audioLive => postComments \subseteq commentDocs

(* A posted comment goes missing from the post only because another        *)
(* comment, posted too, sent back a list fetched without it.               *)
LostOnlyToOverlap ==
  \A c \in Comments :
    writing[c] = "posted" /\ c \notin postComments
      => \E d \in Comments \ {c} : writing[d] = "posted" /\ c \notin list[d]

(* A deletion that completes has removed every comment its widget knew of, *)
(* whatever the other screens did meanwhile.                               *)
DeletedWhatItSaw ==
  \A w \in Widgets : deleting[w] = "done" => scope[w] \cap commentDocs = {}

(* A comment that arrives late never brings a deleted post back.           *)
PostStaysDeleted == [][~postLive => ~postLive']_vars

(* Whatever readers and owner do at the same time, the page of the post     *)
(* may rely on what Thread promises: while it can be played, no comment    *)
(* goes and none is listed before it is stored; and a deleted post never   *)
(* comes back.                                                             *)
Threads == INSTANCE Thread WITH
  live <- postLive, playable <- audioLive, listed <- postComments, stored <- commentDocs
KeepsThread == Threads!ThreadSpec

(* Once the audio is gone the post goes too, unless an app is killed in    *)
(* the middle of a deletion.                                               *)
DeletionCompletes ==
  \/ <>(\E w \in Widgets : deleting[w] = "killed")
  \/ ~audioLive ~> ~postLive
=============================================================================
