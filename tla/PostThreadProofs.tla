-------------------------- MODULE PostThreadProofs --------------------------
(* The invariants of PostThread, for any set of comments and of widgets.   *)
EXTENDS PostThread, TLAPS

Stored(c) == writing[c] \notin {"idle", "set"}

(* postComment: the list a comment sends back holds its own id, and the    *)
(* list of the post is the one some posted comment sent.                   *)
ListedBySomeone ==
  /\ \A c \in Comments : writing[c] \in {"update", "posted"} => c \in list[c]
  /\ \/ postComments = {} /\ \A c \in Comments : writing[c] # "posted"
     \/ \E d \in Comments : writing[d] = "posted" /\ postComments = list[d]

(* While the audio is there no loop has begun, so the documents of the     *)
(* comments in the post, and in the lists about to be sent, are all there. *)
AudioGuards ==
  audioLive =>
    /\ postComments \subseteq commentDocs
    /\ \A c \in Comments :
         /\ writing[c] = "get" => c \in commentDocs
         /\ writing[c] = "update" => list[c] \subseteq commentDocs
    /\ \A w \in Widgets : deleting[w] = "docs" => todo[w] = {}

(* Outside the loop there is nothing left to delete.                       *)
OutsideLoop ==
  \A w \in Widgets :
    /\ deleting[w] \in {"idle", "failed", "audio", "done"} => todo[w] = {}
    /\ deleting[w] \in {"idle", "failed", "audio"} => scope[w] = {}

(* Every id that travels is the id of a comment already stored, so none of *)
(* the comments a loop sets out to delete is stored after it.              *)
TravelsStored ==
  /\ \A c \in postComments : Stored(c)
  /\ \A d \in Comments : writing[d] = "update" => \A c \in list[d] : Stored(c)
  /\ \A w \in Widgets : \A c \in cached[w] \union scope[w] : Stored(c)

(* What the loop set out to delete and is still there is on its list.      *)
LoopProgress ==
  \A w \in Widgets :
    deleting[w] \in {"docs", "done"} => scope[w] \cap commentDocs \subseteq todo[w]

IInv ==
  /\ TypeOK
  /\ ListedBySomeone
  /\ AudioGuards
  /\ OutsideLoop
  /\ TravelsStored
  /\ LoopProgress
-----------------------------------------------------------------------------
(* Every step of the program keeps every variable in its type.             *)
LEMMA TypeStep == ASSUME TypeOK, [Next]_vars PROVE TypeOK'
<1> USE DEF TypeOK, Writing, Viewing, Deleting
<1>1. ASSUME NEW c \in Comments, CommentStep(c) PROVE TypeOK'
  <2>1. CASE TapComment(c)
    BY <2>1 DEF TapComment, server, viewing, deletion
  <2>2. CASE SetComment(c)
    BY <2>2 DEF SetComment, viewing, deletion
  <2>3. CASE GetPost(c)
    BY <2>3 DEF GetPost, server, viewing, deletion
  <2>4. CASE UpdatePost(c)
    BY <2>4 DEF UpdatePost, viewing, deletion
  <2>5. CASE AbandonComment(c)
    BY <2>5 DEF AbandonComment, server, viewing, deletion
  <2> QED
    BY <1>1, <2>1, <2>2, <2>3, <2>4, <2>5 DEF CommentStep
<1>2. ASSUME NEW w \in Widgets, WidgetStep(w) PROVE TypeOK'
  <2>1. CASE OpenWidget(w)
    BY <2>1 DEF OpenWidget, server, commenting, deletion
  <2>2. CASE LoadWidget(w)
    BY <2>2 DEF LoadWidget, server, commenting, deletion
  <2>3. CASE TapDelete(w)
    BY <2>3 DEF TapDelete, server, commenting, viewing
  <2>4. CASE DeleteAudio(w)
    <3>1. UNCHANGED <<postLive, postComments, commentDocs, writing, list, view, cached>>
      BY <2>4 DEF DeleteAudio, commenting, viewing
    <3>2. audioLive' \in BOOLEAN /\ deleting' \in [Widgets -> Deleting]
      BY <2>4 DEF DeleteAudio
    <3>3. todo' \in [Widgets -> SUBSET Comments] /\ scope' \in [Widgets -> SUBSET Comments]
      BY <2>4 DEF DeleteAudio
    <3> QED
      BY <3>1, <3>2, <3>3
  <2>5. CASE DeleteComment(w)
    BY <2>5 DEF DeleteComment, commenting, viewing
  <2>6. CASE DeletePost(w)
    BY <2>6 DEF DeletePost, commenting, viewing
  <2>7. CASE KillDelete(w)
    BY <2>7 DEF KillDelete, server, commenting, viewing
  <2> QED
    BY <1>2, <2>1, <2>2, <2>3, <2>4, <2>5, <2>6, <2>7 DEF WidgetStep
<1>3. CASE UNCHANGED vars
  BY <1>3 DEF vars, server, commenting, viewing, deletion
<1> QED
  BY <1>1, <1>2, <1>3 DEF Next

(* The type invariant: whatever the sets of comments and widgets.          *)
THEOREM TypeCorrect == Spec => []TypeOK
<1>1. Init => TypeOK
  BY DEF Init, TypeOK, Writing, Viewing, Deleting
<1> QED
  BY <1>1, TypeStep, PTL DEF Spec
(* UpdatePost makes its own comment the one whose list the post holds; no  *)
(* other step touches the list of the post or un-posts a comment.          *)
LEMMA ListedStep == ASSUME IInv, [Next]_vars PROVE ListedBySomeone'
<1> USE DEF IInv, TypeOK, Writing, Viewing, Deleting, ListedBySomeone,
            server, commenting, viewing, deletion
<1>1. ASSUME NEW c \in Comments, CommentStep(c) PROVE ListedBySomeone'
  <2>1. CASE GetPost(c)
    BY <2>1 DEF GetPost
  <2>2. CASE UpdatePost(c)
    BY <2>2 DEF UpdatePost
  <2> QED
    BY <1>1, <2>1, <2>2
       DEF CommentStep, TapComment, SetComment, AbandonComment
<1>2. ASSUME NEW w \in Widgets, WidgetStep(w) PROVE ListedBySomeone'
  BY <1>2 DEF WidgetStep, OpenWidget, LoadWidget, TapDelete, DeleteAudio,
          DeleteComment, DeletePost, KillDelete
<1>3. CASE UNCHANGED vars
  BY <1>3 DEF vars
<1> QED
  BY <1>1, <1>2, <1>3 DEF Next

(* A comment is stored before it is fetched, extended and sent; a loop     *)
(* gets something to delete only from the step that removes the audio.     *)
LEMMA AudioStep == ASSUME IInv, [Next]_vars PROVE AudioGuards'
<1> USE DEF IInv, TypeOK, Writing, Viewing, Deleting, AudioGuards,
        OutsideLoop,
            server, commenting, viewing, deletion
<1>1. ASSUME NEW c \in Comments, CommentStep(c) PROVE AudioGuards'
  <2>1. CASE SetComment(c)
    BY <2>1 DEF SetComment
  <2>2. CASE GetPost(c)
    BY <2>2 DEF GetPost
  <2>3. CASE UpdatePost(c)
    BY <2>3 DEF UpdatePost
  <2> QED
    BY <1>1, <2>1, <2>2, <2>3
       DEF CommentStep, TapComment, AbandonComment
<1>2. ASSUME NEW w \in Widgets, WidgetStep(w) PROVE AudioGuards'
  <2>1. CASE TapDelete(w)
    BY <2>1 DEF TapDelete
  <2>2. CASE DeleteAudio(w)
    BY <2>2 DEF DeleteAudio
  <2>3. CASE DeleteComment(w)
    BY <2>3 DEF DeleteComment
  <2> QED
    BY <1>2, <2>1, <2>2, <2>3
       DEF WidgetStep, OpenWidget, LoadWidget, DeletePost, KillDelete
<1>3. CASE UNCHANGED vars
  BY <1>3 DEF vars
<1> QED
  BY <1>1, <1>2, <1>3 DEF Next

(* The loop is filled when it is entered and left when it is empty.        *)
LEMMA OutsideStep == ASSUME IInv, [Next]_vars PROVE OutsideLoop'
<1> USE DEF IInv, TypeOK, Writing, Viewing, Deleting, OutsideLoop,
            server, commenting, viewing, deletion
<1>1. ASSUME NEW c \in Comments, CommentStep(c) PROVE OutsideLoop'
  BY <1>1 DEF CommentStep, TapComment, SetComment, GetPost, UpdatePost,
          AbandonComment
<1>2. ASSUME NEW w \in Widgets, WidgetStep(w) PROVE OutsideLoop'
  <2>1. CASE DeleteAudio(w)
    BY <2>1 DEF DeleteAudio
  <2>2. CASE DeleteComment(w)
    BY <2>2 DEF DeleteComment
  <2>3. CASE DeletePost(w)
    BY <2>3 DEF DeletePost
  <2> QED
    BY <1>2, <2>1, <2>2, <2>3
       DEF WidgetStep, OpenWidget, LoadWidget, TapDelete, KillDelete
<1>3. CASE UNCHANGED vars
  BY <1>3 DEF vars
<1> QED
  BY <1>1, <1>2, <1>3 DEF Next

(* Ids enter the list of the post, the list of a comment, a widget and the *)
(* scope of a deletion only from each other, and first from GetPost.       *)
LEMMA TravelsStep == ASSUME IInv, [Next]_vars PROVE TravelsStored'
<1> USE DEF IInv, TypeOK, Writing, Viewing, Deleting, TravelsStored, Stored,
            server, commenting, viewing, deletion
<1>1. ASSUME NEW c \in Comments, CommentStep(c) PROVE TravelsStored'
  <2>1. CASE GetPost(c)
    BY <2>1 DEF GetPost
  <2>2. CASE UpdatePost(c)
    BY <2>2 DEF UpdatePost
  <2> QED
    BY <1>1, <2>1, <2>2
       DEF CommentStep, TapComment, SetComment, AbandonComment
<1>2. ASSUME NEW w \in Widgets, WidgetStep(w) PROVE TravelsStored'
  <2>1. CASE LoadWidget(w)
    BY <2>1 DEF LoadWidget
  <2>2. CASE DeleteAudio(w)
    BY <2>2 DEF DeleteAudio
  <2> QED
    BY <1>2, <2>1, <2>2
       DEF WidgetStep, OpenWidget, TapDelete, DeleteComment, DeletePost,
               KillDelete
<1>3. CASE UNCHANGED vars
  BY <1>3 DEF vars
<1> QED
  BY <1>1, <1>2, <1>3 DEF Next

(* A comment stored while a loop runs is none of those it set out to       *)
(* delete; what the loop takes off its list it has deleted.                *)
LEMMA ProgressStep == ASSUME IInv, [Next]_vars PROVE LoopProgress'
<1> USE DEF IInv, TypeOK, Writing, Viewing, Deleting, LoopProgress,
        TravelsStored, Stored, OutsideLoop,
            server, commenting, viewing, deletion
<1>1. ASSUME NEW c \in Comments, CommentStep(c) PROVE LoopProgress'
  <2>1. CASE SetComment(c)
    BY <2>1 DEF SetComment
  <2> QED
    BY <1>1, <2>1
       DEF CommentStep, TapComment, GetPost, UpdatePost, AbandonComment
<1>2. ASSUME NEW w \in Widgets, WidgetStep(w) PROVE LoopProgress'
  <2>1. CASE TapDelete(w)
    BY <2>1 DEF TapDelete
  <2>2. CASE DeleteAudio(w)
    BY <2>2 DEF DeleteAudio
  <2>3. CASE DeleteComment(w)
    BY <2>3 DEF DeleteComment
  <2>4. CASE DeletePost(w)
    BY <2>4 DEF DeletePost
  <2> QED
    BY <1>2, <2>1, <2>2, <2>3, <2>4
       DEF WidgetStep, OpenWidget, LoadWidget, KillDelete
<1>3. CASE UNCHANGED vars
  BY <1>3 DEF vars
<1> QED
  BY <1>1, <1>2, <1>3 DEF Next

LEMMA InitIInv == Init => IInv
  BY DEF Init, IInv, TypeOK, ListedBySomeone, AudioGuards, OutsideLoop,
         TravelsStored, LoopProgress, Writing, Viewing, Deleting

LEMMA Inductive == Spec => []IInv
<1>1. IInv /\ [Next]_vars => IInv'
  BY TypeStep, ListedStep, AudioStep, OutsideStep, TravelsStep, ProgressStep
     DEF IInv
<1> QED
  BY <1>1, InitIInv, PTL DEF Spec

-----------------------------------------------------------------------------
(* A playable post never lists a comment without a document, with any      *)
(* number of comments and deletions in flight.                             *)
THEOREM PlayableIsConsistent == Spec => []NoDanglingComment
<1>1. IInv => NoDanglingComment
  BY DEF IInv, AudioGuards, NoDanglingComment
<1> QED
  BY <1>1, Inductive, PTL

(* A posted comment is lost only to another posted one that overlapped it. *)
THEOREM LossNeedsOverlap == Spec => []LostOnlyToOverlap
<1>1. IInv => LostOnlyToOverlap
  BY DEF IInv, ListedBySomeone, LostOnlyToOverlap
<1> QED
  BY <1>1, Inductive, PTL

(* A completed deletion left none of the comments its widget had loaded.   *)
THEOREM DeletionIsThorough == Spec => []DeletedWhatItSaw
<1>1. IInv => DeletedWhatItSaw
  BY DEF IInv, OutsideLoop, LoopProgress, DeletedWhatItSaw
<1> QED
  BY <1>1, Inductive, PTL

(* No comment, however late its update() arrives, revives a deleted post.  *)
THEOREM NoResurrection == Spec => PostStaysDeleted
<1>1. [Next]_vars => [~postLive => ~postLive']_vars
  <2> SUFFICES ASSUME Next, ~postLive PROVE ~postLive'
    OBVIOUS
  <2>1. ASSUME NEW c \in Comments, CommentStep(c) PROVE ~postLive'
    BY <2>1 DEF CommentStep, TapComment, SetComment, GetPost, UpdatePost,
                AbandonComment, server
  <2>2. ASSUME NEW w \in Widgets, WidgetStep(w) PROVE ~postLive'
    BY <2>2 DEF WidgetStep, OpenWidget, LoadWidget, TapDelete, DeleteAudio,
                DeleteComment, DeletePost, KillDelete, server
  <2> QED
    BY <2>1, <2>2 DEF Next
<1> QED
  BY <1>1, PTL DEF Spec, PostStaysDeleted

-----------------------------------------------------------------------------
(* The steps that Thread does not know change nothing that it is about.    *)
LEMMA CommentKeeps ==
  ASSUME IInv, NEW c \in Comments, CommentStep(c)
  PROVE  Threads!ThreadNext \/ UNCHANGED Threads!thread
<1> USE DEF Threads!ThreadNext, Threads!thread, server
<1>1. CASE SetComment(c)
  BY <1>1 DEF SetComment, Threads!Store
<1>2. CASE UpdatePost(c)
  <2>1. CASE postLive
    <3>1. list[c] \in SUBSET Comments
      BY DEF IInv, TypeOK
    <3>2. audioLive => list[c] \subseteq commentDocs
      BY <1>2 DEF UpdatePost, IInv, AudioGuards
    <3>3. Threads!List(list[c])
      BY <1>2, <2>1, <3>2 DEF UpdatePost, Threads!List
    <3> QED
      BY <3>1, <3>3
  <2>2. CASE ~postLive
    BY <1>2, <2>2 DEF UpdatePost
  <2> QED
    BY <2>1, <2>2
<1> QED
  BY <1>1, <1>2 DEF CommentStep, TapComment, GetPost, AbandonComment

LEMMA WidgetKeeps ==
  ASSUME IInv, NEW w \in Widgets, WidgetStep(w)
  PROVE  Threads!ThreadNext \/ UNCHANGED Threads!thread
<1> USE DEF Threads!ThreadNext, Threads!thread, server
<1>1. CASE DeleteAudio(w)
  BY <1>1 DEF DeleteAudio, Threads!LoseAudio
<1>2. CASE DeleteComment(w)
  <2>1. PICK c \in todo[w] : commentDocs' = commentDocs \ {c}
    BY <1>2 DEF DeleteComment
  <2>2. c \in Comments /\ ~audioLive
    BY <1>2, <2>1 DEF DeleteComment, IInv, TypeOK, AudioGuards
  <2>3. Threads!Remove(c)
    BY <1>2, <2>1, <2>2 DEF DeleteComment, Threads!Remove
  <2> QED
    BY <2>2, <2>3
<1>3. CASE DeletePost(w)
  BY <1>3 DEF DeletePost, Threads!Drop
<1> QED
  BY <1>1, <1>2, <1>3 DEF WidgetStep, OpenWidget, LoadWidget, TapDelete, KillDelete

(* PostThread implements Thread: the page of a post may rely on what       *)
(* Thread promises, whatever readers and owner do.                         *)
THEOREM ThreadIsKept == Spec => KeepsThread
<1>1. Init => Threads!ThreadInit
  BY DEF Init, Threads!ThreadInit
<1>2. IInv /\ [Next]_vars => [Threads!ThreadNext]_(Threads!thread)
  <2> SUFFICES ASSUME IInv, [Next]_vars PROVE Threads!ThreadNext \/ UNCHANGED Threads!thread
    OBVIOUS
  <2>1. CASE UNCHANGED vars
    BY <2>1 DEF vars, server, Threads!thread
  <2> QED
    BY <2>1, CommentKeeps, WidgetKeeps DEF Next
<1> QED
  BY <1>1, <1>2, Inductive, PTL DEF Spec, KeepsThread, Threads!ThreadSpec
=============================================================================
