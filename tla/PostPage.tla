------------------------------ MODULE PostPage ------------------------------
(***************************************************************************)
(* The page of a post with its comments (postPage.dart).                   *)
(*                                                                         *)
(* All pages share one variable of the file, `commentList'.  A page calls  *)
(* getComments() when it opens and whenever it is refreshed; the call      *)
(* replaces the variable in the end, though the page be left by then, and  *)
(* the end of any page empties it.  What a page shows is built from it     *)
(* once, in the first frame after the page's first call: the comment       *)
(* section is constant (149) and not built again.                          *)
(*                                                                         *)
(* The pages show one post, whose thread goes on changing, or another,     *)
(* which keeps its comments.                                               *)
(***************************************************************************)
EXTENDS Naturals, FiniteSets, Thread

CONSTANTS
  NumPages,     \* bound: the pages that are opened, one after the other
  ofOther,      \* those of another post
  Others,       \* the comments of that post
  Blank,        \* a comment of which nothing was found
  NotYet,       \* what a page shows before it is built
  Refreshing    \* bound: the pages that are ever refreshed

ASSUME PagesAssumption ==
  NumPages \in Nat /\ ofOther \subseteq 1..NumPages /\ Refreshing \subseteq 1..NumPages
ASSUME CommentsAssumption ==
  Comments \intersect Others = {} /\ Blank \notin Comments \union Others

Pages == 1..NumPages
Calls == Pages \X {"first"} \union Refreshing \X {"again"}

VARIABLES
  life,         \* of each page: closed, open, leaving, left
  commentList,  \* the variable: its comments, and whether the newest come first
  phase,        \* progress of each call of getComments
  found,        \* the comments it has found the post to list
  shown,        \* what each page shows, or NotYet
  due,          \* history: the comments listed ever since the page was opened
  failed,       \* history: the pages whose first call failed, and why
  overtaken     \* history: those for which the list was changed before the frame

calls == <<phase, found>>
history == <<due, failed, overtaken>>
vars == <<thread, life, commentList, calls, shown, history>>

None == [items |-> {}, newest |-> TRUE]
Lists == [items : (SUBSET (Comments \union Others)) \union {{Blank}}, newest : BOOLEAN]

TypeOK ==
  /\ live \in BOOLEAN /\ playable \in BOOLEAN
  /\ listed \subseteq Comments /\ stored \subseteq Comments
  /\ life \in [Pages -> {"closed", "open", "leaving", "left"}]
  /\ commentList \in Lists
  /\ phase \in [Calls -> {"none", "post", "comments", "done"}]
  /\ found \in [Calls -> SUBSET (Comments \union Others)]
  /\ shown \in [Pages -> Lists \union {NotYet}]
  /\ due \in [Pages -> SUBSET (Comments \union Others)]
  /\ failed \in [Pages -> {"no", "request", "missing"}]
  /\ overtaken \subseteq Pages

Init ==
  /\ ThreadInit
  /\ life = [p \in Pages |-> "closed"]
  /\ commentList = None
  /\ phase = [c \in Calls |-> "none"] /\ found = [c \in Calls |-> {}]
  /\ shown = [p \in Pages |-> NotYet]
  /\ due = [p \in Pages |-> {}]
  /\ failed = [p \in Pages |-> "no"]
  /\ overtaken = {}

-----------------------------------------------------------------------------
(* The page that the user sees: the others are covered by it.              *)
IsTop(p) == life[p] = "open" /\ \A q \in Pages : q > p => life[q] # "open"

Listed(p) == IF p \in ofOther THEN Others ELSE listed
Stored(p) == IF p \in ofOther THEN Others ELSE stored

(* mutant: the section waits for a call that does not fail                 *)
WaitingForSuccess ==
  {p \in Pages : life[p] \in {"open", "leaving"} /\ phase[<<p, "first">>] = "done"
                   /\ shown[p] = NotYet /\ failed[p] = "no"}

(* The pages whose section will be built in the next frame.                *)
Waiting ==
  {p \in Pages : life[p] \in {"open", "leaving"} /\ phase[<<p, "first">>] = "done"
                   /\ shown[p] = NotYet}

(* initState                                                               *)
Open(p) ==
  /\ life[p] = "closed" /\ \A q \in Pages : q < p => life[q] # "closed"
  /\ life' = [life EXCEPT ![p] = "open"]
  /\ phase' = [phase EXCEPT ![<<p, "first">>] = "post"]
  /\ due' = [due EXCEPT ![p] = Listed(p)]
  /\ UNCHANGED <<thread, commentList, found, shown, failed, overtaken>>

(* The list is replaced, perhaps under pages about to be built from it.    *)
Replace(l) ==
  /\ commentList' = l
  /\ overtaken' = overtaken \union Waiting

-----------------------------------------------------------------------------
(* getComments                                                             *)

Ends(c) ==
  /\ phase' = [phase EXCEPT ![c] = IF c[2] = "first" THEN "done" ELSE "none"]
  /\ found' = [found EXCEPT ![c] = {}]

(* An exception ends the call, and nothing is replaced.                    *)
Throws(c, why) ==
  /\ Ends(c)
  /\ failed' = IF c[2] = "first" /\ life[c[1]] # "left"
                 THEN [failed EXCEPT ![c[1]] = why] ELSE failed
  /\ UNCHANGED <<commentList, overtaken>>

(* mutant: without comments there is nothing to be done                    *)
GetPostSkipsEmpty(c) ==
  /\ phase[c] = "post"
  /\ IF c[1] \in ofOther \/ live
       THEN /\ IF Listed(c[1]) = {}
                 THEN Ends(c)
                 ELSE /\ found' = [found EXCEPT ![c] = Listed(c[1])]
                      /\ phase' = [phase EXCEPT ![c] = "comments"]
            /\ UNCHANGED <<commentList, overtaken, failed>>
       ELSE Throws(c, "missing")
  /\ UNCHANGED <<thread, life, shown, due>>

(* The post arrives.  It may be gone: then there is no list to go through. *)
(* With an empty list there is nothing to wait for.                        *)
GetPost(c) ==
  /\ phase[c] = "post"
  /\ IF c[1] \in ofOther \/ live
       THEN /\ IF Listed(c[1]) = {}
                 THEN Ends(c) /\ Replace(None)
                 ELSE /\ found' = [found EXCEPT ![c] = Listed(c[1])]
                      /\ phase' = [phase EXCEPT ![c] = "comments"]
                      /\ UNCHANGED <<commentList, overtaken>>
            /\ UNCHANGED failed
       ELSE Throws(c, "missing")
  /\ UNCHANGED <<thread, life, shown, due>>

(* The comments have arrived, one after the other, are sorted and replace  *)
(* the list.  A comment that is gone has no timestamp, and sorting two     *)
(* or more then throws; that one of several was gone when it was asked for *)
(* shows in the end in the same way, so the loop is one step.              *)
GetComments(c) ==
  /\ phase[c] = "comments"
  /\ LET gone == found[c] \ Stored(c[1]) IN
       IF gone # {} /\ Cardinality(found[c]) > 1
         THEN Throws(c, "missing")
         ELSE /\ Ends(c)
              /\ Replace([items |-> IF gone = {} THEN found[c] ELSE {Blank},
                          newest |-> TRUE])
              /\ UNCHANGED failed
  /\ UNCHANGED <<thread, life, shown, due>>

(* A request fails.                                                        *)
Fail(c) ==
  /\ phase[c] \in {"post", "comments"}
  /\ Throws(c, "request")
  /\ UNCHANGED <<thread, life, shown, due>>

-----------------------------------------------------------------------------
(* The button                                                              *)
Refresh(p) ==
  /\ p \in Refreshing /\ IsTop(p) /\ phase[<<p, "again">>] = "none"
  /\ phase' = [phase EXCEPT ![<<p, "again">>] = "post"]
  /\ Replace(None)
  /\ UNCHANGED <<thread, life, found, shown, due, failed>>

(* sortComments, which sorts the variable itself: by age, or in an order   *)
(* that may be any other.                                                  *)
Sort(p) ==
  /\ IsTop(p) /\ Cardinality(commentList.items) > 1
  /\ \E newest \in BOOLEAN : Replace([commentList EXCEPT !.newest = newest])
  /\ UNCHANGED <<thread, life, calls, shown, due, failed>>

(* The frame after the first call: CommentSection.build                    *)
Build(p) ==
  /\ p \in Waiting
  /\ shown' = [shown EXCEPT ![p] = commentList]
  /\ UNCHANGED <<thread, life, commentList, calls, history>>

(* Another page takes the place of this one ...                            *)
Leave(p) ==
  /\ IsTop(p)
  /\ life' = [life EXCEPT ![p] = "leaving"]
  /\ UNCHANGED <<thread, commentList, calls, shown, history>>

(* ... which ends with the transition.                                     *)
Dispose(p) ==
  /\ life[p] = "leaving"
  /\ life' = [life EXCEPT ![p] = "left"]
  /\ commentList' = None
  /\ overtaken' = (overtaken \union Waiting) \ {p}
  /\ shown' = [shown EXCEPT ![p] = NotYet]
  /\ due' = [due EXCEPT ![p] = {}]
  /\ failed' = [failed EXCEPT ![p] = "no"]
  /\ UNCHANGED <<thread, calls>>

(* Readers comment and the owner deletes meanwhile.                        *)
ThreadStep ==
  /\ ThreadNext
  /\ due' = [p \in Pages |-> IF p \in ofOther THEN due[p] ELSE due[p] \intersect listed']
  /\ UNCHANGED <<life, commentList, calls, shown, failed, overtaken>>

-----------------------------------------------------------------------------
Next ==
  \/ \E p \in Pages :
       Open(p) \/ Refresh(p) \/ Sort(p) \/ Build(p) \/ Leave(p) \/ Dispose(p)
  \/ \E c \in Calls : GetPost(c) \/ GetComments(c) \/ Fail(c)
  \/ ThreadStep

(* Requests are answered, frames are drawn and transitions end.            *)
Fairness ==
  /\ \A c \in Calls : WF_vars(GetPost(c) \/ GetComments(c) \/ Fail(c))
  /\ \A p \in Pages : WF_vars(Build(p)) /\ WF_vars(Dispose(p))

Spec == Init /\ [][Next]_vars /\ Fairness

-----------------------------------------------------------------------------
(* Properties                                                              *)

(* What another page did to the shared list cannot be told from what this  *)
(* one did when its first call failed, or when the list was changed in the *)
(* moment between that call and the frame.                                 *)
Hindered(p) == failed[p] # "no" \/ p \in overtaken

(* Otherwise a page shows the comments of its own post and no others, the  *)
(* newest first, and none of those is missing that were listed all the     *)
(* time since it was opened, however many pages share the list.            *)
ShownIsCurrent ==
  \A p \in Pages :
    shown[p] # NotYet /\ ~Hindered(p) /\ shown[p].items # {Blank} =>
      /\ due[p] \subseteq shown[p].items
      /\ shown[p].items \subseteq (IF p \in ofOther THEN Others ELSE Comments)
      /\ shown[p].newest

(* A call fails over a missing comment, or a page shows a comment without  *)
(* an author, only if the deletion of the post has begun.                  *)
BrokenNeedsDeletion ==
  \A p \in Pages :
    failed[p] = "missing" \/ (shown[p] # NotYet /\ Blank \in shown[p].items)
      => ~playable \/ ~live

(* Every page gets to show its comments, or that there are none, unless it *)
(* is left before: none waits for ever, even if its requests fail.         *)
PageIsBuilt ==
  \A p \in Pages : life[p] = "open" ~> shown[p] # NotYet \/ life[p] = "left"
=============================================================================
