----------------------------- MODULE TagsDialog -----------------------------
(***************************************************************************)
(* The dialog in which the owner of a post changes its tags (widget.dart,  *)
(* ChangeTagsModal).  It fetches the tags when it opens, lets them be      *)
(* deleted and others be added from then on, and on every tap of "Change   *)
(* tags" writes its list back whole; the answer pops what is on top: the   *)
(* dialog, or the page below when the dialog is on its way out already.    *)
(*                                                                         *)
(* The dialogs are on devices of their own.  The order of the tags is left *)
(* out: nothing goes by it.                                                *)
(***************************************************************************)
EXTENDS Naturals, FiniteSets, Sequences

CONSTANTS
  Dialogs,      \* the dialogs that are opened, each once
  Typed,        \* the tags that can be typed
  First,        \* the tags that the post is published with
  MaxTags,      \* as many tags as a post can have: 3 in the code
  MaxSaves      \* bound: saves of each dialog that are not answered yet

ASSUME TagsAssumption ==
  /\ IsFiniteSet(Typed) /\ First \subseteq Typed
  /\ MaxSaves \in [Dialogs -> Nat] /\ MaxTags \in Nat /\ Cardinality(First) <= MaxTags

VARIABLES
  there,        \* the post is there
  tags,         \* its field `tags'
  dialog,       \* life of each dialog: closed, open, leaving, left
  asked,        \* those that wait for the tags
  tagsList,     \* the list each dialog shows
  saves,        \* what each dialog has sent, and `kept' at the time
  kept,         \* history: the tags it has fetched that were not deleted in it
  popped,       \* history: the dialogs that took the page below with them
  pressed       \* history: those closed or saved again before an answer

editing == <<tagsList, kept>>
vars == <<there, tags, dialog, asked, editing, saves, popped, pressed>>

TypeOK ==
  /\ there \in BOOLEAN /\ tags \subseteq Typed
  /\ dialog \in [Dialogs -> {"closed", "open", "leaving", "left"}]
  /\ asked \subseteq Dialogs /\ popped \subseteq Dialogs /\ pressed \subseteq Dialogs
  /\ tagsList \in [Dialogs -> SUBSET Typed]
  /\ kept \in [Dialogs -> SUBSET Typed]
  /\ saves \in [Dialogs -> Seq([list : SUBSET Typed, kept : SUBSET Typed])]

Init ==
  /\ there = TRUE /\ tags = First
  /\ dialog = [d \in Dialogs |-> "closed"]
  /\ asked = {} /\ popped = {} /\ pressed = {}
  /\ tagsList = [d \in Dialogs |-> {}] /\ kept = [d \in Dialogs |-> {}]
  /\ saves = [d \in Dialogs |-> <<>>]

-----------------------------------------------------------------------------
Open(d) ==
  /\ dialog[d] = "closed"
  /\ dialog' = [dialog EXCEPT ![d] = "open"]
  /\ asked' = asked \union {d}
  /\ UNCHANGED <<there, tags, editing, saves, popped, pressed>>

(* The tags as the device sees them: what it has under way is on top.      *)
Seen(d) == IF saves[d] = <<>> THEN tags ELSE saves[d][Len(saves[d])].list

Shows(d, list) ==
  /\ tagsList' = [tagsList EXCEPT ![d] = list]
  /\ kept' = [kept EXCEPT ![d] = Seen(d)]

(* mutant: the tags are added to what was typed before they arrived        *)
GetTagsAdds(d) ==
  /\ d \in asked
  /\ asked' = asked \ {d}
  /\ IF there THEN Shows(d, tagsList[d] \union Seen(d)) ELSE UNCHANGED editing
  /\ UNCHANGED <<there, tags, dialog, saves, popped, pressed>>

(* getTags: the list is replaced, whatever was typed or saved before.      *)
GetTags(d) ==
  /\ d \in asked
  /\ asked' = asked \ {d}
  /\ IF there THEN Shows(d, Seen(d)) ELSE UNCHANGED editing
  /\ UNCHANGED <<there, tags, dialog, saves, popped, pressed>>

(* mutant: a tag too many takes the place of another                       *)
AddTagInPlace(d, t) ==
  /\ dialog[d] = "open" /\ t \notin tagsList[d]
  /\ \E l \in {tagsList[d]} \union {tagsList[d] \ {o} : o \in tagsList[d]} :
       Cardinality(l) < MaxTags /\ tagsList' = [tagsList EXCEPT ![d] = l \union {t}]
  /\ UNCHANGED <<there, tags, dialog, asked, kept, saves, popped, pressed>>

(* addTag, of a tag that is not there and while there are not too many     *)
AddTag(d, t) ==
  /\ dialog[d] = "open"
  /\ t \notin tagsList[d] /\ Cardinality(tagsList[d]) < MaxTags
  /\ tagsList' = [tagsList EXCEPT ![d] = @ \union {t}]
  /\ UNCHANGED <<there, tags, dialog, asked, kept, saves, popped, pressed>>

(* deleteTag                                                               *)
DeleteTag(d, t) ==
  /\ dialog[d] = "open" /\ t \in tagsList[d]
  /\ tagsList' = [tagsList EXCEPT ![d] = @ \ {t}]
  /\ kept' = [kept EXCEPT ![d] = @ \ {t}]
  /\ UNCHANGED <<there, tags, dialog, asked, saves, popped, pressed>>

(* What the dialog shows is of no more use once it is on its way out.      *)
Forgets(d) ==
  /\ asked' = asked \ {d}
  /\ tagsList' = [tagsList EXCEPT ![d] = {}]
  /\ kept' = [kept EXCEPT ![d] = {}]

(* Navigator.pop                                                           *)
Pop(d) ==
  /\ dialog' = [dialog EXCEPT ![d] = IF @ = "open" THEN "leaving" ELSE @]
  /\ popped' = IF dialog[d] = "leaving" THEN popped \union {d} ELSE popped
  /\ Forgets(d)

(* mutant: the dialog does not wait for the answer to go                   *)
PostTagsAtOnce(d) ==
  /\ dialog[d] = "open" /\ Len(saves[d]) < MaxSaves[d]
  /\ saves' = [saves EXCEPT ![d] = Append(@,
       [list |-> tagsList[d], kept |-> kept[d]])]
  /\ Pop(d)
  /\ UNCHANGED <<there, tags, pressed>>

(* postTags: the list is sent.  Nothing disables the button, neither       *)
(* before the tags are there nor until the answer.                         *)
PostTags(d) ==
  /\ dialog[d] = "open" /\ Len(saves[d]) < MaxSaves[d]
  /\ saves' = [saves EXCEPT ![d] = Append(@,
       [list |-> tagsList[d], kept |-> kept[d]])]
  /\ pressed' = IF saves[d] = <<>> THEN pressed ELSE pressed \union {d}
  /\ UNCHANGED <<there, tags, dialog, asked, editing, popped>>

(* The oldest update replaces the field, and its answer pops the dialog,   *)
(* if it is still there.  Without a post it is refused, and nothing goes.  *)
Answer(d) ==
  /\ saves[d] # <<>>
  /\ saves' = [saves EXCEPT ![d] = Tail(@)]
  /\ IF there
       THEN tags' = Head(saves[d]).list /\ Pop(d)
       ELSE UNCHANGED <<tags, dialog, asked, editing, popped>>
  /\ UNCHANGED <<there, pressed>>

(* The user dismisses the dialog ...                                       *)
Dismiss(d) ==
  /\ dialog[d] = "open"
  /\ dialog' = [dialog EXCEPT ![d] = "leaving"]
  /\ pressed' = IF saves[d] = <<>> THEN pressed ELSE pressed \union {d}
  /\ Forgets(d)
  /\ UNCHANGED <<there, tags, saves, popped>>

(* ... and the transition ends: answers find no context any more.          *)
Dispose(d) ==
  /\ dialog[d] = "leaving"
  /\ dialog' = [dialog EXCEPT ![d] = "left"]
  /\ UNCHANGED <<there, tags, asked, editing, saves, popped, pressed>>

(* The app is killed: what it has sent may arrive, or not.                 *)
Kill(d) ==
  /\ dialog[d] \in {"open", "leaving"}
  /\ dialog' = [dialog EXCEPT ![d] = "left"]
  /\ saves' \in {saves, [saves EXCEPT ![d] = <<>>]}
  /\ Forgets(d)
  /\ UNCHANGED <<there, tags, popped, pressed>>

(* Another screen of the owner deletes the post.                           *)
Delete ==
  /\ there
  /\ there' = FALSE
  /\ UNCHANGED <<tags, dialog, asked, editing, saves, popped, pressed>>

Next ==
  \/ \E d \in Dialogs :
       \/ Open(d) \/ GetTags(d) \/ PostTags(d) \/ Answer(d)
       \/ Dismiss(d) \/ Dispose(d) \/ Kill(d)
       \/ \E t \in Typed : AddTag(d, t) \/ DeleteTag(d, t)
  \/ Delete

Spec == Init /\ [][Next]_vars

-----------------------------------------------------------------------------
(* Properties                                                              *)

(* A post never gets more tags than its owner may type, however the answer *)
(* of getTags, typing and saving are interleaved.                          *)
TagsAreBounded == Cardinality(tags) <= MaxTags

(* A tag goes only because it was deleted in the dialog that is saved, or  *)
(* because that dialog did not know of it: the other was saved since it    *)
(* was opened, or its tags had not arrived.                                *)
TagLossIsMeant ==
  [][\A t \in tags \ tags' : \E d \in Dialogs :
       saves[d] # <<>> /\ saves'[d] = Tail(saves[d]) /\ t \notin Head(saves[d]).kept]_vars

(* The page below goes with the dialog only if the dialog was closed, or   *)
(* saved again, before an answer was there.                                *)
PageStays == popped \subseteq pressed
=============================================================================
