----------------------------- MODULE LikesProofs -----------------------------
(* The properties of Likes' parts, for any dialogs, tags, widgets, screens, *)
(* users and bounds.                                                       *)
EXTENDS Likes, FiniteSetTheorems, TLAPS

-----------------------------------------------------------------------------
(* The dialog of the tags                                                  *)

Small(S) == IsFiniteSet(S) /\ Cardinality(S) <= MaxTags

(* Every list that is shown or sent is as small as a post's may be, and    *)
(* holds the tags that were fetched and not deleted.                       *)
ListsFit ==
  /\ Small(tags)
  /\ \A d \in Dialogs : Small(tagsList[d]) /\ kept[d] \subseteq tagsList[d]
  /\ \A d \in Dialogs : \A i \in 1..Len(saves[d]) :
       Small(saves[d][i].list) /\ saves[d][i].kept \subseteq saves[d][i].list

(* A dialog that was saved twice, or that leaves before it is answered,    *)
(* was pressed.                                                            *)
PressedFirst ==
  /\ popped \subseteq pressed
  /\ \A d \in Dialogs :
       /\ Len(saves[d]) > 1 => d \in pressed
       /\ dialog[d] = "leaving" /\ saves[d] # <<>> => d \in pressed
       /\ dialog[d] = "closed" => saves[d] = <<>>

IInv == TypeOK /\ ListsFit /\ PressedFirst

Saves == [list : SUBSET Typed, kept : SUBSET Typed]

-----------------------------------------------------------------------------
LEMMA SaveMore ==
  ASSUME NEW q \in Seq(Saves), NEW r \in Saves
  PROVE  /\ Append(q, r) \in Seq(Saves) /\ Len(Append(q, r)) = Len(q) + 1 /\ Len(q) \in Nat
         /\ \A i \in 1..Len(q) : Append(q, r)[i] = q[i]
         /\ Append(q, r)[Len(q) + 1] = r
         /\ q # <<>> => Len(q) > 0
OBVIOUS

LEMMA SaveLess ==
  ASSUME NEW q \in Seq(Saves), q # <<>>
  PROVE  /\ Tail(q) \in Seq(Saves) /\ Len(Tail(q)) = Len(q) - 1 /\ Len(q) \in Nat /\ Len(q) > 0
         /\ \A i \in 1..Len(Tail(q)) : Tail(q)[i] = q[i + 1]
         /\ Head(q) = q[1] /\ Head(q) \in Saves
         /\ Tail(q) # <<>> => Len(q) > 1
OBVIOUS

(* What a dialog fetches has been saved somewhere.                         *)
LEMMA SeenFits ==
  ASSUME TypeOK, ListsFit, NEW d \in Dialogs
  PROVE  Small(Seen(d)) /\ Seen(d) \in SUBSET Typed
<1>1. CASE saves[d] = <<>>
  BY <1>1 DEF Seen, TypeOK, ListsFit
<1>2. CASE saves[d] # <<>>
  <2>1. saves[d] \in Seq(Saves) /\ Len(saves[d]) \in 1..Len(saves[d])
    <3>1. saves[d] \in Seq(Saves)
      BY DEF TypeOK, Saves
    <3> QED
      BY <1>2, <3>1
  <2>2. saves[d][Len(saves[d])] \in Saves
    BY <2>1
  <2> QED
    BY <1>2, <2>1, <2>2 DEF Seen, ListsFit, Saves
<1> QED
  BY <1>1, <1>2

LEMMA SmallFacts ==
  ASSUME MaxTags \in Nat
  PROVE  /\ Small({})
         /\ \A S, t : Small(S) /\ Cardinality(S) < MaxTags => Small(S \union {t})
         /\ \A S, t : Small(S) => Small(S \ {t})
<1>1. Small({})
  BY FS_EmptySet DEF Small
<1>2. ASSUME NEW S, NEW t, Small(S), Cardinality(S) < MaxTags PROVE Small(S \union {t})
  <2>1. IsFiniteSet(S \union {t}) /\ Cardinality(S) \in Nat
    BY <1>2, FS_AddElement, FS_CardinalityType DEF Small
  <2>2. \/ Cardinality(S \union {t}) = Cardinality(S)
        \/ Cardinality(S \union {t}) = Cardinality(S) + 1
    BY <1>2, FS_AddElement DEF Small
  <2> QED
    BY <1>2, <2>1, <2>2 DEF Small
<1>3. ASSUME NEW S, NEW t, Small(S) PROVE Small(S \ {t})
  BY <1>3, FS_RemoveElement, FS_CardinalityType DEF Small
<1> QED
  BY <1>1, <1>2, <1>3

LEMMA TypeStep == ASSUME TypeOK, ListsFit, [Next]_vars PROVE TypeOK'
<1> USE DEF TypeOK, editing
<1>1. ASSUME NEW d \in Dialogs, Open(d) \/ Dispose(d) PROVE TypeOK'
  BY <1>1 DEF Open, Dispose
<1>2. ASSUME NEW d \in Dialogs, GetTags(d) PROVE TypeOK'
  BY <1>2, SeenFits DEF GetTags, Shows
<1>3. ASSUME NEW d \in Dialogs, NEW t \in Typed, AddTag(d, t) \/ DeleteTag(d, t) PROVE TypeOK'
  <2>1. CASE AddTag(d, t)
    BY <2>1 DEF AddTag
  <2>2. CASE DeleteTag(d, t)
    BY <2>2 DEF DeleteTag
  <2> QED
    BY <1>3, <2>1, <2>2
<1>4. ASSUME NEW d \in Dialogs, PostTags(d) PROVE TypeOK'
  <2>1. [list |-> tagsList[d], kept |-> kept[d]] \in Saves
    BY DEF Saves
  <2>2. saves' \in [Dialogs -> Seq(Saves)]
    BY <1>4, <2>1, SaveMore DEF PostTags, Saves
  <2> QED
    BY <1>4, <2>2 DEF PostTags, Saves
<1>5. ASSUME NEW d \in Dialogs, Answer(d) PROVE TypeOK'
  <2>1. saves' \in [Dialogs -> Seq(Saves)] /\ Head(saves[d]) \in Saves
    BY <1>5, SaveLess DEF Answer, Saves
  <2>2. Head(saves[d]).list \subseteq Typed
    BY <2>1 DEF Saves
  <2>3. CASE there
    <3>1. tags' = Head(saves[d]).list /\ Pop(d) /\ UNCHANGED <<there, pressed>>
      BY <1>5, <2>3 DEF Answer
    <3>2. dialog' \in [Dialogs -> {"closed", "open", "leaving", "left"}] /\ popped' \subseteq Dialogs
      BY <3>1 DEF Pop
    <3> QED
      BY <2>1, <2>2, <3>1, <3>2 DEF Pop, Forgets, Saves
  <2>4. CASE ~there
    BY <1>5, <2>1, <2>4 DEF Answer, Saves
  <2> QED
    BY <2>3, <2>4
<1>6. ASSUME NEW d \in Dialogs, Dismiss(d) PROVE TypeOK'
  BY <1>6 DEF Dismiss, Forgets
<1>7. ASSUME NEW d \in Dialogs, Kill(d) PROVE TypeOK'
  <2>1. saves' \in [Dialogs -> Seq(Saves)]
    <3>1. saves \in [Dialogs -> Seq(Saves)]
      BY DEF Saves
    <3>2. [saves EXCEPT ![d] = <<>>] \in [Dialogs -> Seq(Saves)]
      <4>1. <<>> \in Seq(Saves)
        OBVIOUS
      <4> QED
        BY <3>1, <4>1
    <3>3. saves' = saves \/ saves' = [saves EXCEPT ![d] = <<>>]
      BY <1>7 DEF Kill
    <3> QED
      BY <3>1, <3>2, <3>3
  <2> QED
    BY <1>7, <2>1 DEF Kill, Forgets, Saves
<1>8. CASE Delete
  BY <1>8 DEF Delete
<1>9. CASE UNCHANGED vars
  BY <1>9 DEF vars
<1> QED
  BY <1>1, <1>2, <1>3, <1>4, <1>5, <1>6, <1>7, <1>8, <1>9 DEF Next

LEMMA ListsStep == ASSUME IInv, [Next]_vars PROVE ListsFit'
<1> USE DEF IInv, TypeOK, ListsFit, editing
<1>0. MaxTags \in Nat
  BY TagsAssumption
<1>1. ASSUME NEW d \in Dialogs, Open(d) \/ Dispose(d) PROVE ListsFit'
  BY <1>1 DEF Open, Dispose, Small
<1>2. ASSUME NEW d \in Dialogs, GetTags(d) PROVE ListsFit'
  BY <1>2, SeenFits DEF GetTags, Shows, Small
<1>3. ASSUME NEW d \in Dialogs, NEW t \in Typed, AddTag(d, t) PROVE ListsFit'
  <2>1. Small(tagsList[d] \union {t})
    BY <1>0, <1>3, SmallFacts DEF AddTag
  <2> QED
    BY <1>3, <2>1 DEF AddTag, Small
<1>4. ASSUME NEW d \in Dialogs, NEW t \in Typed, DeleteTag(d, t) PROVE ListsFit'
  <2>1. Small(tagsList[d] \ {t})
    BY <1>0, SmallFacts
  <2> QED
    BY <1>4, <2>1 DEF DeleteTag, Small
<1>5. ASSUME NEW d \in Dialogs, PostTags(d) PROVE ListsFit'
  <2> DEFINE r == [list |-> tagsList[d], kept |-> kept[d]]
  <2>1. r \in Saves /\ saves[d] \in Seq(Saves)
    BY DEF Saves
  <2>2. saves' = [saves EXCEPT ![d] = Append(saves[d], r)]
    BY <1>5 DEF PostTags
  <2>3. \A i \in 1..Len(saves'[d]) :
          Small(saves'[d][i].list) /\ saves'[d][i].kept \subseteq saves'[d][i].list
    <3>1. \A i \in 1..Len(saves'[d]) : i \in 1..Len(saves[d]) \/ i = Len(saves[d]) + 1
      BY <2>1, <2>2, SaveMore
    <3>2. Small(r.list) /\ r.kept \subseteq r.list
      OBVIOUS
    <3> HIDE DEF r
    <3> QED
      BY <2>1, <2>2, <3>1, <3>2, SaveMore DEF Small
  <2> QED
    BY <1>5, <2>2, <2>3 DEF PostTags, Small
<1>6. ASSUME NEW d \in Dialogs, Answer(d) PROVE ListsFit'
  <2>1. saves[d] \in Seq(Saves) /\ saves[d] # <<>> /\ saves' = [saves EXCEPT ![d] = Tail(saves[d])]
    BY <1>6 DEF Answer, Saves
  <2>2. 1 \in 1..Len(saves[d]) /\ Small(Head(saves[d]).list)
    BY <2>1, SaveLess
  <2>3. \A i \in 1..Len(saves'[d]) :
          Small(saves'[d][i].list) /\ saves'[d][i].kept \subseteq saves'[d][i].list
    <3>1. \A i \in 1..Len(saves'[d]) : i + 1 \in 1..Len(saves[d])
      BY <2>1, SaveLess
    <3> QED
      BY <2>1, <3>1, SaveLess DEF Small
  <2>4. Small(tags') /\ \A c \in Dialogs : Small(tagsList'[c]) /\ kept'[c] \subseteq tagsList'[c]
    BY <1>0, <1>6, <2>2, SmallFacts DEF Answer, Pop, Forgets
  <2> QED
    BY <2>1, <2>3, <2>4 DEF Small
<1>7. ASSUME NEW d \in Dialogs, Dismiss(d) PROVE ListsFit'
  BY <1>0, <1>7, SmallFacts DEF Dismiss, Forgets, Small
<1>8. ASSUME NEW d \in Dialogs, Kill(d) PROVE ListsFit'
  <2>1. \A c \in Dialogs : saves'[c] = saves[c] \/ saves'[c] = <<>>
    BY <1>8 DEF Kill
  <2>2. \A c \in Dialogs : Small(tagsList'[c]) /\ kept'[c] \subseteq tagsList'[c]
    BY <1>0, <1>8, SmallFacts DEF Kill, Forgets
  <2> QED
    BY <1>8, <2>1, <2>2 DEF Kill, Small
<1>9. CASE Delete \/ UNCHANGED vars
  BY <1>9 DEF Delete, vars, Small
<1> QED
  BY <1>1, <1>2, <1>3, <1>4, <1>5, <1>6, <1>7, <1>8, <1>9 DEF Next

LEMMA PressedStep == ASSUME IInv, [Next]_vars PROVE PressedFirst'
<1> USE DEF IInv, TypeOK, PressedFirst, editing
<1>0. \A d \in Dialogs : saves[d] \in Seq(Saves)
  BY DEF Saves
<1>1. ASSUME NEW d \in Dialogs, Open(d) \/ GetTags(d) \/ Dispose(d) PROVE PressedFirst'
  BY <1>1 DEF Open, GetTags, Dispose
<1>2. ASSUME NEW d \in Dialogs, NEW t \in Typed, AddTag(d, t) \/ DeleteTag(d, t) PROVE PressedFirst'
  BY <1>2 DEF AddTag, DeleteTag
<1>3. ASSUME NEW d \in Dialogs, PostTags(d) PROVE PressedFirst'
  <2>1. [list |-> tagsList[d], kept |-> kept[d]] \in Saves
    BY DEF Saves
  <2>2. saves'[d] # <<>> /\ (Len(saves'[d]) > 1 => saves[d] # <<>>)
    BY <1>0, <1>3, <2>1, SaveMore DEF PostTags
  <2> QED
    BY <1>3, <2>2 DEF PostTags
<1>4. ASSUME NEW d \in Dialogs, Answer(d) PROVE PressedFirst'
  <2>1. /\ Len(Tail(saves[d])) > 1 => Len(saves[d]) > 1
        /\ Tail(saves[d]) # <<>> => Len(saves[d]) > 1
    BY <1>0, <1>4, SaveLess DEF Answer
  <2> QED
    BY <1>4, <2>1 DEF Answer, Pop, Forgets
<1>5. ASSUME NEW d \in Dialogs, Dismiss(d) PROVE PressedFirst'
  BY <1>5 DEF Dismiss, Forgets
<1>6. ASSUME NEW d \in Dialogs, Kill(d) PROVE PressedFirst'
  BY <1>6 DEF Kill, Forgets
<1>7. CASE Delete \/ UNCHANGED vars
  BY <1>7 DEF Delete, vars
<1> QED
  BY <1>1, <1>2, <1>3, <1>4, <1>5, <1>6, <1>7 DEF Next

LEMMA Inductive == Spec => []IInv
<1>1. Init => IInv
  <2> SUFFICES ASSUME Init PROVE IInv
    OBVIOUS
  <2>1. TypeOK
    BY TagsAssumption DEF Init, TypeOK
  <2>2. Small(First) /\ Small({})
    BY TagsAssumption, FS_Subset, SmallFacts DEF Small
  <2> QED
    BY <2>1, <2>2 DEF Init, IInv, ListsFit, PressedFirst
<1>2. IInv /\ [Next]_vars => IInv'
  BY TypeStep, ListsStep, PressedStep DEF IInv
<1> QED
  BY <1>1, <1>2, PTL DEF Spec

-----------------------------------------------------------------------------
(* However getTags, typing and saving are interleaved, in any number of    *)
(* dialogs, a post never has more tags than may be typed.                  *)
THEOREM TagsStayFew == Spec => []TagsAreBounded
<1>1. IInv => TagsAreBounded
  BY DEF IInv, ListsFit, Small, TagsAreBounded
<1> QED
  BY <1>1, Inductive, PTL

(* A tag that a dialog has fetched goes by it only when it was deleted in  *)
(* it.                                                                     *)
THEOREM TagsAreKept == Spec => TagLossIsMeant
<1> DEFINE Meant ==
      \A t \in tags \ tags' : \E d \in Dialogs :
        saves[d] # <<>> /\ saves'[d] = Tail(saves[d]) /\ t \notin Head(saves[d]).kept
<1>1. IInv /\ [Next]_vars => [Meant]_vars
  <2> SUFFICES ASSUME IInv, Next PROVE Meant
    OBVIOUS
  <2>1. ASSUME NEW d \in Dialogs, Answer(d) PROVE Meant
    <3>1. saves[d] \in Seq(Saves) /\ saves[d] # <<>> /\ saves'[d] = Tail(saves[d])
      BY <2>1 DEF Answer, IInv, TypeOK, Saves
    <3>2. 1 \in 1..Len(saves[d]) /\ Head(saves[d]) = saves[d][1]
      BY <3>1, SaveLess
    <3>3. Head(saves[d]).kept \subseteq Head(saves[d]).list
      BY <3>2 DEF IInv, ListsFit
    <3>4. tags' = tags \/ tags' = Head(saves[d]).list
      BY <2>1 DEF Answer
    <3> QED
      BY <3>1, <3>3, <3>4
  <2>2. CASE UNCHANGED tags
    BY <2>2
  <2> QED
    BY <2>1, <2>2 DEF Next, Open, GetTags, PostTags, Dismiss, Dispose, Kill, AddTag, DeleteTag, Delete
<1> QED
  BY <1>1, Inductive, PTL DEF Spec, TagLossIsMeant

(* The page below a dialog stays unless the dialog was closed, or saved    *)
(* again, before it was answered.                                          *)
THEOREM PagesStay == Spec => []PageStays
<1>1. IInv => PageStays
  BY DEF IInv, PressedFirst, PageStays
<1> QED
  BY <1>1, Inductive, PTL

-----------------------------------------------------------------------------
(* The heart of a post                                                     *)

(* A screen that was not tapped too early has one update under way at most, *)
(* which agrees with its list, and is in that list once at most.           *)
PostInv ==
  /\ Post!TypeOK /\ HeartTells
  /\ \A s \in Screens :
       /\ screen[s] = "closed" => sent[s] = <<>> /\ entries[s] = 0
       /\ screen[s] = "loading" /\ s \notin hasty => sent[s] = <<>> /\ entries[s] = 0
       /\ screen[s] = "loaded" /\ s \notin hasty =>
            /\ entries[s] \in {0, 1}
            /\ sent[s] # <<>> => Tail(sent[s]) = <<>> /\ (Head(sent[s]) <=> entries[s] = 0)

(* The ends of a sequence.                                                *)
LEMMA Ends ==
  ASSUME NEW T, NEW q \in Seq(T), NEW b \in T
  PROVE  /\ Append(q, b) \in Seq(T) /\ Append(q, b) # <<>>
         /\ q = <<>> => Head(Append(q, b)) = b /\ Tail(Append(q, b)) = <<>>
         /\ q # <<>> => Tail(q) \in Seq(T) /\ Head(q) \in T
OBVIOUS

LEMMA LastIsThere ==
  ASSUME NEW T, NEW q \in Seq(T), q # <<>>
  PROVE  q[Len(q)] \in T
OBVIOUS

LEMMA PostTypes == ASSUME Post!TypeOK, [Post!Next]_(Post!vars) PROVE Post!TypeOK'
<1>. USE DEF Post!TypeOK, Post!post
<1>1. ASSUME NEW s \in Screens, Post!Open(s) PROVE Post!TypeOK'
  BY <1>1 DEF Post!Open
<1>2. ASSUME NEW s \in Screens, Post!Load(s) PROVE Post!TypeOK'
  <2>1. entries' \in [Screens -> Nat]
    BY <1>2 DEF Post!Load
  <2>. QED BY <1>2, <2>1 DEF Post!Load
<1>3. ASSUME NEW s \in Screens, Post!Tap(s) PROVE Post!TypeOK'
  <2>1. Append(sent[s], entries[s] = 0) \in Seq(BOOLEAN)
    <3>1. sent[s] \in Seq(BOOLEAN) /\ (entries[s] = 0) \in BOOLEAN
      OBVIOUS
    <3>. QED BY <3>1, Ends
  <2>. QED BY <1>3, <2>1 DEF Post!Tap
<1>4. ASSUME NEW s \in Screens, Post!Answer(s) PROVE Post!TypeOK'
  <2>1. Tail(sent[s]) \in Seq(BOOLEAN) /\ Head(sent[s]) \in BOOLEAN
    BY <1>4, Ends DEF Post!Answer
  <2>2. entries' \in [Screens -> Nat]
    <3>1. /\ (IF entries[s] = 0 THEN 0 ELSE entries[s] - 1) \in Nat
          /\ entries[s] + 1 \in Nat
      OBVIOUS
    <3>2. \/ entries' = entries
          \/ entries' = [entries EXCEPT ![s] = entries[s] + 1]
          \/ entries' = [entries EXCEPT ![s] = IF entries[s] = 0 THEN 0 ELSE entries[s] - 1]
      BY <1>4, Zenon DEF Post!Answer
    <3>. QED BY <3>1, <3>2
  <2>. QED BY <1>4, <2>1, <2>2 DEF Post!Answer
<1>5. ASSUME NEW s \in Screens, Post!Leave(s) PROVE Post!TypeOK'
  BY <1>5 DEF Post!Leave
<1>6. ASSUME NEW s \in Screens, Post!Kill(s) PROVE Post!TypeOK'
  <2>1. <<>> \in Seq(BOOLEAN)
    OBVIOUS
  <2>. QED BY <1>6, <2>1 DEF Post!Kill
<1>7. CASE Post!Delete
  BY <1>7 DEF Post!Delete
<1>8. CASE UNCHANGED Post!vars
  BY <1>8 DEF Post!vars
<1>. QED BY <1>1, <1>2, <1>3, <1>4, <1>5, <1>6, <1>7, <1>8 DEF Post!Next

LEMMA PostStep == ASSUME PostInv, [Post!Next]_(Post!vars) PROVE PostInv'
<1>0. Post!TypeOK /\ Post!TypeOK'
  BY PostTypes DEF PostInv
<1>. USE DEF Post!post
<1>1. ASSUME NEW s \in Screens, Post!Open(s) PROVE PostInv'
  BY <1>0, <1>1 DEF Post!Open, Post!TypeOK, PostInv, HeartTells, Post!HeartTells, Post!Settled
<1>2. ASSUME NEW s \in Screens, Post!Load(s) PROVE PostInv'
  <2>1. /\ screen[s] = "loading" /\ UNCHANGED <<live, liked, sent, hasty, passed>>
        /\ \A r \in Screens : screen'[r] = IF r = s THEN "loaded" ELSE screen[r]
        /\ \A r \in Screens : r # s => entries'[r] = entries[r]
    BY <1>0, <1>2 DEF Post!Load, Post!TypeOK
  <2>2. /\ ~live => entries'[s] = entries[s]
        /\ live => entries'[s] \in {0, 1}
        /\ live /\ sent[s] = <<>> => (entries'[s] = 1 <=> liked)
    <3>1. CASE ~live
      BY <1>0, <1>2, <3>1 DEF Post!Load, Post!TypeOK
    <3>2. CASE live
      <4>1. PICK sees \in BOOLEAN :
              /\ sent[s] = <<>> => (sees <=> liked)
              /\ entries' = [entries EXCEPT ![s] = IF sees THEN 1 ELSE 0]
        <5>1. CASE sent[s] = <<>>
          BY <1>0, <1>2, <3>2, <5>1, Zenon DEF Post!Load, Post!TypeOK
        <5>2. CASE sent[s] # <<>>
          <6>1. sent[s][Len(sent[s])] \in BOOLEAN
            BY <1>0, <5>2, LastIsThere DEF Post!TypeOK
          <6>2. entries' = [entries EXCEPT ![s] = IF sent[s][Len(sent[s])] THEN 1 ELSE 0]
            BY <1>2, <3>2, <5>2, Zenon DEF Post!Load
          <6>. QED BY <5>2, <6>1, <6>2, Zenon
        <5>. QED BY <5>1, <5>2
      <4>2. entries'[s] = IF sees THEN 1 ELSE 0
        BY <1>0, <4>1 DEF Post!TypeOK
      <4>3. CASE sees
        BY <3>2, <4>1, <4>2, <4>3
      <4>4. CASE ~sees
        BY <3>2, <4>1, <4>2, <4>4
      <4>. QED BY <4>3, <4>4
    <3>. QED BY <3>1, <3>2
  <2>3. HeartTells'
    <3>1. ASSUME NEW r \in Screens, live, Post!Settled(r)', r # s
          PROVE  (liked => entries'[r] > 0) /\ (entries'[r] > 0 => liked \/ r \in hasty)
      BY <2>1, <3>1 DEF PostInv, HeartTells, Post!HeartTells, Post!Settled
    <3>2. ASSUME live, Post!Settled(s)'
          PROVE  (liked => entries'[s] > 0) /\ (entries'[s] > 0 => liked \/ s \in hasty)
      <4>1. sent[s] = <<>>
        BY <2>1, <3>2 DEF Post!Settled
      <4>. QED BY <2>2, <3>2, <4>1
    <3>. QED BY <2>1, <3>1, <3>2 DEF HeartTells, Post!HeartTells
  <2>. QED BY <1>0, <2>1, <2>2, <2>3 DEF PostInv
<1>3. ASSUME NEW s \in Screens, Post!Tap(s) PROVE PostInv'
  <2>1. /\ sent'[s] # <<>>
        /\ sent[s] = <<>> => Tail(sent'[s]) = <<>> /\ Head(sent'[s]) = (entries[s] = 0)
    <3>1. sent[s] \in Seq(BOOLEAN) /\ (entries[s] = 0) \in BOOLEAN
      BY <1>0 DEF Post!TypeOK
    <3>2. sent'[s] = Append(sent[s], entries[s] = 0)
      BY <1>0, <1>3 DEF Post!Tap, Post!TypeOK
    <3>. QED BY <3>1, <3>2, Ends
  <2>. QED BY <1>0, <1>3, <2>1
           DEF Post!Tap, Post!TypeOK, PostInv, HeartTells, Post!HeartTells, Post!Settled
<1>4. ASSUME NEW s \in Screens, Post!Answer(s) PROVE PostInv'
  <2>1. /\ sent'[s] = Tail(sent[s]) /\ sent[s] \in Seq(BOOLEAN) /\ sent[s] # <<>>
        /\ \A r \in Screens : r # s => sent'[r] = sent[r] /\ entries'[r] = entries[r]
        /\ UNCHANGED <<live, screen, hasty>>
    BY <1>0, <1>4 DEF Post!Answer, Post!TypeOK
  <2>5. \/ entries' = entries
        \/ Head(sent[s]) /\ entries'[s] = entries[s] + 1
        \/ ~Head(sent[s]) /\ entries'[s] = IF entries[s] = 0 THEN 0 ELSE entries[s] - 1
    <3>1. CASE live /\ Head(sent[s])
      <4>1. entries' = [entries EXCEPT ![s] = entries[s] + 1]
        BY <1>4, <3>1, Zenon DEF Post!Answer
      <4>. QED BY <1>0, <3>1, <4>1 DEF Post!TypeOK
    <3>2. CASE live /\ ~Head(sent[s])
      <4>1. entries' = [entries EXCEPT ![s] = IF entries[s] = 0 THEN 0 ELSE entries[s] - 1]
        BY <1>4, <3>2, Zenon DEF Post!Answer
      <4>. QED BY <1>0, <3>2, <4>1 DEF Post!TypeOK
    <3>3. CASE ~live
      BY <1>4, <3>3, Zenon DEF Post!Answer
    <3>. QED BY <3>1, <3>2, <3>3
  <2>2. ASSUME NEW r \in Screens
        PROVE  /\ screen'[r] = "closed" => sent'[r] = <<>> /\ entries'[r] = 0
               /\ screen'[r] = "loading" /\ r \notin hasty' => sent'[r] = <<>> /\ entries'[r] = 0
               /\ screen'[r] = "loaded" /\ r \notin hasty' =>
                    /\ entries'[r] \in {0, 1}
                    /\ sent'[r] # <<>> =>
                         Tail(sent'[r]) = <<>> /\ (Head(sent'[r]) <=> entries'[r] = 0)
    <3>1. CASE r # s
      BY <2>1, <3>1 DEF PostInv
    <3>2. CASE r = s /\ screen[s] = "loaded" /\ s \notin hasty
      <4>1. /\ entries[s] \in {0, 1} /\ Tail(sent[s]) = <<>>
            /\ Head(sent[s]) <=> entries[s] = 0
        BY <2>1, <3>2 DEF PostInv
      <4>2. entries'[s] \in {0, 1}
        <5>1. CASE entries[s] = 0
          <6>1. entries' = entries \/ entries'[s] = entries[s] + 1
            BY <2>5, <4>1, <5>1, Zenon
          <6>. QED BY <5>1, <6>1
        <5>2. CASE entries[s] # 0
          <6>1. \/ entries' = entries
                \/ entries'[s] = IF entries[s] = 0 THEN 0 ELSE entries[s] - 1
            BY <2>5, <4>1, <5>2, Zenon
          <6>2. entries[s] = 1
            BY <4>1, <5>2, Zenon
          <6>. QED BY <6>1, <6>2
        <5>. QED BY <5>1, <5>2
      <4>. QED BY <2>1, <3>2, <4>1, <4>2
    <3>3. CASE r = s /\ ~(screen[s] = "loaded" /\ s \notin hasty)
      BY <2>1, <3>3 DEF PostInv
    <3>. QED BY <3>1, <3>2, <3>3
  <2>3. ASSUME NEW r \in Screens, live', Post!Settled(r)'
        PROVE  /\ liked' => entries'[r] > 0
               /\ entries'[r] > 0 => liked' \/ r \in hasty'
    <3>1. r = s /\ live /\ screen[s] = "loaded" /\ Tail(sent[s]) = <<>>
      <4>1. live /\ screen[r] = "loaded" /\ sent'[r] = <<>> /\ r \notin passed'
        BY <2>1, <2>3 DEF Post!Settled
      <4>2. passed' = passed \union (Screens \ {s})
        BY <1>4, <4>1, Zenon DEF Post!Answer
      <4>. QED BY <2>1, <4>1, <4>2
    <3>2. /\ liked' = Head(sent[s]) /\ entries[s] \in Nat
          /\ Head(sent[s]) => entries'[s] = entries[s] + 1
          /\ ~Head(sent[s]) => entries'[s] = IF entries[s] = 0 THEN 0 ELSE entries[s] - 1
      <4>1. liked' = Head(sent[s])
        BY <1>4, <3>1, Zenon DEF Post!Answer
      <4>2. entries' = [entries EXCEPT ![s] =
              IF Head(sent[s]) THEN entries[s] + 1
              ELSE IF entries[s] = 0 THEN 0 ELSE entries[s] - 1]
        BY <1>4, <3>1, Zenon DEF Post!Answer
      <4>. QED BY <1>0, <4>1, <4>2 DEF Post!TypeOK
    <3>3. ASSUME liked' PROVE entries'[s] > 0
      <4>1. entries'[s] = entries[s] + 1
        BY <3>2, <3>3, Zenon
      <4>2. entries[s] \in Nat
        BY <3>2, Zenon
      <4>. QED BY <4>1, <4>2
    <3>4. ASSUME s \notin hasty, entries'[s] > 0 PROVE liked'
      <4>1. entries[s] \in {0, 1} /\ (Head(sent[s]) <=> entries[s] = 0)
        BY <2>1, <3>1, <3>4 DEF PostInv
      <4>2. CASE entries[s] = 0
        BY <3>2, <4>1, <4>2, Zenon
      <4>3. CASE entries[s] # 0
        <5>1. entries'[s] = IF entries[s] = 0 THEN 0 ELSE entries[s] - 1
          BY <3>2, <4>1, <4>3, Zenon
        <5>2. entries[s] = 1
          BY <4>1, <4>3, Zenon
        <5>. QED BY <3>4, <5>1, <5>2
      <4>. QED BY <4>2, <4>3
    <3>. QED BY <2>1, <3>1, <3>3, <3>4
  <2>4. HeartTells'
    BY <2>3 DEF HeartTells, Post!HeartTells
  <2>. QED BY <1>0, <2>2, <2>4 DEF PostInv
<1>5. ASSUME NEW s \in Screens, Post!Leave(s) PROVE PostInv'
  BY <1>0, <1>5 DEF Post!Leave, Post!TypeOK, PostInv, HeartTells, Post!HeartTells, Post!Settled
<1>6. ASSUME NEW s \in Screens, Post!Kill(s) PROVE PostInv'
  BY <1>0, <1>6 DEF Post!Kill, Post!TypeOK, PostInv, HeartTells, Post!HeartTells, Post!Settled
<1>7. CASE Post!Delete
  BY <1>0, <1>7 DEF Post!Delete, PostInv, HeartTells, Post!HeartTells, Post!Settled
<1>8. CASE UNCHANGED Post!vars
  BY <1>0, <1>8 DEF Post!vars, PostInv, HeartTells, Post!HeartTells, Post!Settled
<1>. QED BY <1>1, <1>2, <1>3, <1>4, <1>5, <1>6, <1>7, <1>8 DEF Post!Next

(* On a screen that waits for nothing, and that no other screen of the     *)
(* user came before, a white heart of a post is true, and a red one is     *)
(* unless it was tapped too early: on any number of screens.               *)
THEOREM HeartsTell == Post!Spec => []HeartTells
<1>1. Post!Init => PostInv
  <2>. SUFFICES ASSUME Post!Init PROVE PostInv
    OBVIOUS
  <2>1. <<>> \in Seq(BOOLEAN)
    OBVIOUS
  <2>2. Post!TypeOK
    BY <2>1 DEF Post!Init, Post!TypeOK
  <2>3. HeartTells
    BY DEF Post!Init, HeartTells, Post!HeartTells, Post!Settled
  <2>. QED BY <2>2, <2>3 DEF Post!Init, PostInv
<1>2. PostInv /\ [Post!Next]_(Post!vars) => PostInv'
  BY PostStep
<1>3. PostInv => HeartTells
  BY DEF PostInv
<1>. QED BY <1>1, <1>2, <1>3, PTL DEF Post!Spec

-----------------------------------------------------------------------------
(* The heart of a comment                                                  *)

Alternating(q) == \A i \in DOMAIN q : i + 1 \in DOMAIN q => q[i + 1] # q[i]
Last(q) == q[Len(q)]

(* The updates of a widget take turns, from what was applied last to what  *)
(* its flag says.                                                          *)
Turns(w) ==
  /\ Alternating(pending[w])
  /\ pending[w] # <<>> => (Head(pending[w]) <=> told[w] # "like")
  /\ view[w] \in {"loading", "loaded"} =>
       /\ pending[w] = <<>> => (isLiked[w] <=> told[w] = "like")
       /\ pending[w] # <<>> => isLiked[w] = Last(pending[w])
  /\ view[w] = "closed" => pending[w] = <<>> /\ told[w] = "nothing" /\ ~isLiked[w]

(* A user likes the comment if the last update of a widget of theirs says  *)
(* so and no other of theirs came after it.                                *)
LastCounts ==
  \A w \in Widgets : ~overtaken[w] /\ told[w] # "nothing" =>
    (told[w] = "like" <=> user[w] \in likes)

CommentInv ==
  Comment!TypeOK /\ ScoreCountsScreens /\ LastCounts /\ \A w \in Widgets : Turns(w)

LEMMA Alternations ==
  ASSUME NEW T, NEW q \in Seq(T), Alternating(q)
  PROVE  /\ Alternating(<<>>)
         /\ \A b \in T : q = <<>> \/ Last(q) # b =>
              /\ Alternating(Append(q, b)) /\ Last(Append(q, b)) = b
              /\ q # <<>> => Head(Append(q, b)) = Head(q)
         /\ q # <<>> =>
              /\ Alternating(Tail(q))
              /\ Tail(q) # <<>> => Head(Tail(q)) # Head(q) /\ Last(Tail(q)) = Last(q)
              /\ Tail(q) = <<>> => Last(q) = Head(q)
<1>1. Alternating(<<>>)
  BY DEF Alternating
<1>2. ASSUME NEW b \in T, q = <<>> \/ Last(q) # b
      PROVE  /\ Alternating(Append(q, b)) /\ Last(Append(q, b)) = b
             /\ q # <<>> => Head(Append(q, b)) = Head(q)
  <2>1. /\ Len(q) \in Nat /\ DOMAIN q = 1..Len(q) /\ Len(Append(q, b)) = Len(q) + 1
        /\ DOMAIN Append(q, b) = 1..(Len(q) + 1)
        /\ \A i \in 1..Len(q) : Append(q, b)[i] = q[i]
        /\ Append(q, b)[Len(q) + 1] = b
    OBVIOUS
  <2>2. Last(Append(q, b)) = b
    BY <2>1 DEF Last
  <2>3. q # <<>> => Head(Append(q, b)) = Head(q)
    BY <2>1
  <2>4. ASSUME NEW i \in 1..(Len(q) + 1), i + 1 \in 1..(Len(q) + 1)
        PROVE  Append(q, b)[i + 1] # Append(q, b)[i]
    <3>1. CASE i = Len(q)
      <4>1. q # <<>> /\ q[i] # b
        BY <1>2, <2>4, <3>1 DEF Last
      <4>. QED BY <2>1, <2>4, <3>1, <4>1
    <3>2. CASE i # Len(q)
      <4>1. i \in 1..Len(q) /\ i + 1 \in 1..Len(q)
        <5>1. Len(q) \in Nat
          OBVIOUS
        <5>. QED BY <2>4, <3>2, <5>1
      <4>. QED BY <2>1, <4>1 DEF Alternating
    <3>. QED BY <3>1, <3>2
  <2>. QED BY <2>1, <2>2, <2>3, <2>4 DEF Alternating
<1>3. ASSUME q # <<>>
      PROVE  /\ Alternating(Tail(q))
             /\ Tail(q) # <<>> => Head(Tail(q)) # Head(q) /\ Last(Tail(q)) = Last(q)
             /\ Tail(q) = <<>> => Last(q) = Head(q)
  <2>1. /\ Len(q) \in Nat \ {0} /\ DOMAIN q = 1..Len(q) /\ Len(Tail(q)) = Len(q) - 1
        /\ DOMAIN Tail(q) = 1..(Len(q) - 1)
        /\ \A i \in 1..(Len(q) - 1) : Tail(q)[i] = q[i + 1]
        /\ Head(q) = q[1] /\ Tail(q) \in Seq(T)
    BY <1>3
  <2>4. /\ Tail(q) # <<>> => Len(q) > 1 /\ Head(Tail(q)) = Tail(q)[1]
        /\ Tail(q) = <<>> => Len(q) = 1
    <3>1. \A r \in Seq(T) : (r = <<>> <=> Len(r) = 0) /\ Len(r) \in Nat /\ Head(r) = r[1]
      OBVIOUS
    <3>2. /\ Tail(q) = <<>> <=> Len(Tail(q)) = 0
          /\ Head(Tail(q)) = Tail(q)[1]
      BY <2>1, <3>1, Zenon
    <3>3. Len(Tail(q)) = Len(q) - 1 /\ Len(q) \in Nat \ {0}
      BY <2>1, Zenon
    <3>. QED BY <3>2, <3>3
  <2>2. ASSUME NEW i \in 1..(Len(q) - 1), i + 1 \in 1..(Len(q) - 1)
        PROVE  Tail(q)[i + 1] # Tail(q)[i]
    <3>1. i + 1 \in 1..Len(q) /\ i + 2 \in 1..Len(q) /\ (i + 1) + 1 = i + 2
      BY <2>1, <2>2
    <3>. QED BY <2>1, <2>2, <3>1 DEF Alternating
  <2>3. ASSUME Tail(q) # <<>> PROVE Head(Tail(q)) # Head(q) /\ Last(Tail(q)) = Last(q)
    <3>1. 1 \in 1..(Len(q) - 1) /\ Len(q) - 1 \in 1..(Len(q) - 1) /\ (Len(q) - 1) + 1 = Len(q)
      BY <2>1, <2>3, <2>4
    <3>2. 1 \in DOMAIN q /\ 1 + 1 \in DOMAIN q
      BY <2>1, <2>3, <2>4
    <3>3. q[1 + 1] # q[1]
      BY <3>2 DEF Alternating
    <3>. QED BY <2>1, <2>3, <2>4, <3>1, <3>3 DEF Last
  <2>. QED BY <2>1, <2>2, <2>3, <2>4 DEF Alternating, Last
<1>. QED BY <1>1, <1>2, <1>3

(* ... of Booleans: what is appended or becomes the oldest is the opposite. *)
LEMMA Opposites ==
  ASSUME NEW q \in Seq(BOOLEAN), Alternating(q)
  PROVE  /\ \A b \in BOOLEAN : (q # <<>> => b = Last(q)) =>
              /\ Append(q, ~b) \in Seq(BOOLEAN) /\ Append(q, ~b) # <<>>
              /\ Alternating(Append(q, ~b)) /\ Last(Append(q, ~b)) = ~b
              /\ q # <<>> => Head(Append(q, ~b)) = Head(q)
              /\ q = <<>> => Head(Append(q, ~b)) = ~b
         /\ q # <<>> =>
              /\ Head(q) \in BOOLEAN /\ Tail(q) \in Seq(BOOLEAN) /\ Alternating(Tail(q))
              /\ Tail(q) # <<>> => (Head(Tail(q)) <=> ~Head(q)) /\ Last(Tail(q)) = Last(q)
              /\ Tail(q) = <<>> => Last(q) = Head(q)
<1>1. ASSUME NEW b \in BOOLEAN, q # <<>> => b = Last(q)
      PROVE  /\ Append(q, ~b) \in Seq(BOOLEAN) /\ Append(q, ~b) # <<>>
             /\ Alternating(Append(q, ~b)) /\ Last(Append(q, ~b)) = ~b
             /\ q # <<>> => Head(Append(q, ~b)) = Head(q)
             /\ q = <<>> => Head(Append(q, ~b)) = ~b
  <2>1. (~b) \in BOOLEAN /\ (q = <<>> \/ Last(q) # ~b)
    <3>1. \A x \in BOOLEAN : (~x) \in BOOLEAN /\ x # ~x
      OBVIOUS
    <3>. QED BY <1>1, <3>1, Zenon
  <2>2. /\ Append(q, ~b) \in Seq(BOOLEAN) /\ Append(q, ~b) # <<>>
        /\ q = <<>> => Head(Append(q, ~b)) = ~b
    BY <2>1, Ends, Zenon
  <2>3. /\ Alternating(Append(q, ~b)) /\ Last(Append(q, ~b)) = ~b
        /\ q # <<>> => Head(Append(q, ~b)) = Head(q)
    <3>1. \A c \in BOOLEAN : q = <<>> \/ Last(q) # c =>
              /\ Alternating(Append(q, c)) /\ Last(Append(q, c)) = c
              /\ q # <<>> => Head(Append(q, c)) = Head(q)
      BY Alternations, ZenonT(30)
    <3>. QED BY <2>1, <3>1, Zenon
  <2>. QED BY <2>2, <2>3, Zenon
<1>2. ASSUME q # <<>>
      PROVE  /\ Head(q) \in BOOLEAN /\ Tail(q) \in Seq(BOOLEAN) /\ Alternating(Tail(q))
             /\ Tail(q) # <<>> => (Head(Tail(q)) <=> ~Head(q)) /\ Last(Tail(q)) = Last(q)
             /\ Tail(q) = <<>> => Last(q) = Head(q)
  <2>1. Head(q) \in BOOLEAN /\ Tail(q) \in Seq(BOOLEAN)
    BY <1>2, Ends, TRUE \in BOOLEAN, Zenon
  <2>2. Tail(q) # <<>> => Head(Tail(q)) \in BOOLEAN
    BY <2>1, Ends, TRUE \in BOOLEAN, Zenon
  <2>3. /\ Alternating(Tail(q))
        /\ Tail(q) # <<>> => Head(Tail(q)) # Head(q) /\ Last(Tail(q)) = Last(q)
        /\ Tail(q) = <<>> => Last(q) = Head(q)
    BY <1>2, Alternations, Zenon
  <2>4. \A x, y \in BOOLEAN : x # y => (x <=> ~y)
    BY Zenon
  <2>. QED BY <2>1, <2>2, <2>3, <2>4, Zenon
<1>. QED BY <1>1, <1>2, Zenon

LEMMA CommentTypes == ASSUME CommentInv, [Comment!Next]_(Comment!vars) PROVE Comment!TypeOK'
<1>. USE DEF Comment!TypeOK, Comment!document, Comment!Readers, CommentInv
<1>0. <<>> \in Seq(BOOLEAN)
  OBVIOUS
<1>1. ASSUME NEW w \in Widgets, Comment!Open(w) \/ Comment!Load(w) \/ Comment!Leave(w)
      PROVE  Comment!TypeOK'
  BY <1>1 DEF Comment!Open, Comment!Load, Comment!Leave
<1>2. ASSUME NEW w \in Widgets, Comment!Tap(w) PROVE Comment!TypeOK'
  <2>1. Append(pending[w], ~isLiked[w]) \in Seq(BOOLEAN) /\ (~isLiked[w]) \in BOOLEAN
    <3>1. pending[w] \in Seq(BOOLEAN) /\ isLiked[w] \in BOOLEAN
      OBVIOUS
    <3>2. (~isLiked[w]) \in BOOLEAN
      BY <3>1, Zenon
    <3>. QED BY <3>1, <3>2, Ends, Zenon
  <2>. QED BY <1>2, <2>1 DEF Comment!Tap
<1>3. ASSUME NEW w \in Widgets, Comment!Apply(w) PROVE Comment!TypeOK'
  <2>1. Tail(pending[w]) \in Seq(BOOLEAN)
    BY <1>3, Ends DEF Comment!Apply
  <2>2. /\ likes' \in {likes \union {user[w]}, likes \ {user[w]}}
        /\ score' \in {score + 1, score - 1}
        /\ \E t \in {"like", "unlike"} : told' = [told EXCEPT ![w] = t]
    BY <1>3, Zenon DEF Comment!Apply
  <2>3. overtaken' \in [Widgets -> BOOLEAN]
    BY <1>3 DEF Comment!Apply
  <2>4. pending' \in [Widgets -> Seq(BOOLEAN)] /\ UNCHANGED <<view, isLiked>>
    BY <1>3, <2>1 DEF Comment!Apply
  <2>5. told' \in [Widgets -> {"nothing", "like", "unlike"}]
    BY <2>2
  <2>6. likes' \subseteq Comment!Readers /\ score' \in Int
    BY <2>2
  <2>. QED BY <2>3, <2>4, <2>5, <2>6
<1>4. ASSUME NEW w \in Widgets, Comment!Kill(w) PROVE Comment!TypeOK'
  BY <1>0, <1>4 DEF Comment!Kill
<1>5. CASE UNCHANGED Comment!vars
  BY <1>5 DEF Comment!vars
<1>. QED BY <1>1, <1>2, <1>3, <1>4, <1>5 DEF Comment!Next

LEMMA TurnsStep ==
  ASSUME CommentInv, [Comment!Next]_(Comment!vars), NEW w \in Widgets
  PROVE  Turns(w)'
<1>0. /\ Turns(w) /\ pending[w] \in Seq(BOOLEAN) /\ Alternating(pending[w])
      /\ isLiked[w] \in BOOLEAN
      /\ view \in [Widgets -> {"closed", "loading", "loaded", "left"}]
  BY DEF CommentInv, Comment!TypeOK, Turns
<1>. SUFFICES ASSUME Comment!Next PROVE Turns(w)'
  BY <1>0, Zenon DEF Comment!vars, Turns
<1>1. PICK v \in Widgets :
        \/ Comment!Open(v) \/ Comment!Load(v) \/ Comment!Tap(v)
        \/ Comment!Apply(v) \/ Comment!Leave(v) \/ Comment!Kill(v)
  BY Zenon DEF Comment!Next
<1>2. CASE v # w
  <2>1. /\ view'[w] = view[w] /\ isLiked'[w] = isLiked[w]
        /\ pending'[w] = pending[w] /\ told'[w] = told[w]
    BY <1>1, <1>2 DEF CommentInv, Comment!TypeOK, Comment!document,
       Comment!Open, Comment!Load, Comment!Tap, Comment!Apply, Comment!Leave, Comment!Kill
  <2>. QED BY <1>0, <2>1, Zenon DEF Turns
<1>3. CASE v = w /\ (Comment!Open(w) \/ Comment!Load(w) \/ Comment!Leave(w))
  <2>1. /\ UNCHANGED <<isLiked, pending, told>> /\ view'[w] # "closed"
        /\ view[w] \in {"closed", "loading", "loaded"}
    BY <1>0, <1>3 DEF Comment!Open, Comment!Load, Comment!Leave
  <2>2. view[w] = "closed" => (isLiked[w] <=> told[w] = "like") /\ pending[w] = <<>>
    <3>1. "nothing" # "like"
      OBVIOUS
    <3>. QED BY <1>0, <3>1, Zenon DEF Turns
  <2>. QED BY <1>0, <2>1, <2>2 DEF Turns
<1>4. CASE v = w /\ Comment!Tap(w)
  <2>1. /\ pending'[w] = Append(pending[w], ~isLiked[w]) /\ isLiked'[w] = ~isLiked[w]
        /\ UNCHANGED <<view, told>> /\ view[w] \in {"loading", "loaded"}
    BY <1>4 DEF CommentInv, Comment!TypeOK, Comment!Tap
  <2>2. pending[w] # <<>> => isLiked[w] = Last(pending[w])
    BY <1>0, <2>1, Zenon DEF Turns
  <2>3. /\ pending'[w] # <<>> /\ Alternating(pending'[w])
        /\ Last(pending'[w]) = ~isLiked[w]
        /\ pending[w] # <<>> => Head(pending'[w]) = Head(pending[w])
        /\ pending[w] = <<>> => Head(pending'[w]) = ~isLiked[w]
    <3>1. /\ Append(pending[w], ~isLiked[w]) # <<>> /\ Alternating(Append(pending[w], ~isLiked[w]))
          /\ Last(Append(pending[w], ~isLiked[w])) = ~isLiked[w]
          /\ pending[w] # <<>> => Head(Append(pending[w], ~isLiked[w])) = Head(pending[w])
          /\ pending[w] = <<>> => Head(Append(pending[w], ~isLiked[w])) = ~isLiked[w]
      BY <1>0, <2>2, Opposites, Zenon
    <3>. QED BY <2>1, <3>1, Zenon
  <2>4. Head(pending'[w]) <=> told[w] # "like"
    BY <1>0, <2>1, <2>3, Zenon DEF Turns
  <2>5. view'[w] # "closed"
    BY <2>1
  <2>. QED BY <2>1, <2>3, <2>4, <2>5, Zenon DEF Turns
<1>5. CASE v = w /\ Comment!Apply(w)
  <2>1. /\ pending[w] # <<>> /\ pending'[w] = Tail(pending[w]) /\ UNCHANGED <<view, isLiked>>
        /\ view[w] # "closed"
    BY <1>0, <1>5 DEF CommentInv, Comment!TypeOK, Comment!Apply, Turns
  <2>2. told'[w] = IF Head(pending[w]) THEN "like" ELSE "unlike"
    BY <1>5, Zenon DEF CommentInv, Comment!TypeOK, Comment!Apply
  <2>3. /\ Head(pending[w]) \in BOOLEAN /\ Alternating(pending'[w])
        /\ pending'[w] # <<>> => /\ Head(pending'[w]) <=> ~Head(pending[w])
                                 /\ Last(pending'[w]) = Last(pending[w])
        /\ pending'[w] = <<>> => Last(pending[w]) = Head(pending[w])
    <3>1. /\ Head(pending[w]) \in BOOLEAN /\ Alternating(Tail(pending[w]))
          /\ Tail(pending[w]) # <<>> => /\ Head(Tail(pending[w])) <=> ~Head(pending[w])
                                       /\ Last(Tail(pending[w])) = Last(pending[w])
          /\ Tail(pending[w]) = <<>> => Last(pending[w]) = Head(pending[w])
      BY <1>0, <2>1, Opposites, Zenon
    <3>. QED BY <2>1, <3>1, Zenon
  <2>4. told'[w] = "like" <=> Head(pending[w])
    <3>1. "unlike" # "like"
      OBVIOUS
    <3>. QED BY <2>2, <3>1, Zenon
  <2>. QED BY <1>0, <2>1, <2>3, <2>4, Zenon DEF Turns
<1>6. CASE v = w /\ Comment!Kill(w)
  <2>1. /\ pending'[w] = <<>> /\ view'[w] = "left"
    BY <1>0, <1>6 DEF CommentInv, Comment!TypeOK, Comment!Kill
  <2>2. Alternating(<<>>)
    BY DEF Alternating
  <2>3. view'[w] \notin {"loading", "loaded", "closed"}
    BY <2>1
  <2>. QED BY <2>1, <2>2, <2>3 DEF Turns
<1>. QED BY <1>1, <1>2, <1>3, <1>4, <1>5, <1>6, Zenon

LEMMA LastCountsStep == ASSUME CommentInv, [Comment!Next]_(Comment!vars) PROVE LastCounts'
<1>. USE DEF CommentInv, Comment!TypeOK, Comment!document, LastCounts
<1>1. ASSUME NEW w \in Widgets, Comment!Open(w) PROVE LastCounts'
  <2>1. told[w] = "nothing"
    BY <1>1, Zenon DEF Comment!Open, Turns
  <2>. QED BY <1>1, <2>1 DEF Comment!Open
<1>2. ASSUME NEW w \in Widgets, Comment!Apply(w) PROVE LastCounts'
  <2>1. ASSUME NEW v \in Widgets, v # w, ~overtaken'[v], told'[v] # "nothing"
        PROVE  told'[v] = "like" <=> user[v] \in likes'
    <3>1. ~overtaken[v] /\ user[v] # user[w] /\ told'[v] = told[v]
      BY <1>2, <2>1 DEF Comment!Apply
    <3>2. likes' \in {likes \union {user[w]}, likes \ {user[w]}}
      BY <1>2, Zenon DEF Comment!Apply
    <3>. QED BY <2>1, <3>1, <3>2
  <2>2. told'[w] = "like" <=> user[w] \in likes'
    <3>1. CASE Head(pending[w])
      <4>1. told' = [told EXCEPT ![w] = "like"] /\ likes' = likes \union {user[w]}
        BY <1>2, <3>1, Zenon DEF Comment!Apply
      <4>. QED BY <4>1
    <3>2. CASE ~Head(pending[w])
      <4>1. told' = [told EXCEPT ![w] = "unlike"] /\ likes' = likes \ {user[w]}
        BY <1>2, <3>2, Zenon DEF Comment!Apply
      <4>. QED BY <4>1
    <3>. QED BY <3>1, <3>2, Zenon
  <2>. QED BY <2>1, <2>2, Zenon
<1>3. ASSUME NEW w \in Widgets, Comment!Load(w) \/ Comment!Tap(w) \/ Comment!Leave(w) \/ Comment!Kill(w)
      PROVE  LastCounts'
  BY <1>3 DEF Comment!Load, Comment!Tap, Comment!Leave, Comment!Kill
<1>4. CASE UNCHANGED Comment!vars
  BY <1>4 DEF Comment!vars
<1>. QED BY <1>1, <1>2, <1>3, <1>4 DEF Comment!Next

(* Counting is the same in both modules.                                   *)
LEMMA SameCount == \A S : Comment!Cardinality(S) = Cardinality(S)
BY DEF Comment!Cardinality, Cardinality

LEMMA ScoreStep == ASSUME CommentInv, [Comment!Next]_(Comment!vars) PROVE ScoreCountsScreens'
<1>. USE DEF CommentInv, Comment!TypeOK, Comment!document, ScoreCountsScreens, Comment!ScoreCountsScreens
<1>. DEFINE Likers == {w \in Widgets : told[w] = "like"}
<1>0. IsFiniteSet(Likers) /\ score = Cardinality(Likers)
  <2>1. IsFiniteSet(Widgets)
    BY CommentAssumption, Zenon DEF Comment!WidgetsAssumption, Comment!IsFiniteSet, IsFiniteSet
  <2>2. IsFiniteSet(Likers)
    BY <2>1, FS_Subset
  <2>3. score = Comment!Cardinality(Likers)
    OBVIOUS
  <2>. HIDE DEF Likers
  <2>. QED BY <2>2, <2>3, SameCount
<1>3. ASSUME NEW S, Likers' = S, score' = Cardinality(S) PROVE ScoreCountsScreens'
  <2>1. Comment!Cardinality(S) = Cardinality(S)
    BY SameCount, Zenon
  <2>. QED BY <1>3, <2>1
<1>1. ASSUME NEW w \in Widgets, Comment!Apply(w) PROVE ScoreCountsScreens'
  <2>0. Head(pending[w]) <=> told[w] # "like"
    BY <1>1, Zenon DEF Comment!Apply, Turns
  <2>1. CASE Head(pending[w])
    <3>1. told' = [told EXCEPT ![w] = "like"] /\ score' = score + 1
      BY <1>1, <2>1, Zenon DEF Comment!Apply
    <3>2. told[w] # "like"
      BY <2>0, <2>1, Zenon
    <3>3. Likers' = Likers \union {w} /\ w \notin Likers
      BY <3>1, <3>2
    <3>4. score' = Cardinality(Likers \union {w})
      BY <1>0, <3>1, <3>3, FS_AddElement
    <3>. QED BY <1>3, <3>3, <3>4
  <2>2. CASE ~Head(pending[w])
    <3>1. told' = [told EXCEPT ![w] = "unlike"] /\ score' = score - 1
      BY <1>1, <2>2, Zenon DEF Comment!Apply
    <3>2. told[w] = "like"
      BY <2>0, <2>2, Zenon
    <3>3. Likers' = Likers \ {w} /\ w \in Likers
      BY <3>1, <3>2
    <3>4. score' = Cardinality(Likers \ {w})
      <4>1. Cardinality(Likers \ {w}) = Cardinality(Likers) - 1
        BY <1>0, <3>3, FS_RemoveElement
      <4>. QED BY <1>0, <3>1, <4>1
    <3>. QED BY <1>3, <3>3, <3>4
  <2>. QED BY <2>1, <2>2, Zenon
<1>2. ASSUME told' = told, score' = score PROVE ScoreCountsScreens'
  BY <1>2
<1>. QED BY <1>1, <1>2 DEF Comment!Next, Comment!Open, Comment!Load, Comment!Tap, Comment!Leave,
         Comment!Kill, Comment!vars

LEMMA CommentInvariant == Comment!Spec => []CommentInv
<1>1. Comment!Init => CommentInv
  <2>. SUFFICES ASSUME Comment!Init PROVE CommentInv
    OBVIOUS
  <2>1. <<>> \in Seq(BOOLEAN) /\ Alternating(<<>>)
    BY DEF Alternating
  <2>2. Comment!TypeOK
    BY <2>1 DEF Comment!Init, Comment!TypeOK
  <2>3. ScoreCountsScreens
    <3>1. {w \in Widgets : told[w] = "like"} = {}
      BY DEF Comment!Init
    <3>. QED BY <3>1, FS_EmptySet, SameCount DEF Comment!Init, ScoreCountsScreens, Comment!ScoreCountsScreens
  <2>4. LastCounts /\ \A w \in Widgets : Turns(w)
    BY <2>1 DEF Comment!Init, LastCounts, Turns
  <2>. QED BY <2>2, <2>3, <2>4 DEF CommentInv
<1>2. CommentInv /\ [Comment!Next]_(Comment!vars) => CommentInv'
  <2>. SUFFICES ASSUME CommentInv, [Comment!Next]_(Comment!vars) PROVE CommentInv'
    OBVIOUS
  <2>1. \A w \in Widgets : Turns(w)'
    BY TurnsStep
  <2>. QED BY <2>1, CommentTypes, ScoreStep, LastCountsStep DEF CommentInv
<1>. QED BY <1>1, <1>2, PTL DEF Comment!Spec

(* However often and fast it is tapped, a screen counts in the score of a  *)
(* comment when it liked last, and at most once: the score is never        *)
(* negative, for any widgets and users.                                    *)
THEOREM ScreensAreCounted == Comment!Spec => []ScoreCountsScreens
<1>1. CommentInv => ScoreCountsScreens
  BY DEF CommentInv
<1>. QED BY <1>1, CommentInvariant, PTL

(* What the heart of a widget shows after a tap, when no answer is due and *)
(* no other screen of the user came after it, is what the server has.      *)
THEOREM LastTapsWin == Comment!Spec => []LastTapWins
<1>1. CommentInv => LastTapWins
  <2>. SUFFICES ASSUME CommentInv, NEW w \in Widgets, Comment!Settled(w), told[w] # "nothing"
               PROVE  isLiked[w] <=> user[w] \in likes
    BY DEF LastTapWins, Comment!LastTapWins
  <2>1. view[w] \in {"loading", "loaded"} /\ pending[w] = <<>> /\ ~overtaken[w]
    BY DEF Comment!Settled
  <2>2. isLiked[w] <=> told[w] = "like"
    BY <2>1, Zenon DEF CommentInv, Turns
  <2>3. told[w] = "like" <=> user[w] \in likes
    BY <2>1, Zenon DEF CommentInv, LastCounts
  <2>. QED BY <2>2, <2>3, Zenon
<1>. QED BY <1>1, CommentInvariant, PTL
=============================================================================
