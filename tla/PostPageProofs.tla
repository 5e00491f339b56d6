--------------------------- MODULE PostPageProofs ---------------------------
(* The invariants of PostPage, for any number of pages, comments and       *)
(* refreshes.                                                              *)
EXTENDS PostPage, TLAPS

Own(p) == IF p \in ofOther THEN Others ELSE Comments

(* While the post is there with its audio, all that it lists, or that was  *)
(* found in its list, is stored, and no call has broken.                   *)
StoredWhole ==
  playable /\ live =>
    /\ listed \subseteq stored
    /\ \A c \in Calls : phase[c] = "comments" => found[c] \subseteq Stored(c[1])
    /\ Blank \notin commentList.items
    /\ \A p \in Pages : shown[p] # NotYet => Blank \notin shown[p].items
    /\ \A p \in Pages : failed[p] # "missing"

(* A call finds comments of its own post; the first call of a page misses  *)
(* none that was listed all the time.                                      *)
FindsOwn ==
  /\ \A c \in Calls : found[c] \subseteq Own(c[1])
  /\ \A p \in Pages :
       /\ due[p] \subseteq Listed(p)
       /\ phase[<<p, "first">>] = "comments" => due[p] \subseteq found[<<p, "first">>]

ClosedIsBare == \A p \in Pages : life[p] = "closed" => shown[p] = NotYet

(* What a page is about to be built from fits it, if the list was not      *)
(* changed since the end of its first call; and so does what it shows.     *)
Fits(p, l) ==
  l.items # {Blank} => due[p] \subseteq l.items /\ l.items \subseteq Own(p) /\ l.newest

WaitsForIts ==
  \A p \in Waiting : failed[p] = "no" /\ p \notin overtaken => Fits(p, commentList)

ShowsIts ==
  \A p \in Pages : shown[p] # NotYet /\ ~Hindered(p) => Fits(p, shown[p])

IInv == TypeOK /\ StoredWhole /\ FindsOwn /\ ClosedIsBare /\ WaitsForIts /\ ShowsIts

-----------------------------------------------------------------------------
(* The two calls of a page.                                                *)
LEMMA CallFacts ==
  /\ \A c \in Calls : c[1] \in Pages /\ (c[2] = "first" => c = <<c[1], "first">>)
  /\ \A p \in Pages : <<p, "first">> \in Calls
  /\ \A p \in Pages : p \in Refreshing => <<p, "again">> \in Calls
<1>1. Refreshing \subseteq Pages
  BY PagesAssumption DEF Pages
<1> QED
  BY <1>1 DEF Calls

LEMMA ListFacts ==
  /\ None \in Lists
  /\ \A l \in Lists : l.items \in (SUBSET (Comments \union Others)) \union {{Blank}} /\ l.newest \in BOOLEAN
  /\ \A s \in SUBSET (Comments \union Others) : [items |-> s, newest |-> TRUE] \in Lists
  /\ [items |-> {Blank}, newest |-> TRUE] \in Lists
  /\ \A l \in Lists, n \in BOOLEAN : [l EXCEPT !.newest = n] \in Lists
                                      /\ [l EXCEPT !.newest = n].items = l.items
<1>1. \A l \in Lists : /\ l = [items |-> l.items, newest |-> l.newest]
                       /\ l.items \in (SUBSET (Comments \union Others)) \union {{Blank}}
                       /\ l.newest \in BOOLEAN
  BY DEF Lists
<1>2. \A l \in Lists, n \in BOOLEAN :
        /\ [l EXCEPT !.newest = n] \in Lists
        /\ [l EXCEPT !.newest = n].items = l.items
  BY DEF Lists
<1> QED
  BY <1>1, <1>2 DEF None, Lists

LEMMA TypeStep == ASSUME TypeOK, [Next]_vars PROVE TypeOK'
<1> USE CallFacts DEF TypeOK, thread, calls, history
<1>1. ASSUME NEW p \in Pages, Open(p) PROVE TypeOK'
  BY <1>1 DEF Open, Listed
<1>2. ASSUME NEW p \in Pages, Refresh(p) PROVE TypeOK'
  BY <1>2, ListFacts DEF Refresh, Replace, Waiting
<1>3. ASSUME NEW p \in Pages, Sort(p) PROVE TypeOK'
  BY <1>3, ListFacts DEF Sort, Replace, Waiting
<1>4. ASSUME NEW p \in Pages, Build(p) PROVE TypeOK'
  BY <1>4 DEF Build
<1>5. ASSUME NEW p \in Pages, Leave(p) PROVE TypeOK'
  BY <1>5 DEF Leave
<1>6. ASSUME NEW p \in Pages, Dispose(p) PROVE TypeOK'
  BY <1>6, ListFacts DEF Dispose, Waiting
<1>7. ASSUME NEW c \in Calls, GetPost(c) PROVE TypeOK'
  <2>1. Listed(c[1]) \in SUBSET (Comments \union Others)
    BY DEF Listed
  <2>2. CASE Throws(c, "missing")
    BY <1>7, <2>2 DEF GetPost, Ends, Throws
  <2>3. CASE Ends(c) /\ Replace(None) /\ UNCHANGED failed
    BY <1>7, <2>3, ListFacts DEF GetPost, Ends, Replace, Waiting
  <2>4. CASE /\ found' = [found EXCEPT ![c] = Listed(c[1])]
             /\ phase' = [phase EXCEPT ![c] = "comments"]
             /\ UNCHANGED <<commentList, overtaken, failed>>
    BY <1>7, <2>1, <2>4 DEF GetPost
  <2> QED
    BY <1>7, <2>2, <2>3, <2>4 DEF GetPost
<1>8. ASSUME NEW c \in Calls, GetComments(c) PROVE TypeOK'
  <2>1. CASE Throws(c, "missing")
    BY <1>8, <2>1 DEF GetComments, Ends, Throws
  <2>2. ASSUME NEW l \in Lists, Ends(c), Replace(l), UNCHANGED failed PROVE TypeOK'
    BY <1>8, <2>2 DEF GetComments, Ends, Replace, Waiting
  <2>3. \/ Throws(c, "missing")
        \/ \E l \in Lists : Ends(c) /\ Replace(l) /\ UNCHANGED failed
    <3> DEFINE gone == found[c] \ Stored(c[1])
    <3>1. CASE gone = {}
      BY <1>8, <3>1, ListFacts DEF GetComments
    <3>2. CASE gone # {}
      BY <1>8, <3>2, ListFacts DEF GetComments
    <3> QED
      BY <3>1, <3>2
  <2> QED
    BY <2>1, <2>2, <2>3
<1>9. ASSUME NEW c \in Calls, Fail(c) PROVE TypeOK'
  BY <1>9 DEF Fail, Ends, Throws
<1>10. CASE ThreadStep
  BY <1>10 DEF ThreadStep, ThreadNext, Store, Remove, List, LoseAudio, Drop
<1>11. CASE UNCHANGED vars
  BY <1>11 DEF vars
<1> QED
  BY <1>1, <1>2, <1>3, <1>4, <1>5, <1>6, <1>7, <1>8, <1>9, <1>10, <1>11 DEF Next

LEMMA InitIInv == Init => IInv
<1> SUFFICES ASSUME Init PROVE IInv
  OBVIOUS
<1>1. TypeOK
  BY CallFacts, ListFacts DEF Init, ThreadInit, TypeOK
<1>2. StoredWhole /\ FindsOwn /\ ClosedIsBare /\ ShowsIts
  BY CallFacts DEF Init, ThreadInit, StoredWhole, FindsOwn, ClosedIsBare, ShowsIts, None, Listed
<1>3. WaitsForIts
  BY CallFacts DEF Init, WaitsForIts, Waiting
<1> QED
  BY <1>1, <1>2, <1>3 DEF IInv

(* The type invariant, for any number of pages and comments.               *)
THEOREM TypeCorrect == Spec => []TypeOK
<1>1. Init => TypeOK
  BY InitIInv DEF IInv
<1> QED
  BY <1>1, TypeStep, PTL DEF Spec

-----------------------------------------------------------------------------
(* While the audio is there no comment goes, and what is listed is stored  *)
(* before: so what is found to be listed is still stored when it is asked  *)
(* for.                                                                    *)
LEMMA StoredStep == ASSUME IInv, [Next]_vars PROVE StoredWhole'
<1> USE CallFacts DEF IInv, TypeOK, StoredWhole, Stored, thread, calls, history
<1>1. ASSUME NEW p \in Pages, Open(p) PROVE StoredWhole'
  BY <1>1 DEF Open
<1>2. ASSUME NEW p \in Pages, Refresh(p) PROVE StoredWhole'
  BY <1>2 DEF Refresh, Replace, None
<1>3. ASSUME NEW p \in Pages, Sort(p) PROVE StoredWhole'
  BY <1>3, ListFacts DEF Sort, Replace
<1>4. ASSUME NEW p \in Pages, Build(p) \/ Leave(p) PROVE StoredWhole'
  BY <1>4 DEF Build, Leave
<1>5. ASSUME NEW p \in Pages, Dispose(p) PROVE StoredWhole'
  BY <1>5 DEF Dispose, None
<1>6. ASSUME NEW c \in Calls, GetPost(c) PROVE StoredWhole'
  BY <1>6 DEF GetPost, Ends, Replace, Throws, None, Listed
<1>7. ASSUME NEW c \in Calls, GetComments(c) PROVE StoredWhole'
  <2> SUFFICES ASSUME playable', live' PROVE StoredWhole'
    OBVIOUS
  <2>1. found[c] \ Stored(c[1]) = {}
    BY <1>7 DEF GetComments
  <2>2. Ends(c) /\ Replace([items |-> found[c], newest |-> TRUE]) /\ UNCHANGED failed
    BY <1>7, <2>1 DEF GetComments
  <2>3. Blank \notin found[c]
    BY CommentsAssumption
  <2> QED
    BY <1>7, <2>2, <2>3 DEF GetComments, Ends, Replace
<1>8. ASSUME NEW c \in Calls, Fail(c) PROVE StoredWhole'
  BY <1>8 DEF Fail, Ends, Throws
<1>9. CASE ThreadStep
  BY <1>9 DEF ThreadStep, ThreadNext, Store, Remove, List, LoseAudio, Drop
<1>10. CASE UNCHANGED vars
  BY <1>10 DEF vars
<1> QED
  BY <1>1, <1>2, <1>3, <1>4, <1>5, <1>6, <1>7, <1>8, <1>9, <1>10 DEF Next

(* What was listed all the time since a page was opened is listed when its *)
(* call finds the list.                                                    *)
LEMMA FindsStep == ASSUME IInv, [Next]_vars PROVE FindsOwn' /\ ClosedIsBare'
<1> USE CallFacts DEF IInv, TypeOK, FindsOwn, ClosedIsBare, Own, Listed, thread, calls, history
<1>1. ASSUME NEW p \in Pages, Open(p) PROVE FindsOwn' /\ ClosedIsBare'
  BY <1>1 DEF Open
<1>2. ASSUME NEW p \in Pages, Refresh(p) \/ Sort(p) PROVE FindsOwn' /\ ClosedIsBare'
  BY <1>2 DEF Refresh, Sort
<1>3. ASSUME NEW p \in Pages, Build(p) \/ Leave(p) PROVE FindsOwn' /\ ClosedIsBare'
  BY <1>3 DEF Build, Leave, Waiting
<1>4. ASSUME NEW p \in Pages, Dispose(p) PROVE FindsOwn' /\ ClosedIsBare'
  BY <1>4 DEF Dispose
<1>5. ASSUME NEW c \in Calls, GetPost(c) PROVE FindsOwn' /\ ClosedIsBare'
  BY <1>5 DEF GetPost, Ends, Throws
<1>6. ASSUME NEW c \in Calls, GetComments(c) PROVE FindsOwn' /\ ClosedIsBare'
  BY <1>6 DEF GetComments, Ends, Throws
<1>7. ASSUME NEW c \in Calls, Fail(c) PROVE FindsOwn' /\ ClosedIsBare'
  BY <1>7 DEF Fail, Ends, Throws
<1>8. CASE ThreadStep
  BY <1>8 DEF ThreadStep
<1>9. CASE UNCHANGED vars
  BY <1>9 DEF vars
<1> QED
  BY <1>1, <1>2, <1>3, <1>4, <1>5, <1>6, <1>7, <1>8, <1>9 DEF Next

(* Whoever was waiting for the frame when the list is replaced is noted.   *)
LEMMA ReplaceNotes ==
  ASSUME NEW l, Replace(l), Waiting' \subseteq Waiting PROVE WaitsForIts'
BY DEF Replace, WaitsForIts

(* Only the end of its first call makes a page wait for the frame.         *)
LEMMA EndsWaits ==
  ASSUME TypeOK, NEW c \in Calls, Ends(c), UNCHANGED <<life, shown>>
  PROVE  /\ c[2] # "first" => Waiting' \subseteq Waiting
         /\ Waiting' \subseteq Waiting \union {c[1]}
BY CallFacts DEF TypeOK, Ends, Waiting

LEMMA WaitsStep == ASSUME IInv, [Next]_vars PROVE WaitsForIts'
<1> USE CallFacts DEF thread, calls, history
<1>1. ASSUME NEW p \in Pages, Open(p) PROVE WaitsForIts'
  BY <1>1 DEF Open, IInv, TypeOK, WaitsForIts, Waiting, Fits
<1>2. ASSUME NEW p \in Pages, Refresh(p) PROVE WaitsForIts'
  <2>1. Waiting' \subseteq Waiting
    BY <1>2 DEF Refresh, IInv, TypeOK, Waiting
  <2> QED
    BY <1>2, <2>1, ReplaceNotes DEF Refresh
<1>3. ASSUME NEW p \in Pages, Sort(p) PROVE WaitsForIts'
  <2>1. Waiting' \subseteq Waiting
    BY <1>3 DEF Sort, Waiting
  <2> QED
    BY <1>3, <2>1, ReplaceNotes DEF Sort
<1>4. ASSUME NEW p \in Pages, Build(p) \/ Leave(p) PROVE WaitsForIts'
  <2>1. Waiting' \subseteq Waiting
    BY <1>4 DEF Build, Leave, IsTop, IInv, TypeOK, Waiting
  <2>2. UNCHANGED <<commentList, due, failed, overtaken>>
    BY <1>4 DEF Build, Leave
  <2> QED
    BY <2>1, <2>2 DEF IInv, WaitsForIts, Fits
<1>5. ASSUME NEW p \in Pages, Dispose(p) PROVE WaitsForIts'
  BY <1>5 DEF Dispose, IInv, TypeOK, WaitsForIts, Waiting
<1>6. ASSUME NEW c \in Calls, NEW why \in {"missing", "request"}, Throws(c, why),
             UNCHANGED <<life, shown, due>>
      PROVE  WaitsForIts'
  <2>1. c[2] # "first" => Waiting' \subseteq Waiting
    BY <1>6, EndsWaits DEF Throws, IInv
  <2>2. Waiting' \subseteq Waiting \union {c[1]}
    BY <1>6, EndsWaits DEF Throws, IInv
  <2>3. c[2] = "first" /\ c[1] \in Waiting' => failed'[c[1]] # "no"
    BY <1>6 DEF Throws, Waiting, IInv, TypeOK
  <2>4. \A p \in Pages : failed'[p] = "no" => failed[p] = "no"
    BY <1>6 DEF Throws, IInv, TypeOK
  <2> QED
    BY <1>6, <2>1, <2>2, <2>3, <2>4 DEF Throws, IInv, WaitsForIts, Fits, Waiting
<1>7. ASSUME NEW c \in Calls, NEW l, Ends(c), Replace(l), UNCHANGED <<life, shown, due>>,
             c[2] = "first" => Fits(c[1], l)
      PROVE  WaitsForIts'
  <2>1. c[2] # "first" => Waiting' \subseteq Waiting
    BY <1>7, EndsWaits DEF IInv
  <2>2. Waiting' \subseteq Waiting \union {c[1]}
    BY <1>7, EndsWaits DEF IInv
  <2> QED
    BY <1>7, <2>1, <2>2 DEF Replace, WaitsForIts, Fits
<1>8. ASSUME NEW c \in Calls, GetPost(c) PROVE WaitsForIts'
  <2>1. CASE (c[1] \in ofOther \/ live) /\ Listed(c[1]) = {}
    <3>1. Fits(c[1], None)
      BY <2>1 DEF IInv, FindsOwn, Fits, None
    <3> QED
      BY <1>7, <1>8, <2>1, <3>1 DEF GetPost
  <2>2. CASE (c[1] \in ofOther \/ live) /\ Listed(c[1]) # {}
    BY <1>8, <2>2 DEF GetPost, IInv, TypeOK, WaitsForIts, Waiting, Fits
  <2>3. CASE ~(c[1] \in ofOther \/ live)
    BY <1>6, <1>8, <2>3 DEF GetPost
  <2> QED
    BY <2>1, <2>2, <2>3
<1>9. ASSUME NEW c \in Calls, GetComments(c) PROVE WaitsForIts'
  <2> DEFINE gone == found[c] \ Stored(c[1])
             l == [items |-> IF gone = {} THEN found[c] ELSE {Blank}, newest |-> TRUE]
  <2>1. CASE gone # {} /\ Cardinality(found[c]) > 1
    BY <1>6, <1>9, <2>1 DEF GetComments
  <2>2. CASE ~(gone # {} /\ Cardinality(found[c]) > 1)
    <3>1. c[2] = "first" => Fits(c[1], l)
      BY <1>9 DEF GetComments, IInv, FindsOwn, Fits
    <3>2. Ends(c) /\ Replace(l) /\ UNCHANGED <<life, shown, due>>
      BY <1>9, <2>2 DEF GetComments
    <3> HIDE DEF l
    <3> QED
      BY <1>7, <3>1, <3>2
  <2> QED
    BY <2>1, <2>2
<1>10. ASSUME NEW c \in Calls, Fail(c) PROVE WaitsForIts'
  BY <1>6, <1>10 DEF Fail
<1>11. CASE ThreadStep
  BY <1>11 DEF ThreadStep, IInv, TypeOK, WaitsForIts, Waiting, Fits
<1>12. CASE UNCHANGED vars
  BY <1>12 DEF vars, IInv, WaitsForIts, Waiting, Fits
<1> QED
  BY <1>1, <1>2, <1>3, <1>4, <1>5, <1>8, <1>9, <1>10, <1>11, <1>12 DEF Next

LEMMA ShowsStep == ASSUME IInv, [Next]_vars PROVE ShowsIts'
<1> USE CallFacts DEF IInv, TypeOK, ShowsIts, Hindered, Fits, thread, calls, history
<1>1. ASSUME NEW p \in Pages, Open(p) PROVE ShowsIts'
  BY <1>1 DEF Open, ClosedIsBare
<1>2. ASSUME NEW p \in Pages, Refresh(p) \/ Sort(p) PROVE ShowsIts'
  BY <1>2 DEF Refresh, Sort, Replace
<1>3. ASSUME NEW p \in Pages, Build(p) PROVE ShowsIts'
  BY <1>3 DEF Build, WaitsForIts
<1>4. ASSUME NEW p \in Pages, Leave(p) PROVE ShowsIts'
  BY <1>4 DEF Leave
<1>5. ASSUME NEW p \in Pages, Dispose(p) PROVE ShowsIts'
  BY <1>5 DEF Dispose
<1>6. ASSUME NEW c \in Calls, GetPost(c) PROVE ShowsIts'
  BY <1>6 DEF GetPost, Replace, Throws
<1>7. ASSUME NEW c \in Calls, GetComments(c) PROVE ShowsIts'
  BY <1>7 DEF GetComments, Replace, Throws
<1>8. ASSUME NEW c \in Calls, Fail(c) PROVE ShowsIts'
  BY <1>8 DEF Fail, Throws
<1>9. CASE ThreadStep
  BY <1>9 DEF ThreadStep
<1>10. CASE UNCHANGED vars
  BY <1>10 DEF vars
<1> QED
  BY <1>1, <1>2, <1>3, <1>4, <1>5, <1>6, <1>7, <1>8, <1>9, <1>10 DEF Next

LEMMA Inductive == Spec => []IInv
<1>1. IInv /\ [Next]_vars => IInv'
  BY TypeStep, StoredStep, FindsStep, WaitsStep, ShowsStep DEF IInv
<1> QED
  BY <1>1, InitIInv, PTL DEF Spec

-----------------------------------------------------------------------------
(* A page shows the comments of its own post, all that were there all the  *)
(* time, newest first, however many pages share the list.                  *)
THEOREM PagesAreCurrent == Spec => []ShownIsCurrent
<1>1. IInv => ShownIsCurrent
  BY DEF IInv, ShowsIts, Fits, Own, ShownIsCurrent
<1> QED
  BY <1>1, Inductive, PTL

(* No page breaks over a missing comment before the deletion has begun.    *)
THEOREM OnlyDeletionBreaks == Spec => []BrokenNeedsDeletion
<1>1. IInv => BrokenNeedsDeletion
  BY DEF IInv, StoredWhole, BrokenNeedsDeletion
<1> QED
  BY <1>1, Inductive, PTL
=============================================================================
