----------------------- MODULE TranscriptViewProofs ------------------------
(***************************************************************************)
(* Proofs about TranscriptView for any number of cards: a text in sync,    *)
(* what makes the visible view follow the tail or stops it, a selection    *)
(* that exists, and matches of a search that are sorted, exact and keep    *)
(* the active one.                                                         *)
(***************************************************************************)
EXTENDS TranscriptView, FoldLemmas, FiniteSetTheorems, SequenceTheorems

----------------------------------------------------------------------------
(* The operations of TranscriptEditor.                                     *)

\* Will this editor follow once the next frame has decided?
Follows(e) == NextFrame(e).follow_tail

\* What decides it.
LEMMA FollowsIs ==
  ASSUME NEW e, EditorOK(e)
  PROVE  /\ e.pending_tail_intent = "None" => Follows(e) = e.follow_tail
         /\ e.pending_tail_intent = "DirectScroll" => (Follows(e) <=> e.viewport # "above")
         /\ e.pending_tail_intent \in Selections
              => (Follows(e) <=> follow_tail_after_selection(
                                   e, e.pending_tail_intent = "SelectionFollowing"))
  BY DEF EditorOK, Editors, Selections, Follows, NextFrame, apply_pending_tail_intent,
         follow_tail_after_selection

\* A frame decides, and leaves the text alone.
LEMMA FrameDecides ==
  ASSUME NEW e, EditorOK(e)
  PROVE  /\ EditorOK(NextFrame(e)) /\ NextFrame(e).pending_tail_intent = "None"
         /\ NextFrame(e).doc = e.doc /\ NextFrame(e).viewport = e.viewport
         /\ Follows(NextFrame(e)) = Follows(e)
<1> DEFINE f == NextFrame(e)
<1>1. CASE ~ e.viewport_refresh_pending
  <2>1. f = e /\ e.pending_tail_intent = "None"
    BY <1>1 DEF NextFrame, EditorOK
  <2>2. QED BY <2>1
<1>2. CASE e.viewport_refresh_pending
  <2> DEFINE d == [e EXCEPT !.viewport_refresh_pending = FALSE]
  <2>1. d \in Editors /\ f = apply_pending_tail_intent(d) /\ d.cursor <= d.doc
    BY <1>2 DEF NextFrame, EditorOK, Editors
  <2>2. d.doc = e.doc /\ d.viewport = e.viewport
    BY DEF EditorOK, Editors
  <2> HIDE DEF d
  <2>3. follow_tail_after_selection(d, d.pending_tail_intent = "SelectionFollowing")
          \in BOOLEAN
    BY DEF follow_tail_after_selection
  <2>4. /\ apply_pending_tail_intent(d) \in Editors
        /\ apply_pending_tail_intent(d).pending_tail_intent = "None"
        /\ apply_pending_tail_intent(d).doc = d.doc
        /\ apply_pending_tail_intent(d).cursor = d.cursor
        /\ apply_pending_tail_intent(d).viewport = d.viewport
    BY <2>1, <2>3 DEF apply_pending_tail_intent, Editors, Selections
  <2>5. EditorOK(f) /\ f.pending_tail_intent = "None"
    BY <2>1, <2>4 DEF EditorOK
  <2>6. Follows(f) = f.follow_tail
    BY <2>5, FollowsIs
  <2>7. QED BY <2>1, <2>2, <2>4, <2>5, <2>6 DEF Follows
<1>3. QED BY <1>1, <1>2

\* The tail is shown.
LEMMA RevealFollows ==
  ASSUME NEW e, EditorOK(e)
  PROVE  /\ EditorOK(reveal_tail(e)) /\ reveal_tail(e).doc = e.doc
         /\ reveal_tail(e).cursor = e.cursor
         /\ reveal_tail(e).last_selection_head = {e.cursor}
         /\ reveal_tail(e).follow_tail = TRUE
         /\ reveal_tail(e).pending_tail_intent = "None"
  BY DEF EditorOK, Editors, reveal_tail, request_tail_autoscroll

\* The editor is paused.
LEMMA PauseStops ==
  ASSUME NEW e, EditorOK(e)
  PROVE  /\ EditorOK(pause_tail_follow(e)) /\ EditorOK(reveal_row_at_top(e))
         /\ pause_tail_follow(e).doc = e.doc /\ reveal_row_at_top(e).doc = e.doc
         /\ pause_tail_follow(e).cursor = e.cursor /\ reveal_row_at_top(e).cursor = e.cursor
         /\ pause_tail_follow(e).follow_tail = FALSE
         /\ reveal_row_at_top(e).follow_tail = FALSE
         /\ pause_tail_follow(e).pending_tail_intent = "None"
         /\ reveal_row_at_top(e).pending_tail_intent = "None"
  BY DEF EditorOK, Editors, pause_tail_follow, reveal_row_at_top

\* A selection by the user waits for the next frame, which knows whether the editor
\* followed when it was made.
LEMMA NoteWaits ==
  ASSUME NEW e, EditorOK(e)
  PROVE  /\ EditorOK(note_local_selection(e)) /\ note_local_selection(e).doc = e.doc
         /\ note_local_selection(e).cursor = e.cursor
         /\ note_local_selection(e).last_selection_head = e.last_selection_head
         /\ note_local_selection(e).pending_tail_intent \in Selections
         /\ e.pending_tail_intent = "None"
              => (note_local_selection(e).pending_tail_intent = "SelectionFollowing"
                    <=> e.follow_tail)
         /\ e.pending_tail_intent \in Selections
              => note_local_selection(e).pending_tail_intent = e.pending_tail_intent
         /\ e.pending_tail_intent = "DirectScroll"
              => note_local_selection(e).pending_tail_intent = "SelectionPaused"
  BY DEF EditorOK, Editors, Selections, note_local_selection

\* The cursor goes to a position in the text.
LEMMA CursorMoves ==
  ASSUME NEW e, EditorOK(e), NEW c \in Nat, c <= e.doc
  PROVE  /\ EditorOK(SetCursor(e, c)) /\ SetCursor(e, c).doc = e.doc
         /\ SetCursor(e, c).cursor = c
         /\ SetCursor(e, c).last_selection_head = e.last_selection_head
         /\ SetCursor(e, c).pending_tail_intent = e.pending_tail_intent
         /\ SetCursor(e, c).follow_tail = e.follow_tail
  BY DEF EditorOK, Editors, SetCursor

\* A scroll waits for the next frame.
LEMMA ScrollWaits ==
  ASSUME NEW e, EditorOK(e), NEW v \in {"above", "end", "beyond"}
  PROVE  /\ EditorOK(DirectScroll(e, v)) /\ DirectScroll(e, v).doc = e.doc
         /\ DirectScroll(e, v).viewport = v
         /\ DirectScroll(e, v).pending_tail_intent = "DirectScroll"
  BY DEF EditorOK, Editors, DirectScroll

\* An edit of the text decides nothing.
LEMMA EditKeeps ==
  ASSUME NEW e, EditorOK(e)
  PROVE  /\ EditorOK(edit(e)) /\ edit(e).doc = e.doc /\ edit(e).cursor = e.cursor
         /\ edit(e).follow_tail = e.follow_tail
         /\ edit(e).pending_tail_intent = e.pending_tail_intent
  BY DEF EditorOK, Editors, edit, request_tail_autoscroll

\* A text that changes decides nothing, and cards that are only added leave the cursor
\* and a viewport above the end.
LEMMA ChangedKeeps ==
  ASSUME NEW e, EditorOK(e), NEW n \in Nat, e.doc <= n, NEW dirty, NEW f \in Changed(e, n, dirty)
  PROVE  /\ EditorOK(f) /\ f.doc = n
         /\ f.follow_tail = e.follow_tail /\ f.pending_tail_intent = e.pending_tail_intent
         /\ dirty = {} => /\ f.cursor = Shifted(e, n, e.cursor)
                          /\ e.viewport = "above" => f.viewport = "above"
         /\ \A q \in f.last_selection_head : \E p \in e.last_selection_head :
              q = IF p = e.cursor THEN f.cursor ELSE Shifted(e, n, p)
<1> DEFINE moved == {c \in 0..n : e.cursor # e.doc /\ \E d \in dirty : d <= e.cursor /\ d <= c}
           views == (IF e.viewport = "above" THEN {} ELSE {"above", "end"})
                      \cup (IF dirty = {} THEN {} ELSE {"above", "end", "beyond"})
<1>1. PICK v \in {e.viewport} \cup views, c \in {Shifted(e, n, e.cursor)} \cup moved :
         f = ChangedTo(e, n, v, c)
  BY DEF Changed
<1> DEFINE heads == {IF p = e.cursor THEN c ELSE Shifted(e, n, p) : p \in e.last_selection_head}
           g == [e EXCEPT !.doc = n, !.viewport = v, !.cursor = c, !.last_selection_head = heads]
<1>2. /\ e \in Editors /\ e.viewport \in {"above", "end", "beyond"} /\ e.cursor <= e.doc
      /\ e.cursor \in Nat /\ e.doc \in Nat /\ e.last_selection_head \in SUBSET Nat
  BY DEF EditorOK, Editors
<1>3. v \in {"above", "end", "beyond"} /\ c \in Nat /\ c <= n
  BY <1>1, <1>2 DEF Shifted
<1>4. dirty = {} => c = Shifted(e, n, e.cursor) /\ (e.viewport = "above" => v = "above")
  BY <1>1
<1>5. heads \in SUBSET Nat
  BY <1>2, <1>3 DEF Shifted
<1>6. f = edit(g)
  BY <1>1 DEF ChangedTo
<1>7. \A q \in heads : \E p \in e.last_selection_head :
        q = IF p = e.cursor THEN c ELSE Shifted(e, n, p)
  OBVIOUS
<1> HIDE DEF heads, moved, views
<1>8. /\ EditorOK(g) /\ g.doc = n /\ g.cursor = c /\ g.viewport = v
      /\ g.follow_tail = e.follow_tail /\ g.pending_tail_intent = e.pending_tail_intent
      /\ g.last_selection_head = heads
  BY <1>2, <1>3, <1>5 DEF EditorOK, Editors
<1> HIDE DEF g
<1>9. edit(g).viewport = g.viewport /\ edit(g).last_selection_head = g.last_selection_head
  BY <1>8 DEF edit, request_tail_autoscroll, EditorOK, Editors
<1>10. /\ EditorOK(f) /\ f.doc = n /\ f.cursor = c /\ f.viewport = v
       /\ f.follow_tail = e.follow_tail /\ f.pending_tail_intent = e.pending_tail_intent
       /\ f.last_selection_head = heads
  BY <1>6, <1>8, <1>9, EditKeeps
<1>11. QED BY <1>4, <1>7, <1>10

\* Cards that are only added do not make it follow.
LEMMA AddedPullsNot ==
  ASSUME NEW e, EditorOK(e), NEW n \in Nat, e.doc <= n, NEW f \in Changed(e, n, {}), Follows(f)
  PROVE  Follows(e)
<1>1. /\ EditorOK(f) /\ f.doc = n
      /\ f.follow_tail = e.follow_tail /\ f.pending_tail_intent = e.pending_tail_intent
      /\ f.cursor = Shifted(e, n, e.cursor) /\ (e.viewport = "above" => f.viewport = "above")
      /\ \A q \in f.last_selection_head : \E p \in e.last_selection_head :
           q = IF p = e.cursor THEN f.cursor ELSE Shifted(e, n, p)
  BY ChangedKeeps
<1>2. /\ e \in Editors /\ e.cursor <= e.doc /\ e.cursor \in Nat /\ e.doc \in Nat
      /\ e.last_selection_head \in SUBSET Nat
      /\ e.pending_tail_intent \in {"None", "DirectScroll"} \cup Selections
  BY DEF EditorOK, Editors
<1>3. CASE e.pending_tail_intent = "None"
  BY <1>1, <1>3, FollowsIs
<1>4. CASE e.pending_tail_intent = "DirectScroll"
  BY <1>1, <1>4, FollowsIs
<1>5. CASE e.pending_tail_intent \in Selections
  <2> DEFINE was == e.pending_tail_intent = "SelectionFollowing"
  <2>1. follow_tail_after_selection(f, was)
    BY <1>1, <1>5, FollowsIs
  <2>2. CASE e.cursor = e.doc
    BY <1>5, <2>2, FollowsIs DEF follow_tail_after_selection
  <2>3. CASE e.cursor # e.doc
    <3>1. f.cursor = e.cursor /\ f.cursor # n
      BY <1>1, <1>2, <2>3 DEF Shifted
    <3>2. PICK q \in f.last_selection_head : was /\ f.cursor >= q
      BY <1>1, <2>1, <3>1 DEF follow_tail_after_selection
    <3>3. PICK p \in e.last_selection_head : q = IF p = e.cursor THEN f.cursor ELSE Shifted(e, n, p)
      BY <1>1, <3>2
    <3>4. e.cursor >= p
      BY <1>2, <2>3, <3>1, <3>2, <3>3 DEF Shifted
    <3>5. QED BY <1>5, <3>2, <3>4, FollowsIs DEF follow_tail_after_selection
  <2>4. QED BY <2>2, <2>3
<1>6. QED BY <1>2, <1>3, <1>4, <1>5

\* A text that is replaced decides nothing either.
LEMMA ReplaceKeeps ==
  ASSUME NEW e, EditorOK(e), NEW n \in Nat, NEW f \in Replace(e, n)
  PROVE  /\ EditorOK(f) /\ f.doc = n /\ f.follow_tail = e.follow_tail
         /\ f.pending_tail_intent = e.pending_tail_intent
<1>1. PICK v \in {"above", "end", "beyond"}, c \in 0..n : f = Replaced(e, n, v, c)
  BY DEF Replace
<1> DEFINE heads == {IF p = e.cursor THEN c ELSE AtMost(p, n) : p \in e.last_selection_head}
           g == [e EXCEPT !.doc = n, !.viewport = v, !.cursor = c,
                          !.last_selection_head = heads]
<1>2. e \in Editors /\ c \in Nat /\ c <= n
  BY DEF EditorOK
<1>3. heads \in SUBSET Nat
  BY <1>2 DEF Editors, AtMost
<1>4. f = edit(g)
  BY <1>1 DEF Replaced
<1> HIDE DEF heads
<1>5. /\ EditorOK(g) /\ g.doc = n /\ g.follow_tail = e.follow_tail
      /\ g.pending_tail_intent = e.pending_tail_intent
  BY <1>2, <1>3 DEF EditorOK, Editors
<1> HIDE DEF g
<1>6. QED BY <1>4, <1>5, EditKeeps

\* The layout decides nothing, unless the viewport is past the end of the text.
LEMMA LayoutKeeps ==
  ASSUME NEW e, EditorOK(e), NEW f \in EditorLayout(e)
  PROVE  /\ EditorOK(f) /\ f.doc = e.doc
         /\ e.viewport # "beyond" => /\ f.follow_tail = e.follow_tail
                                     /\ f.pending_tail_intent = e.pending_tail_intent
<1> DEFINE d == IF e.viewport = "beyond" THEN DirectScroll(e, "end") ELSE e
<1>1. EditorOK(d) /\ d.doc = e.doc /\ (e.viewport # "beyond" => d = e)
  BY ScrollWaits
<1>2. d.viewport \in {"above", "end", "beyond"}
  BY <1>1 DEF EditorOK, Editors
<1>3. PICK v \in {"above", "end", "beyond"} :
        f = [d EXCEPT !.viewport = v, !.autoscroll = "None"]
  BY <1>2 DEF EditorLayout
<1> HIDE DEF d
<1>4. QED BY <1>1, <1>3 DEF EditorOK, Editors

----------------------------------------------------------------------------
(* The matches of a search.                                                *)

\* In the order of the cards, without repetition.
Increasing(m) == \A i, j \in 1..Len(m) : i < j => m[i] < m[j]

\* Which cards a sequence of matches has.
LEMMA RangeIs ==
  ASSUME NEW E, NEW m \in Seq(E)
  PROVE  /\ \A e : e \in Range(m) <=> \E i \in 1..Len(m) : m[i] = e
         /\ Range(m) \subseteq E
<1>1. DOMAIN m = 1..Len(m)
  OBVIOUS
<1>2. QED BY <1>1 DEF Range

\* The partial results of Retain.
RetainPartsOf(part, m, S) ==
  /\ part[0] = <<>>
  /\ \A k \in 0..(Len(m) - 1) : part[k + 1] = Retained(S, part[k], m[k + 1])
  /\ Retain(m, S) = part[Len(m)]

\* There are such results.
LEMMA RetainParts ==
  ASSUME NEW E, NEW m \in Seq(E), NEW S
  PROVE  \E part \in [0..Len(m) -> Seq(E)] : RetainPartsOf(part, m, S)
<1> DEFINE A == Seq(E)
           MapFolds(f) == f = [s \in SUBSET (DOMAIN m) |->
                             IF s = {} THEN <<>> ELSE Retained(S, f[s \ {Max(s)}], m[Max(s)])]
           G == [z \in A \X E |-> Retained(S, z[1], z[2])]
<1>1. DOMAIN m = 1..Len(m) /\ Len(m) \in Nat
  OBVIOUS
<1>2. <<>> \in A /\ \A acc \in A, e \in E : Retained(S, acc, e) \in A
  BY DEF Retained
<1> HIDE DEF A
<1>3. G \in [A \X E -> A]
  BY <1>2
<1>4. PICK f \in [SUBSET (DOMAIN m) -> A] : FoldsWith(f, <<>>, m, G)
  <2> HIDE DEF G
  <2> QED BY <1>2, <1>3, FoldExists
<1>5. \A s \in SUBSET (DOMAIN m) : s # {} => m[Max(s)] \in E
  BY MaxElement, <1>1
<1>6. \A s \in SUBSET (DOMAIN m) : s # {} => <<f[s \ {Max(s)}], m[Max(s)]>> \in A \X E
  BY <1>5
<1>7. \A s \in SUBSET (DOMAIN m) : s # {} => f[s] = Retained(S, f[s \ {Max(s)}], m[Max(s)])
  BY <1>4, <1>6 DEF FoldsWith
<1>8. MapFolds(f)
  BY <1>4, <1>7 DEF FoldsWith
<1>9. MapFolds(CHOOSE g : MapFolds(g))
  <2> HIDE DEF MapFolds
  <2> QED BY <1>8
<1> DEFINE g == CHOOSE ff : MapFolds(ff)
<1>10. Retain(m, S) = g[DOMAIN m]
  BY DEF Retain, FoldLeft, MapThenFoldSet
<1> HIDE DEF g
<1>11. g = [s \in SUBSET (DOMAIN m) |->
              IF s = {} THEN <<>> ELSE Retained(S, g[s \ {Max(s)}], m[Max(s)])]
  BY <1>9 DEF g
<1> HIDE DEF MapFolds
<1>12. FoldsIn(g, A, <<>>, m, G)
  BY <1>5, <1>11 DEF FoldsIn
<1>13. PICK part \in [0..Len(m) -> A] :
         Partial(part, <<>>, m, G) /\ g[DOMAIN m] = part[Len(m)]
  <2> HIDE DEF G
  <2>1. <<>> \in A
    BY <1>2
  <2>2. HasParts(g, A, <<>>, m, G)
    BY <1>3, <1>12, <2>1, FoldParts
  <2>3. QED BY <2>2 DEF HasParts
<1>14. ASSUME NEW k \in 0..(Len(m) - 1) PROVE part[k + 1] = Retained(S, part[k], m[k + 1])
  <2>1. k \in 0..Len(m) /\ m[k + 1] \in E
    BY <1>1
  <2>2. <<part[k], m[k + 1]>> \in A \X E
    BY <2>1
  <2>3. QED BY <1>13, <2>2 DEF Partial
<1>15. RetainPartsOf(part, m, S)
  BY <1>10, <1>13, <1>14 DEF Partial, RetainPartsOf
<1>16. QED BY <1>15 DEF A

\* What is retained of sorted matches is sorted, and what it should be.
LEMMA RetainSound ==
  ASSUME NEW m \in Seq(Nat), Increasing(m), NEW S
  PROVE  /\ Retain(m, S) \in Seq(Nat) /\ Increasing(Retain(m, S))
         /\ Range(Retain(m, S)) = Range(m) \cap S
<1>1. PICK part \in [0..Len(m) -> Seq(Nat)] : RetainPartsOf(part, m, S)
  BY RetainParts
<1>2. Len(m) \in Nat
  OBVIOUS
<1> DEFINE From(k) == \A i \in 1..Len(part[k]) :
                        part[k][i] \in S /\ \E j \in 1..k : m[j] = part[k][i]
           All(k) == \A j \in 1..k : m[j] \in S => \E i \in 1..Len(part[k]) : part[k][i] = m[j]
           T == {k \in 0..Len(m) : Increasing(part[k]) /\ From(k) /\ All(k)}
<1>3. 0 \in T
  BY <1>1, <1>2 DEF RetainPartsOf, Increasing
<1>4. ASSUME NEW k \in 0..(Len(m) - 1), k \in T PROVE k + 1 \in T
  <2>1. /\ k \in 0..Len(m) /\ k + 1 \in 0..Len(m) /\ k + 1 \in 1..Len(m) /\ k \in Nat
        /\ part[k] \in Seq(Nat) /\ m[k + 1] \in Nat
    BY <1>1, <1>2
  <2>2. part[k + 1] = Retained(S, part[k], m[k + 1])
    BY <1>1 DEF RetainPartsOf
  <2>3. Increasing(part[k]) /\ From(k) /\ All(k)
    BY <1>4
  <2>4. \A j \in 1..(k + 1) : j \in 1..k \/ j = k + 1
    BY <2>1
  <2>5. \A j \in 1..k : j \in 1..(k + 1) /\ j \in 1..Len(m) /\ m[j] < m[k + 1]
    BY <1>2, <2>1 DEF Increasing
  <2>6. CASE m[k + 1] \notin S
    <3>1. part[k + 1] = part[k]
      BY <2>2, <2>6 DEF Retained
    <3>2. From(k + 1)
      BY <2>3, <2>5, <3>1
    <3>3. All(k + 1)
      BY <2>3, <2>4, <2>6, <3>1
    <3>4. QED BY <2>1, <2>3, <3>1, <3>2, <3>3
  <2>7. CASE m[k + 1] \in S
    <3>1. part[k + 1] = Append(part[k], m[k + 1])
      BY <2>2, <2>7 DEF Retained
    <3>2. /\ Len(part[k + 1]) = Len(part[k]) + 1 /\ Len(part[k]) \in Nat
          /\ \A i \in 1..Len(part[k + 1]) :
               \/ i \in 1..Len(part[k]) /\ part[k + 1][i] = part[k][i]
               \/ i = Len(part[k]) + 1 /\ part[k + 1][i] = m[k + 1]
          /\ \A i \in 1..Len(part[k]) : /\ i \in 1..Len(part[k + 1])
                                        /\ part[k + 1][i] = part[k][i]
          /\ Len(part[k]) + 1 \in 1..Len(part[k + 1])
          /\ part[k + 1][Len(part[k]) + 1] = m[k + 1]
      BY <2>1, <3>1
    <3>3. From(k + 1)
      <4>1. SUFFICES ASSUME NEW i \in 1..Len(part[k + 1])
                     PROVE  part[k + 1][i] \in S /\ \E j \in 1..(k + 1) : m[j] = part[k + 1][i]
        OBVIOUS
      <4>2. CASE i \in 1..Len(part[k]) /\ part[k + 1][i] = part[k][i]
        BY <2>3, <2>5, <4>2
      <4>3. CASE i = Len(part[k]) + 1 /\ part[k + 1][i] = m[k + 1]
        <5>1. k + 1 \in 1..(k + 1)
          BY <2>1
        <5>2. QED BY <2>7, <4>3, <5>1
      <4>4. QED BY <3>2, <4>2, <4>3
    <3>4. All(k + 1)
      <4>1. SUFFICES ASSUME NEW j \in 1..(k + 1), m[j] \in S
                     PROVE  \E i \in 1..Len(part[k + 1]) : part[k + 1][i] = m[j]
        OBVIOUS
      <4>2. CASE j \in 1..k
        <5>1. PICK i \in 1..Len(part[k]) : part[k][i] = m[j]
          BY <2>3, <4>1, <4>2
        <5>2. QED BY <3>2, <5>1
      <4>3. CASE j = k + 1
        BY <3>2, <4>3
      <4>4. QED BY <2>4, <4>2, <4>3
    <3>5. \A i \in 1..Len(part[k]) : part[k][i] < m[k + 1]
      BY <2>3, <2>5
    <3>6. Increasing(part[k + 1])
      <4>1. SUFFICES ASSUME NEW i \in 1..Len(part[k + 1]), NEW j \in 1..Len(part[k + 1]),
                            i < j
                     PROVE  part[k + 1][i] < part[k + 1][j]
        BY DEF Increasing
      <4>2. i \in 1..Len(part[k]) /\ part[k + 1][i] = part[k][i]
        <5>1. i # Len(part[k]) + 1
          BY <3>2, <4>1
        <5>2. QED BY <3>2, <5>1
      <4>3. CASE j \in 1..Len(part[k]) /\ part[k + 1][j] = part[k][j]
        BY <2>3, <4>1, <4>2, <4>3 DEF Increasing
      <4>4. CASE j = Len(part[k]) + 1 /\ part[k + 1][j] = m[k + 1]
        BY <3>5, <4>2, <4>4
      <4>5. QED BY <3>2, <4>3, <4>4
    <3>7. QED BY <2>1, <3>3, <3>4, <3>6
  <2>8. QED BY <2>6, <2>7
<1> HIDE DEF T
<1>5. Len(m) \in T
  BY <1>2, <1>3, <1>4, BoundedInduction
<1>6. Increasing(part[Len(m)]) /\ From(Len(m)) /\ All(Len(m))
  BY <1>5 DEF T
<1>7. Retain(m, S) = part[Len(m)] /\ part[Len(m)] \in Seq(Nat)
  BY <1>1, <1>2 DEF RetainPartsOf
<1>8. Range(part[Len(m)]) = Range(m) \cap S
  <2>1. \A e : e \in Range(m) <=> \E i \in 1..Len(m) : m[i] = e
    BY RangeIs
  <2> DEFINE r == part[Len(m)]
  <2>2. r \in Seq(Nat)
    BY <1>7
  <2> HIDE DEF r
  <2>3. \A e : e \in Range(r) <=> \E i \in 1..Len(r) : r[i] = e
    BY <2>2, RangeIs
  <2>4. /\ \A i \in 1..Len(r) : r[i] \in S /\ \E j \in 1..Len(m) : m[j] = r[i]
        /\ \A j \in 1..Len(m) : m[j] \in S => \E i \in 1..Len(r) : r[i] = m[j]
    BY <1>6 DEF r
  <2>5. Range(r) = Range(m) \cap S
    <3>1. ASSUME NEW e \in Range(r) PROVE e \in Range(m) \cap S
      <4>1. PICK i \in 1..Len(r) : r[i] = e
        BY <2>3
      <4>2. QED BY <2>1, <2>4, <4>1
    <3>2. ASSUME NEW e \in Range(m) \cap S PROVE e \in Range(r)
      <4>1. PICK j \in 1..Len(m) : m[j] = e
        BY <2>1
      <4>2. QED BY <2>3, <2>4, <4>1
    <3>3. QED BY <3>1, <3>2
  <2>6. QED BY <2>5 DEF r
<1>9. QED BY <1>6, <1>7, <1>8

\* The matches that a full search finds.
LEMMA SortedSound ==
  ASSUME NEW S, S \subseteq Cards
  PROVE  /\ Sorted(S) \in Seq(Cards) /\ Sorted(S) \in Seq(Nat)
         /\ Increasing(Sorted(S)) /\ Range(Sorted(S)) = S
<1>1. /\ AllCards \in Seq(Nat) /\ Len(AllCards) = MaxItems
      /\ \A k \in 1..MaxItems : AllCards[k] = k - 1
  BY MaxItemsAssumption DEF AllCards
<1>2. Increasing(AllCards)
  BY <1>1, MaxItemsAssumption DEF Increasing
<1>3. \A e \in Cards : \E j \in 1..Len(AllCards) : AllCards[j] = e
  <2>1. \A e \in Cards : e + 1 \in 1..MaxItems /\ AllCards[e + 1] = e
    BY <1>1, MaxItemsAssumption DEF Cards
  <2>2. QED BY <1>1, <2>1
<1> DEFINE r == Sorted(S)
<1>4. r \in Seq(Nat) /\ Increasing(r) /\ Range(r) = Range(AllCards) \cap S
  BY <1>1, <1>2, RetainSound DEF Sorted
<1> HIDE DEF r
<1>5. \A e \in S : e \in Range(AllCards)
  BY <1>1, <1>3, RangeIs
<1>6. Range(r) = S
  BY <1>4, <1>5
<1>7. \A i \in 1..Len(r) : r[i] \in Cards
  BY <1>4, <1>6, RangeIs
<1>8. r \in Seq(Cards)
  BY <1>4, <1>7
<1>9. QED BY <1>4, <1>6, <1>8 DEF r

\* Where a card is, or would be, in sorted matches.
LEMMA PartitionPointIs ==
  ASSUME NEW m \in Seq(Nat), Increasing(m), NEW i \in Nat
  PROVE  /\ PartitionPoint(m, i) \in 0..Len(m)
         /\ \A k \in 1..Len(m) : m[k] < i <=> k <= PartitionPoint(m, i)
<1> DEFINE S == {k \in 1..Len(m) : m[k] < i}
<1>1. Len(m) \in Nat /\ DOMAIN m = 1..Len(m) /\ \A k \in 1..Len(m) : m[k] \in Nat
  OBVIOUS
<1>2. PartitionPoint(m, i) = Cardinality(S)
  BY <1>1 DEF PartitionPoint
<1>3. CASE S = {}
  <2>1. Cardinality(S) = 0
    BY <1>3, FS_EmptySet
  <2>2. \A k \in 1..Len(m) : ~ (m[k] < i) /\ ~ (k <= 0)
    BY <1>3
  <2> HIDE DEF S
  <2>3. PartitionPoint(m, i) = 0
    BY <1>2, <2>1
  <2>4. QED BY <1>1, <2>2, <2>3
<1>4. CASE S # {}
  <2> DEFINE p == Max(S)
  <2>1. p \in S /\ \A y \in S : y <= p
    <3>1. S \subseteq 1..Len(m)
      OBVIOUS
    <3> HIDE DEF S
    <3>2. QED BY <1>1, <1>4, <3>1, MaxElement
  <2> HIDE DEF p
  <2>2. p \in 1..Len(m) /\ m[p] < i
    BY <2>1
  <2>3. ASSUME NEW k \in 1..Len(m), k <= p PROVE m[k] < i
    <3>1. CASE k = p
      BY <2>2, <3>1
    <3>2. CASE k < p
      <4>1. m[k] < m[p]
        BY <2>2, <3>2 DEF Increasing
      <4>2. QED BY <1>1, <2>2, <4>1
    <3>3. QED BY <1>1, <2>2, <2>3, <3>1, <3>2
  <2>4. \A k \in 1..Len(m) : m[k] < i <=> k <= p
    BY <2>1, <2>3
  <2>5. S = 1..p
    BY <1>1, <2>2, <2>4
  <2>6. Cardinality(1..p) = p
    <3>1. 1 \in Int /\ p \in Int /\ ~ (1 > p)
      BY <2>2
    <3>2. Cardinality(1..p) = p - 1 + 1
      BY <3>1, FS_Interval
    <3>3. QED BY <3>1, <3>2
  <2>7. PartitionPoint(m, i) = p
    BY <1>2, <2>5, <2>6
  <2>8. QED BY <1>1, <2>2, <2>4, <2>7
<1>5. QED BY <1>3, <1>4

\* A sequence that is cut in two.
LEMMA CutIs ==
  ASSUME NEW m \in Seq(Nat), NEW p \in 0..Len(m), NEW q \in p..Len(m)
  PROVE  /\ SubSeq(m, 1, p) \in Seq(Nat) /\ Len(SubSeq(m, 1, p)) = p
         /\ \A k \in 1..p : SubSeq(m, 1, p)[k] = m[k]
         /\ SubSeq(m, q + 1, Len(m)) \in Seq(Nat)
         /\ Len(SubSeq(m, q + 1, Len(m))) = Len(m) - q
         /\ \A k \in 1..(Len(m) - q) : SubSeq(m, q + 1, Len(m))[k] = m[k + q]
<1>1. Len(m) \in Nat /\ p \in Nat /\ q \in Nat /\ p <= q /\ q <= Len(m)
  OBVIOUS
<1>2. \A k \in 1..Len(m) : m[k] \in Nat
  OBVIOUS
<1>3. /\ SubSeq(m, 1, p) \in Seq(Nat) /\ Len(SubSeq(m, 1, p)) = p
      /\ \A k \in 1..p : SubSeq(m, 1, p)[k] = m[k]
  <2>1. 1 \in Int /\ p \in Int /\ \A k \in 1..p : m[k] \in Nat
    BY <1>1, <1>2
  <2>2. /\ SubSeq(m, 1, p) \in Seq(Nat)
        /\ Len(SubSeq(m, 1, p)) = IF 1 <= p THEN p - 1 + 1 ELSE 0
        /\ \A k \in 1..p - 1 + 1 : SubSeq(m, 1, p)[k] = m[1 + k - 1]
    BY <2>1, SubSeqProperties
  <2>3. p - 1 + 1 = p /\ \A k \in 1..p : 1 + k - 1 = k
    BY <1>1
  <2>4. QED BY <1>1, <2>2, <2>3
<1>4. /\ SubSeq(m, q + 1, Len(m)) \in Seq(Nat)
      /\ Len(SubSeq(m, q + 1, Len(m))) = Len(m) - q
      /\ \A k \in 1..(Len(m) - q) : SubSeq(m, q + 1, Len(m))[k] = m[k + q]
  <2>1. q + 1 \in Int /\ Len(m) \in Int /\ \A k \in (q + 1)..Len(m) : m[k] \in Nat
    BY <1>1, <1>2
  <2>2. /\ SubSeq(m, q + 1, Len(m)) \in Seq(Nat)
        /\ Len(SubSeq(m, q + 1, Len(m)))
             = IF q + 1 <= Len(m) THEN Len(m) - (q + 1) + 1 ELSE 0
        /\ \A k \in 1..Len(m) - (q + 1) + 1 :
             SubSeq(m, q + 1, Len(m))[k] = m[q + 1 + k - 1]
    BY <2>1, SubSeqProperties
  <2>3. /\ Len(m) - (q + 1) + 1 = Len(m) - q
        /\ \A k \in 1..(Len(m) - q) : q + 1 + k - 1 = k + q
    BY <1>1
  <2>4. \A k \in 1..(Len(m) - q) : SubSeq(m, q + 1, Len(m))[k] = m[k + q]
    <3>1. TAKE k \in 1..(Len(m) - q)
    <3>2. SubSeq(m, q + 1, Len(m))[k] = m[q + 1 + k - 1]
      BY <2>2, <2>3
    <3>3. QED BY <2>3, <3>2
  <2>5. (IF q + 1 <= Len(m) THEN Len(m) - (q + 1) + 1 ELSE 0) = Len(m) - q
    BY <1>1
  <2>6. QED BY <2>2, <2>4, <2>5
<1>5. QED BY <1>3, <1>4

\* InsertAt, position by position.
LEMMA InsertAtIs ==
  ASSUME NEW m \in Seq(Nat), NEW p \in 0..Len(m), NEW i \in Nat
  PROVE  /\ InsertAt(m, p + 1, i) \in Seq(Nat) /\ Len(InsertAt(m, p + 1, i)) = Len(m) + 1
         /\ \A k \in 1..p : InsertAt(m, p + 1, i)[k] = m[k]
         /\ InsertAt(m, p + 1, i)[p + 1] = i
         /\ \A k \in (p + 2)..(Len(m) + 1) : InsertAt(m, p + 1, i)[k] = m[k - 1]
<1> DEFINE a == SubSeq(m, 1, p)
           b == SubSeq(m, p + 1, Len(m))
           c == a \o <<i>>
           r == InsertAt(m, p + 1, i)
<1>1. Len(m) \in Nat /\ p \in Nat /\ p <= Len(m) /\ (p + 1) - 1 = p /\ p \in p..Len(m)
  OBVIOUS
<1>2. r = c \o b
  BY <1>1 DEF InsertAt
<1>3. /\ a \in Seq(Nat) /\ Len(a) = p /\ \A k \in 1..p : a[k] = m[k]
      /\ b \in Seq(Nat) /\ Len(b) = Len(m) - p
      /\ \A k \in 1..(Len(m) - p) : b[k] = m[k + p]
  BY <1>1, CutIs
<1>4. <<i>> \in Seq(Nat) /\ Len(<<i>>) = 1 /\ <<i>>[1] = i
  OBVIOUS
<1> HIDE DEF a, b, r
<1>5. /\ c \in Seq(Nat) /\ Len(c) = Len(a) + 1
      /\ \A k \in 1..(Len(a) + 1) : c[k] = IF k <= Len(a) THEN a[k] ELSE <<i>>[k - Len(a)]
  BY <1>3, <1>4, ConcatProperties
<1>6. Len(c) = p + 1 /\ c[p + 1] = i /\ \A k \in 1..p : c[k] = m[k]
  <2>1. p + 1 \in 1..(Len(a) + 1) /\ ~ (p + 1 <= Len(a)) /\ (p + 1) - Len(a) = 1
    <3>1. Len(a) = p
      BY <1>3
    <3>2. QED BY <1>1, <3>1
  <2>2. \A k \in 1..p : k \in 1..(Len(a) + 1) /\ k <= Len(a)
    BY <1>1, <1>3
  <2>3. QED BY <1>3, <1>4, <1>5, <2>1, <2>2
<1> HIDE DEF c
<1>7. /\ r \in Seq(Nat) /\ Len(r) = Len(c) + Len(b)
      /\ \A k \in 1..(Len(c) + Len(b)) : r[k] = IF k <= Len(c) THEN c[k] ELSE b[k - Len(c)]
  <2>1. c \in Seq(Nat) /\ b \in Seq(Nat)
    BY <1>3, <1>5
  <2>2. QED BY <1>2, <2>1, ConcatProperties
<1>8. Len(r) = Len(m) + 1
  BY <1>1, <1>3, <1>6, <1>7
<1>9. ASSUME NEW k \in 1..(p + 1) PROVE r[k] = c[k]
  <2>1. k \in 1..(Len(c) + Len(b)) /\ k <= Len(c)
    BY <1>1, <1>3, <1>6
  <2>2. QED BY <1>7, <2>1
<1>10. ASSUME NEW k \in (p + 2)..(Len(m) + 1) PROVE r[k] = m[k - 1]
  <2>1. /\ k \in 1..(Len(c) + Len(b)) /\ ~ (k <= Len(c)) /\ k - Len(c) \in 1..(Len(m) - p)
        /\ (k - Len(c)) + p = k - 1
    BY <1>1, <1>3, <1>6
  <2>2. QED BY <1>3, <1>7, <2>1
<1>11. (\A k \in 1..p : k \in 1..(p + 1)) /\ p + 1 \in 1..(p + 1)
  BY <1>1
<1>12. QED BY <1>6, <1>7, <1>8, <1>9, <1>10, <1>11 DEF r

\* RemoveAt, position by position.
LEMMA RemoveAtIs ==
  ASSUME NEW m \in Seq(Nat), NEW p \in 0..(Len(m) - 1)
  PROVE  /\ RemoveAt(m, p + 1) \in Seq(Nat) /\ Len(RemoveAt(m, p + 1)) = Len(m) - 1
         /\ \A k \in 1..p : RemoveAt(m, p + 1)[k] = m[k]
         /\ \A k \in (p + 1)..(Len(m) - 1) : RemoveAt(m, p + 1)[k] = m[k + 1]
<1> DEFINE a == SubSeq(m, 1, p)
           b == SubSeq(m, (p + 1) + 1, Len(m))
           r == RemoveAt(m, p + 1)
<1>1. /\ Len(m) \in Nat /\ p \in Nat /\ p < Len(m) /\ (p + 1) - 1 = p
      /\ p \in 0..Len(m) /\ p + 1 \in p..Len(m)
  OBVIOUS
<1>2. r = a \o b
  BY <1>1 DEF RemoveAt
<1>3. /\ a \in Seq(Nat) /\ Len(a) = p /\ \A k \in 1..p : a[k] = m[k]
      /\ b \in Seq(Nat) /\ Len(b) = Len(m) - (p + 1)
      /\ \A k \in 1..(Len(m) - (p + 1)) : b[k] = m[k + (p + 1)]
  BY <1>1, CutIs
<1> HIDE DEF a, b, r
<1>4. /\ r \in Seq(Nat) /\ Len(r) = Len(a) + Len(b)
      /\ \A k \in 1..(Len(a) + Len(b)) : r[k] = IF k <= Len(a) THEN a[k] ELSE b[k - Len(a)]
  BY <1>2, <1>3, ConcatProperties
<1>5. Len(r) = Len(m) - 1
  BY <1>1, <1>3, <1>4
<1>6. ASSUME NEW k \in 1..p PROVE r[k] = m[k]
  <2>1. k \in 1..(Len(a) + Len(b)) /\ k <= Len(a)
    BY <1>1, <1>3
  <2>2. QED BY <1>3, <1>4, <2>1
<1>7. ASSUME NEW k \in (p + 1)..(Len(m) - 1) PROVE r[k] = m[k + 1]
  <2>1. /\ k \in 1..(Len(a) + Len(b)) /\ ~ (k <= Len(a))
        /\ k - Len(a) \in 1..(Len(m) - (p + 1)) /\ (k - Len(a)) + (p + 1) = k + 1
    BY <1>1, <1>3
  <2>2. QED BY <1>3, <1>4, <2>1
<1>8. QED BY <1>4, <1>5, <1>6, <1>7 DEF r

\* A card put into its place.
LEMMA InsertSound ==
  ASSUME NEW m \in Seq(Nat), Increasing(m), NEW i \in Nat, i \notin Range(m)
  PROVE  /\ InsertAt(m, PartitionPoint(m, i) + 1, i) \in Seq(Nat)
         /\ Increasing(InsertAt(m, PartitionPoint(m, i) + 1, i))
         /\ Range(InsertAt(m, PartitionPoint(m, i) + 1, i)) = Range(m) \cup {i}
<1> DEFINE p == PartitionPoint(m, i)
           r == InsertAt(m, p + 1, i)
<1>1. p \in 0..Len(m) /\ \A k \in 1..Len(m) : m[k] < i <=> k <= p
  BY PartitionPointIs
<1>2. Len(m) \in Nat /\ \A k \in 1..Len(m) : m[k] \in Nat /\ m[k] # i
  BY RangeIs
<1> HIDE DEF p
<1>9. r \in Seq(Nat) /\ Len(r) = Len(m) + 1
  BY <1>1, InsertAtIs
<1>10. /\ \A k \in 1..p : r[k] = m[k]
       /\ r[p + 1] = i
       /\ \A k \in (p + 2)..(Len(m) + 1) : r[k] = m[k - 1]
  BY <1>1, InsertAtIs
<1> HIDE DEF r
<1>11. \A k \in 1..Len(r) :
         \/ k \in 1..p /\ k \in 1..Len(m) /\ r[k] = m[k] /\ r[k] < i
         \/ k = p + 1 /\ r[k] = i
         \/ /\ k > p + 1 /\ k - 1 \in 1..Len(m) /\ k - 1 > p
            /\ r[k] = m[k - 1] /\ r[k] > i
  <2>1. SUFFICES ASSUME NEW k \in 1..Len(r)
                 PROVE \/ k \in 1..p /\ k \in 1..Len(m) /\ r[k] = m[k] /\ r[k] < i
                       \/ k = p + 1 /\ r[k] = i
                       \/ /\ k > p + 1 /\ k - 1 \in 1..Len(m) /\ k - 1 > p
                          /\ r[k] = m[k - 1] /\ r[k] > i
    OBVIOUS
  <2>2. CASE k <= p
    BY <1>1, <1>2, <1>9, <1>10, <2>2
  <2>3. CASE k = p + 1
    BY <1>10, <2>3
  <2>4. CASE k > p + 1
    <3>1. k \in (p + 2)..(Len(m) + 1) /\ k - 1 \in 1..Len(m) /\ k - 1 > p
      BY <1>1, <1>2, <1>9, <2>4
    <3>2. r[k] = m[k - 1] /\ ~ (m[k - 1] < i) /\ m[k - 1] # i /\ m[k - 1] \in Nat
      BY <1>1, <1>2, <1>10, <3>1
    <3>3. QED BY <2>4, <3>1, <3>2
  <2>5. QED BY <1>1, <1>9, <2>2, <2>3, <2>4
<1>12. Increasing(r)
  <2>1. SUFFICES ASSUME NEW k \in 1..Len(r), NEW l \in 1..Len(r), k < l PROVE r[k] < r[l]
    BY DEF Increasing
  <2>2. r[k] \in Nat /\ r[l] \in Nat /\ k \in Nat /\ l \in Nat /\ p \in Nat
    BY <1>1, <1>9
  <2>3. CASE k \in 1..p
    <3>1. k \in 1..Len(m) /\ r[k] = m[k] /\ r[k] < i
      BY <1>11, <2>2, <2>3
    <3>2. CASE l \in 1..p
      <4>1. l \in 1..Len(m) /\ r[l] = m[l]
        BY <1>11, <2>2, <3>2
      <4>2. QED BY <2>1, <3>1, <4>1 DEF Increasing
    <3>3. CASE l = p + 1 \/ l > p + 1
      <4>1. r[l] = i \/ r[l] > i
        BY <1>11, <2>2, <3>3
      <4>2. QED BY <2>2, <3>1, <4>1
    <3>4. QED BY <2>2, <3>2, <3>3
  <2>4. CASE k = p + 1
    BY <1>11, <2>1, <2>2, <2>4
  <2>5. CASE k > p + 1
    <3>1. /\ k - 1 \in 1..Len(m) /\ l - 1 \in 1..Len(m) /\ k - 1 < l - 1
          /\ r[k] = m[k - 1] /\ r[l] = m[l - 1]
      BY <1>11, <2>1, <2>2, <2>5
    <3>2. QED BY <3>1 DEF Increasing
  <2>6. QED BY <1>11, <2>3, <2>4, <2>5
<1>13. Range(r) = Range(m) \cup {i}
  <2>1. /\ \A e : e \in Range(r) <=> \E k \in 1..Len(r) : r[k] = e
        /\ \A e : e \in Range(m) <=> \E k \in 1..Len(m) : m[k] = e
    BY <1>9, RangeIs
  <2>2. \A k \in 1..Len(r) : r[k] \in Range(m) \cup {i}
    BY <1>11, <2>1
  <2>3. ASSUME NEW k \in 1..Len(m) PROVE m[k] \in Range(r)
    <3>1. CASE k <= p
      <4>1. k \in 1..p /\ k \in 1..Len(r)
        BY <1>1, <1>2, <1>9, <3>1
      <4>2. QED BY <1>10, <2>1, <4>1
    <3>2. CASE k > p
      <4>1. k + 1 \in (p + 2)..(Len(m) + 1) /\ k + 1 \in 1..Len(r) /\ (k + 1) - 1 = k
        BY <1>1, <1>2, <1>9, <3>2
      <4>2. r[k + 1] = m[k]
        BY <1>10, <4>1
      <4>3. QED BY <2>1, <4>1, <4>2
    <3>3. QED BY <1>1, <1>2, <3>1, <3>2
  <2>4. i \in Range(r)
    <3>1. p + 1 \in 1..Len(r)
      BY <1>1, <1>2, <1>9
    <3>2. QED BY <1>10, <2>1, <3>1
  <2>5. QED BY <2>1, <2>2, <2>3, <2>4
<1>14. QED BY <1>9, <1>12, <1>13 DEF r, p

\* A card taken out of its place.
LEMMA RemoveSound ==
  ASSUME NEW m \in Seq(Nat), Increasing(m), NEW i \in Range(m)
  PROVE  /\ RemoveAt(m, PartitionPoint(m, i) + 1) \in Seq(Nat)
         /\ Increasing(RemoveAt(m, PartitionPoint(m, i) + 1))
         /\ Range(RemoveAt(m, PartitionPoint(m, i) + 1)) = Range(m) \ {i}
<1> DEFINE p == PartitionPoint(m, i)
           r == RemoveAt(m, p + 1)
<1>1. /\ Len(m) \in Nat /\ \A k \in 1..Len(m) : m[k] \in Nat
      /\ i \in Nat /\ \E k \in 1..Len(m) : m[k] = i
  BY RangeIs
<1>2. p \in 0..Len(m) /\ \A k \in 1..Len(m) : m[k] < i <=> k <= p
  BY <1>1, PartitionPointIs
<1> HIDE DEF p
<1>3. p + 1 \in 1..Len(m) /\ m[p + 1] = i
  <2>1. PICK k \in 1..Len(m) : m[k] = i
    BY <1>1
  <2>2. ~ (k <= p)
    BY <1>1, <1>2, <2>1
  <2>3. p + 1 \in 1..Len(m) /\ p + 1 <= k
    BY <1>1, <1>2, <2>2
  <2>4. ~ (m[p + 1] < i) /\ m[p + 1] \in Nat
    BY <1>1, <1>2, <2>3
  <2>5. p + 1 < k => m[p + 1] < m[k]
    BY <2>3 DEF Increasing
  <2>6. QED BY <1>1, <2>1, <2>3, <2>4, <2>5
<1>4. p \in 0..(Len(m) - 1)
  BY <1>1, <1>2, <1>3
<1>5. /\ r \in Seq(Nat) /\ Len(r) = Len(m) - 1
      /\ \A k \in 1..p : r[k] = m[k]
      /\ \A k \in (p + 1)..(Len(m) - 1) : r[k] = m[k + 1]
  BY <1>4, RemoveAtIs
<1> HIDE DEF r
<1>6. \A k \in 1..Len(r) :
        \/ k <= p /\ k \in 1..Len(m) /\ r[k] = m[k]
        \/ k > p /\ k + 1 \in 1..Len(m) /\ r[k] = m[k + 1]
  <2>1. SUFFICES ASSUME NEW k \in 1..Len(r)
                 PROVE  \/ k <= p /\ k \in 1..Len(m) /\ r[k] = m[k]
                        \/ k > p /\ k + 1 \in 1..Len(m) /\ r[k] = m[k + 1]
    OBVIOUS
  <2>2. CASE k <= p
    <3>1. k \in 1..p /\ k \in 1..Len(m)
      BY <1>1, <1>4, <1>5, <2>2
    <3>2. QED BY <1>5, <2>2, <3>1
  <2>3. CASE k > p
    <3>1. k \in (p + 1)..(Len(m) - 1) /\ k + 1 \in 1..Len(m)
      BY <1>1, <1>4, <1>5, <2>3
    <3>2. QED BY <1>5, <2>3, <3>1
  <2>4. QED BY <1>1, <1>4, <1>5, <2>2, <2>3
<1>7. Increasing(r)
  <2>1. SUFFICES ASSUME NEW k \in 1..Len(r), NEW l \in 1..Len(r), k < l PROVE r[k] < r[l]
    BY DEF Increasing
  <2>2. k \in Nat /\ l \in Nat /\ p \in Nat
    BY <1>4, <1>5
  <2>3. PICK x \in 1..Len(m) : r[k] = m[x] /\ (IF k <= p THEN x = k ELSE x = k + 1)
    BY <1>6, <2>2
  <2>4. PICK y \in 1..Len(m) : r[l] = m[y] /\ (IF l <= p THEN y = l ELSE y = l + 1)
    BY <1>6, <2>2
  <2>5. x < y
    BY <2>1, <2>2, <2>3, <2>4
  <2>6. QED BY <2>3, <2>4, <2>5 DEF Increasing
<1>8. Range(r) = Range(m) \ {i}
  <2>1. /\ \A e : e \in Range(r) <=> \E k \in 1..Len(r) : r[k] = e
        /\ \A e : e \in Range(m) <=> \E k \in 1..Len(m) : m[k] = e
    BY <1>5, RangeIs
  <2>2. ASSUME NEW k \in 1..Len(m), k # p + 1 PROVE m[k] # i
    <3>1. k < p + 1 => m[k] < i
      BY <1>3, <2>2 DEF Increasing
    <3>2. k > p + 1 => i < m[k]
      BY <1>3, <2>2 DEF Increasing
    <3>3. QED BY <1>1, <1>2, <2>2, <3>1, <3>2
  <2>3. ASSUME NEW k \in 1..Len(r) PROVE r[k] \in Range(m) /\ r[k] # i
    <3>1. k \in Nat /\ p \in Nat
      BY <1>4, <1>5
    <3>2. PICK x \in 1..Len(m) : r[k] = m[x] /\ (IF k <= p THEN x = k ELSE x = k + 1)
      BY <1>6, <3>1
    <3>3. x # p + 1
      BY <3>1, <3>2
    <3>4. QED BY <2>1, <2>2, <3>2, <3>3
  <2>4. ASSUME NEW k \in 1..Len(m), m[k] # i PROVE m[k] \in Range(r)
    <3>1. k # p + 1
      BY <1>3, <2>4
    <3>2. CASE k <= p
      <4>1. k \in 1..p /\ k \in 1..Len(r)
        BY <1>1, <1>4, <1>5, <3>2
      <4>2. QED BY <1>5, <2>1, <4>1
    <3>3. CASE k > p
      <4>1. k - 1 \in (p + 1)..(Len(m) - 1) /\ k - 1 \in 1..Len(r) /\ (k - 1) + 1 = k
        BY <1>1, <1>4, <1>5, <3>1, <3>3
      <4>2. r[k - 1] = m[k]
        BY <1>5, <4>1
      <4>3. QED BY <2>1, <4>1, <4>2
    <3>4. QED BY <1>1, <1>4, <3>2, <3>3
  <2>5. QED BY <2>1, <2>3, <2>4
<1>9. QED BY <1>5, <1>7, <1>8 DEF r, p

\* A card is looked at again.
LEMMA ReconcileSound ==
  ASSUME NEW m \in Seq(Nat), Increasing(m), NEW i \in Nat, NEW found
  PROVE  /\ Reconciled(found, m, i) \in Seq(Nat) /\ Increasing(Reconciled(found, m, i))
         /\ Range(Reconciled(found, m, i)) = (Range(m) \ {i}) \cup ({i} \cap found)
<1>1. CASE i \notin Range(m) /\ i \in found
  <2>1. Reconciled(found, m, i) = InsertAt(m, PartitionPoint(m, i) + 1, i)
    BY <1>1 DEF Reconciled, reconcile_sorted_search_match
  <2>2. QED BY <1>1, <2>1, InsertSound
<1>2. CASE i \in Range(m) /\ i \notin found
  <2>1. Reconciled(found, m, i) = RemoveAt(m, PartitionPoint(m, i) + 1)
    BY <1>2 DEF Reconciled, reconcile_sorted_search_match
  <2>2. QED BY <1>2, <2>1, RemoveSound
<1>3. CASE i \in Range(m) <=> i \in found
  <2>1. Reconciled(found, m, i) = m
    BY <1>3 DEF Reconciled, reconcile_sorted_search_match
  <2>2. QED BY <1>3, <2>1
<1>4. QED BY <1>1, <1>2, <1>3

\* Matches in order.
SortedMatches == {m \in Seq(Nat) : Increasing(m)}

\* The partial results of ReconcileAll.
ReconcilePartsOf(part, base, c, m, found) ==
  /\ part[0] = base
  /\ \A k \in 0..(Len(c) - 1) : part[k + 1] = Reconciled(found, part[k], c[k + 1])
  /\ m = part[Len(c)]

\* There are such results, all of them sorted.
LEMMA ReconcileParts ==
  ASSUME NEW base \in SortedMatches, NEW changed, changed \subseteq Cards, NEW found
  PROVE  \E part \in [0..Len(Sorted(changed)) -> SortedMatches] :
           ReconcilePartsOf(part, base, Sorted(changed),
                            ReconcileAll(base, changed, found), found)
<1> DEFINE c == Sorted(changed)
           A == SortedMatches
           MapFolds(f) == f = [s \in SUBSET (DOMAIN c) |->
                        IF s = {} THEN base ELSE Reconciled(found, f[s \ {Max(s)}], c[Max(s)])]
           G == [z \in A \X Nat |-> Reconciled(found, z[1], z[2])]
<1>1. c \in Seq(Nat)
  BY SortedSound
<1> DEFINE g == CHOOSE ff : MapFolds(ff)
           all == ReconcileAll(base, changed, found)
<1>2. all = g[DOMAIN c]
  BY DEF ReconcileAll, FoldLeft, MapThenFoldSet
<1> HIDE DEF c, g, all
<1>3. DOMAIN c = 1..Len(c) /\ Len(c) \in Nat
  BY <1>1
<1>4. base \in A /\ \A acc \in A, i \in Nat : Reconciled(found, acc, i) \in A
  BY ReconcileSound DEF SortedMatches
<1> HIDE DEF A
<1>5. G \in [A \X Nat -> A]
  BY <1>4
<1>6. PICK f \in [SUBSET (DOMAIN c) -> A] : FoldsWith(f, base, c, G)
  <2> HIDE DEF G
  <2> QED BY <1>1, <1>4, <1>5, FoldExists
<1>7. \A s \in SUBSET (DOMAIN c) : s # {} => c[Max(s)] \in Nat
  BY MaxElement, <1>1, <1>3
<1>8. \A s \in SUBSET (DOMAIN c) : s # {} => <<f[s \ {Max(s)}], c[Max(s)]>> \in A \X Nat
  BY <1>7
<1>9. \A s \in SUBSET (DOMAIN c) : s # {}
        => f[s] = Reconciled(found, f[s \ {Max(s)}], c[Max(s)])
  BY <1>6, <1>8 DEF FoldsWith
<1>10. MapFolds(f)
  BY <1>6, <1>9 DEF FoldsWith
<1>11. MapFolds(CHOOSE ff : MapFolds(ff))
  <2> HIDE DEF MapFolds
  <2> QED BY <1>10
<1>12. g = [s \in SUBSET (DOMAIN c) |->
              IF s = {} THEN base ELSE Reconciled(found, g[s \ {Max(s)}], c[Max(s)])]
  BY <1>11 DEF g
<1> HIDE DEF MapFolds
<1>13. FoldsIn(g, A, base, c, G)
  BY <1>7, <1>12 DEF FoldsIn
<1>14. PICK part \in [0..Len(c) -> A] : Partial(part, base, c, G) /\ g[DOMAIN c] = part[Len(c)]
  <2> HIDE DEF G
  <2>1. base \in A
    BY <1>4
  <2>2. HasParts(g, A, base, c, G)
    BY <1>1, <1>5, <1>13, <2>1, FoldParts
  <2>3. QED BY <2>2 DEF HasParts
<1>15. ASSUME NEW k \in 0..(Len(c) - 1) PROVE part[k + 1] = Reconciled(found, part[k], c[k + 1])
  <2>1. k \in 0..Len(c) /\ c[k + 1] \in Nat
    BY <1>1, <1>3
  <2>2. <<part[k], c[k + 1]>> \in A \X Nat
    BY <2>1
  <2>3. QED BY <1>14, <2>2 DEF Partial
<1>16. ReconcilePartsOf(part, base, c, all, found)
  BY <1>2, <1>14, <1>15 DEF Partial, ReconcilePartsOf
<1>17. QED BY <1>16 DEF A, c, all

\* The changed cards are all looked at again, and nothing else changes.
LEMMA ReconcileAllSound ==
  ASSUME NEW base \in SortedMatches, NEW changed, changed \subseteq Cards, NEW found
  PROVE  /\ ReconcileAll(base, changed, found) \in SortedMatches
         /\ Range(ReconcileAll(base, changed, found))
              = (Range(base) \ changed) \cup (changed \cap found)
<1> DEFINE c == Sorted(changed)
           all == ReconcileAll(base, changed, found)
<1>1. c \in Seq(Nat) /\ Range(c) = changed
  BY SortedSound
<1>2. PICK part \in [0..Len(c) -> SortedMatches] : ReconcilePartsOf(part, base, c, all, found)
  BY ReconcileParts
<1> HIDE DEF c, all
<1>3. Len(c) \in Nat /\ \A e : e \in Range(c) <=> \E j \in 1..Len(c) : c[j] = e
  BY <1>1, RangeIs
<1> DEFINE Seen(k) == {c[j] : j \in 1..k}
           T == {k \in 0..Len(c) :
                   Range(part[k]) = (Range(base) \ Seen(k)) \cup (Seen(k) \cap found)}
<1>4. 0 \in T
  <2>1. Seen(0) = {} /\ part[0] = base /\ 0 \in 0..Len(c)
    BY <1>2, <1>3 DEF ReconcilePartsOf
  <2>2. QED BY <2>1
<1>5. ASSUME NEW k \in 0..(Len(c) - 1), k \in T PROVE k + 1 \in T
  <2>1. k \in 0..Len(c) /\ k + 1 \in 0..Len(c) /\ k \in Nat /\ c[k + 1] \in Nat
    BY <1>1, <1>3
  <2>2. Seen(k + 1) = Seen(k) \cup {c[k + 1]}
    <3>1. 1..(k + 1) = 1..k \cup {k + 1}
      BY <2>1
    <3>2. QED BY <3>1
  <2>3. part[k + 1] = Reconciled(found, part[k], c[k + 1])
    BY <1>2 DEF ReconcilePartsOf
  <2>4. part[k] \in Seq(Nat) /\ Increasing(part[k])
    BY <1>2, <2>1 DEF SortedMatches
  <2>5. Range(part[k + 1])
          = (Range(part[k]) \ {c[k + 1]}) \cup ({c[k + 1]} \cap found)
    BY <2>1, <2>3, <2>4, ReconcileSound
  <2>6. Range(part[k]) = (Range(base) \ Seen(k)) \cup (Seen(k) \cap found)
    BY <1>5
  <2> HIDE DEF Seen
  <2>7. Range(part[k + 1]) = (Range(base) \ Seen(k + 1)) \cup (Seen(k + 1) \cap found)
    BY <2>2, <2>5, <2>6
  <2>8. QED BY <2>1, <2>7
<1> HIDE DEF T
<1>6. Len(c) \in T
  BY <1>3, <1>4, <1>5, BoundedInduction
<1>7. Seen(Len(c)) = changed
  BY <1>1, <1>3
<1> HIDE DEF Seen
<1>8. Range(part[Len(c)]) = (Range(base) \ changed) \cup (changed \cap found)
  BY <1>6, <1>7 DEF T
<1>9. all = part[Len(c)] /\ all \in SortedMatches
  BY <1>2, <1>3 DEF ReconcilePartsOf
<1>10. QED BY <1>8, <1>9 DEF all

\* A search whose matches are in order, and whose active match is one of them.
SearchOK(s) ==
  /\ s \in [query : BOOLEAN, matches : Seq(Cards), active : Nat, in_buffer : BOOLEAN]
  /\ s.matches \in SortedMatches /\ s.active <= Last0(Len(s.matches))

\* The cards are numbers.
LEMMA CardsAre ==
  /\ Cards \subseteq Nat
  /\ \A n \in 0..MaxItems : 0..(n - 1) \subseteq Cards
  BY MaxItemsAssumption DEF Cards

\* Sequences of cards.
LEMMA CardMatches ==
  ASSUME NEW m \in SortedMatches, Range(m) \subseteq Cards
  PROVE  m \in Seq(Cards)
<1>1. m \in Seq(Nat)
  BY DEF SortedMatches
<1>2. \A k \in 1..Len(m) : m[k] \in Cards
  BY <1>1, RangeIs
<1>3. QED BY <1>1, <1>2

\* The empty search.
LEMMA NoSearchOK == SearchOK(NoSearch) /\ NoSearch.query = FALSE /\ NoSearch.matches = <<>>
<1>1. <<>> \in Seq(Cards) /\ <<>> \in Seq(Nat) /\ Len(<<>>) = 0 /\ Last0(0) = 0
  BY DEF Last0
<1>2. <<>> \in SortedMatches
  BY <1>1 DEF SortedMatches, Increasing
<1>3. QED BY <1>1, <1>2 DEF SearchOK, NoSearch

\* rebuild_search_matches finds every card of the query, in order.
LEMMA RebuildSound ==
  ASSUME NEW s, s \in [query : BOOLEAN, matches : Seq(Cards), active : Nat,
                       in_buffer : BOOLEAN],
         NEW found, found \subseteq Cards
  PROVE  LET r == rebuild_search_matches(s, found) IN
         /\ SearchOK(r) /\ r.query = s.query /\ r.in_buffer = s.in_buffer
         /\ s.query => Range(r.matches) = found
<1> DEFINE m == IF s.query THEN Sorted(found) ELSE <<>>
           r == rebuild_search_matches(s, found)
<1>1. /\ Sorted(found) \in Seq(Cards) /\ Sorted(found) \in SortedMatches
      /\ Range(Sorted(found)) = found
  BY SortedSound DEF SortedMatches
<1>2. <<>> \in Seq(Cards) /\ <<>> \in SortedMatches
  BY NoSearchOK DEF SearchOK, NoSearch
<1>3. m \in Seq(Cards) /\ m \in SortedMatches /\ (s.query => Range(m) = found)
  BY <1>1, <1>2
<1>4. r = [s EXCEPT !.matches = m, !.active = AtMost(s.active, Last0(Len(m)))]
  BY DEF rebuild_search_matches
<1> HIDE DEF m, r
<1>5. Last0(Len(m)) \in Nat
  BY <1>3 DEF Last0
<1>6. AtMost(s.active, Last0(Len(m))) \in Nat /\ AtMost(s.active, Last0(Len(m))) <= Last0(Len(m))
  BY <1>5 DEF AtMost
<1>7. QED BY <1>3, <1>4, <1>6 DEF SearchOK, r

\* A search after an update, r, of s: the changed cards are looked at again, and the active
\* match is the card it was on, if that still matches.
Updated(r, s, n, found, changed) ==
  /\ SearchOK(r) /\ r.query = s.query /\ r.in_buffer = s.in_buffer
  /\ Range(r.matches) = ((Range(s.matches) \cap 0..(n - 1)) \ changed)
                          \cup (changed \cap found)
  /\ s.matches # <<>> /\ s.matches[s.active + 1] \in Range(r.matches)
       => r.matches[r.active + 1] = s.matches[s.active + 1]

\* That is what update_search_matches_for_changes returns.
LEMMA UpdateSound ==
  ASSUME NEW s, SearchOK(s), NEW n \in 0..MaxItems, NEW found, NEW old_len \in 0..n,
         NEW dirty, dirty \subseteq 0..(old_len - 1), NEW selected \in Nat
  PROVE  Updated(update_search_matches_for_changes(s, n, found, old_len, dirty, selected),
                 s, n, found, dirty \cup old_len..(n - 1))
<1> DEFINE changed == dirty \cup old_len..(n - 1)
           kept == Retain(s.matches, 0..(n - 1))
           m == ReconcileAll(kept, changed, found)
           same == {k \in DOMAIN m : s.active < Len(s.matches)
                                       /\ m[k] = s.matches[s.active + 1]}
           act == IF same # {} THEN (CHOOSE k \in same : TRUE) - 1
                  ELSE AtMost(PartitionPoint(m, selected), Last0(Len(m)))
           r == update_search_matches_for_changes(s, n, found, old_len, dirty, selected)
<1>1. /\ s \in [query : BOOLEAN, matches : Seq(Cards), active : Nat, in_buffer : BOOLEAN]
      /\ s.matches \in Seq(Nat) /\ Increasing(s.matches)
      /\ s.active <= Last0(Len(s.matches)) /\ n \in Nat /\ old_len \in Nat /\ old_len <= n
  BY DEF SearchOK, SortedMatches
<1>2. /\ {i \in dirty : i < n} \cup AtMost(old_len, n)..(n - 1) = changed
      /\ changed \subseteq Cards
  <2>1. AtMost(old_len, n) = old_len /\ \A i \in dirty : i < n /\ i \in 0..(n - 1)
    BY <1>1 DEF AtMost
  <2>2. changed \subseteq 0..(n - 1)
    BY <1>1, <2>1
  <2>3. QED BY <2>1, <2>2, CardsAre
<1>3. r = [s EXCEPT !.matches = m, !.active = act]
  BY <1>2 DEF update_search_matches_for_changes
<1> HIDE DEF r
<1>4. kept \in SortedMatches /\ Range(kept) = Range(s.matches) \cap 0..(n - 1)
  BY <1>1, RetainSound DEF SortedMatches
<1> HIDE DEF kept
<1>5. m \in SortedMatches /\ Range(m) = (Range(kept) \ changed) \cup (changed \cap found)
  BY <1>2, <1>4, ReconcileAllSound
<1> HIDE DEF m
<1>6. Range(m) \subseteq Cards
  BY <1>2, <1>4, <1>5, CardsAre
<1>7. m \in Seq(Cards) /\ m \in Seq(Nat) /\ Increasing(m)
  BY <1>5, <1>6, CardMatches DEF SortedMatches
<1>8. DOMAIN m = 1..Len(m) /\ Len(m) \in Nat
  BY <1>7
<1>9. CASE same # {}
  <2>1. PICK k \in same : act = k - 1
    BY <1>9
  <2>2. k \in 1..Len(m) /\ m[k] = s.matches[s.active + 1]
    BY <1>8, <2>1
  <2>3. act \in Nat /\ act <= Last0(Len(m)) /\ m[act + 1] = s.matches[s.active + 1]
    <3>1. act + 1 = k /\ act \in Nat /\ act <= Len(m) - 1 /\ Len(m) # 0
      BY <1>8, <2>1, <2>2
    <3>2. QED BY <2>2, <3>1 DEF Last0
  <2> HIDE DEF act, same, changed
  <2>4. QED BY <1>1, <1>3, <1>4, <1>5, <1>7, <2>3 DEF SearchOK, Updated, r, changed
<1>10. CASE same = {}
  <2>1. PartitionPoint(m, selected) \in Nat /\ Last0(Len(m)) \in Nat
    BY <1>7, <1>8, PartitionPointIs DEF Last0
  <2>2. act \in Nat /\ act <= Last0(Len(m))
    BY <1>10, <2>1 DEF AtMost
  <2>3. ~ (s.matches # <<>> /\ s.matches[s.active + 1] \in Range(m))
    <3>1. SUFFICES ASSUME s.matches # <<>>, s.matches[s.active + 1] \in Range(m) PROVE FALSE
      OBVIOUS
    <3>2. s.active < Len(s.matches)
      BY <1>1, <3>1 DEF Last0
    <3>3. PICK k \in 1..Len(m) : m[k] = s.matches[s.active + 1]
      BY <1>7, <3>1, RangeIs
    <3>4. QED BY <1>8, <1>10, <3>2, <3>3
  <2> HIDE DEF act, same, changed
  <2>4. QED BY <1>1, <1>3, <1>4, <1>5, <1>7, <2>2, <2>3 DEF SearchOK, Updated, r, changed
<1>11. QED BY <1>9, <1>10

----------------------------------------------------------------------------
(* The inductive invariant, and what keeps its parts.                      *)

IInv == ViewInv /\ ActiveInRange

\* The search of a state that satisfies it.
LEMMA SearchParts == TypeOK => (ActiveInRange <=> SearchOK(search))
<1> SUFFICES ASSUME TypeOK PROVE ActiveInRange <=> SearchOK(search)
  OBVIOUS
<1>1. /\ search \in [query : BOOLEAN, matches : Seq(Cards), active : Nat,
                     in_buffer : BOOLEAN]
      /\ search.matches \in Seq(Cards) /\ DOMAIN search.matches = 1..Len(search.matches)
  BY DEF TypeOK
<1>2. search.matches \in Seq(Nat)
  <2>1. \A k \in 1..Len(search.matches) : search.matches[k] \in Nat
    <3>1. \A k \in 1..Len(search.matches) : search.matches[k] \in Cards
      BY <1>1
    <3>2. QED BY <3>1, CardsAre
  <2>2. QED BY <1>1, <2>1
<1>3. QED BY <1>1, <1>2 DEF ActiveInRange, SearchOK, SortedMatches, Increasing

\* What the lemmas below use of it.
LEMMA StateFacts ==
  ASSUME IInv
  PROVE  /\ TypeOK /\ EditorOK(editor) /\ EmptyAtEnd /\ DocInSync /\ SearchOK(search)
         /\ count \in Nat /\ count <= MaxItems /\ MaxItems \in Nat /\ editor.doc \in Nat
         /\ hits \subseteq Cards /\ 0..(count - 1) \subseteq Cards
         /\ editor \in Editors
<1>1. /\ TypeOK /\ EditorOK(editor) /\ EmptyAtEnd /\ DocInSync /\ ActiveInRange
      /\ SearchOK(search)
  BY SearchParts DEF IInv, ViewInv
<1>2. /\ count \in 0..MaxItems /\ hits \subseteq 0..(count - 1) /\ editor \in Editors
      /\ MaxItems \in Nat
  BY <1>1, MaxItemsAssumption DEF TypeOK
<1>3. editor.doc \in Nat /\ 0..(count - 1) \subseteq Cards
  BY <1>2, CardsAre DEF Editors
<1>4. QED BY <1>1, <1>2, <1>3

\* A batch has new cards, or new texts of cards, or both.
LEMMA BatchOf ==
  ASSUME ApplyBatch, count \in Nat
  PROVE  \E new \in 0..1, dirty \in SUBSET (0..(count - 1)) :
           0 < count + new /\ Batch(new, dirty)
<1>1. CASE NewCard
  <2>1. {} \in SUBSET (0..(count - 1)) /\ 1 \in 0..1 /\ 0 < count + 1
    OBVIOUS
  <2>2. QED BY <1>1, <2>1 DEF NewCard
<1>2. CASE NewTexts
  <2>1. PICK new \in 0..1, dirty \in SUBSET (0..(count - 1)) : dirty # {} /\ Batch(new, dirty)
    BY <1>2 DEF NewTexts
  <2>2. PICK k \in 0..(count - 1) : TRUE
    BY <2>1
  <2>3. QED BY <2>1, <2>2
<1>3. QED BY <1>1, <1>2 DEF ApplyBatch

\* The search stays in order.
LEMMA StepSearch ==
  ASSUME IInv, [Next]_vars
  PROVE  SearchOK(search)'
<1>1. /\ TypeOK /\ SearchOK(search) /\ count \in Nat /\ count <= MaxItems
      /\ hits \subseteq Cards /\ 0..(count - 1) \subseteq Cards
      /\ search \in [query : BOOLEAN, matches : Seq(Cards), active : Nat,
                     in_buffer : BOOLEAN]
      /\ MaxItems \in Nat
  BY StateFacts DEF TypeOK
<1>2. CASE search' = search
  BY <1>1, <1>2
<1>3. CASE search' = NoSearch
  BY <1>3, NoSearchOK
<1>4. CASE \E b \in BOOLEAN : search' = [search EXCEPT !.in_buffer = b]
  BY <1>1, <1>4 DEF SearchOK
<1>5. CASE ApplyBatch
  <2>1. PICK new \in 0..1, dirty \in SUBSET (0..(count - 1)) :
          /\ count + new <= MaxItems /\ count' = count + new
          /\ selected_item' \in {count' - 1, selected_item, AtMost(selected_item, count' - 1)}
          /\ 0 < count + new
          /\ search' = IF search.query
                       THEN update_search_matches_for_changes(search, count', hits', count,
                                                              dirty, selected_item')
                       ELSE search
    BY <1>1, <1>5, BatchOf DEF Batch
  <2>2. count' \in 0..MaxItems /\ count \in 0..count' /\ selected_item' \in Nat
    <3>1. count' \in 0..MaxItems /\ count \in 0..count' /\ count' - 1 \in Nat
      BY <1>1, <2>1
    <3>2. QED BY <1>1, <2>1, <3>1 DEF TypeOK, AtMost
  <2>3. CASE ~ search.query
    BY <1>1, <2>1, <2>3
  <2>4. CASE search.query
    <3>1. Updated(search', search, count', hits', dirty \cup count..(count' - 1))
      BY <1>1, <2>1, <2>2, <2>4, UpdateSound
    <3>2. QED BY <3>1 DEF Updated
  <2>5. QED BY <2>3, <2>4
<1>6. CASE ResetRefresh
  <2>1. PICK n \in 0..MaxItems :
          /\ hits' \in Found(0..(n - 1))
          /\ search' = IF search.query THEN rebuild_search_matches(search, hits') ELSE search
    BY <1>6 DEF ResetRefresh
  <2>2. hits' \subseteq 0..(n - 1)
    BY <2>1 DEF Found
  <2>3. hits' \subseteq Cards
    BY <2>2, CardsAre
  <2>4. QED BY <1>1, <2>1, <2>3, RebuildSound
<1>7. CASE commit_search
  <2>1. PICK q \in BOOLEAN :
          /\ hits' \in IF q THEN SUBSET (0..(count - 1)) ELSE {{}}
          /\ LET s == rebuild_search_matches([search EXCEPT !.query = q], hits')
                 p == PartitionPoint(s.matches, selected_item)
             IN  IF search.in_buffer \/ s.matches = <<>>
                 THEN search' = IF search.in_buffer THEN [search EXCEPT !.query = q] ELSE s
                 ELSE search' = [s EXCEPT !.active = IF p = Len(s.matches) THEN 0 ELSE p]
    BY <1>7 DEF commit_search, Jump
  <2> DEFINE s == rebuild_search_matches([search EXCEPT !.query = q], hits')
             p == PartitionPoint(s.matches, selected_item)
             act == IF p = Len(s.matches) THEN 0 ELSE p
  <2>2. hits' \subseteq Cards /\ [search EXCEPT !.query = q] \in
           [query : BOOLEAN, matches : Seq(Cards), active : Nat, in_buffer : BOOLEAN]
    BY <1>1, <2>1
  <2>3. SearchOK(s)
    BY <2>2, RebuildSound
  <2>4. SearchOK([search EXCEPT !.query = q])
    BY <1>1, <2>2 DEF SearchOK
  <2>5. \/ search' = [search EXCEPT !.query = q]
        \/ search' = s
        \/ search' = [s EXCEPT !.active = act] /\ s.matches # <<>>
    BY <2>1
  <2> HIDE DEF s
  <2>6. s.matches # <<>> => SearchOK([s EXCEPT !.active = act])
    <3>1. selected_item \in Nat /\ s.matches \in Seq(Nat) /\ Increasing(s.matches)
      BY <1>1, <2>3 DEF TypeOK, SearchOK, SortedMatches
    <3>2. p \in 0..Len(s.matches) /\ Len(s.matches) \in Nat
      BY <3>1, PartitionPointIs
    <3> HIDE DEF p
    <3>3. act \in Nat /\ (s.matches # <<>> => act <= Last0(Len(s.matches)))
      BY <3>1, <3>2 DEF Last0
    <3> HIDE DEF act
    <3>4. QED BY <2>3, <3>3 DEF SearchOK
  <2> HIDE DEF act
  <2>7. QED BY <2>3, <2>4, <2>5, <2>6
<1>8. CASE move_search_match
  <2> DEFINE n == Len(search.matches)
             down == (search.active + 1) % n
             up == IF search.active = 0 THEN n - 1 ELSE search.active - 1
  <2>1. /\ search.matches # <<>>
        /\ search' = [search EXCEPT !.active = down] \/ search' = [search EXCEPT !.active = up]
    BY <1>8 DEF move_search_match, Jump
  <2>2. n \in Nat /\ n # 0 /\ search.active \in Nat /\ search.active <= n - 1
    BY <1>1, <2>1 DEF SearchOK, Last0
  <2>3. up \in Nat /\ up <= Last0(n) /\ down \in Nat /\ down <= Last0(n)
    <3> HIDE DEF n
    <3> QED BY <2>2 DEF Last0
  <2> HIDE DEF up, down
  <2>4. QED BY <1>1, <2>1, <2>3 DEF SearchOK
<1>9. CASE close_search
  BY <1>2, <1>3, <1>9 DEF close_search
<1>10. CASE open_search \/ show_rich_transcript
  BY <1>4, <1>10 DEF open_search, show_rich_transcript
<1>11. CASE \/ OpenThread \/ LoadThread \/ Send
            \/ Wheel \/ ScrollPage \/ move_selection \/ Click \/ GoTop \/ GoBottom
            \/ MoveCursor \/ ScrollText \/ Fold \/ Frame \/ Disclose \/ UNCHANGED vars
  BY <1>2, <1>11
     DEF Disclose, OpenThread, LoadThread, Send, Wheel, ScrollPage, move_selection, Click, GoTop,
         GoBottom, MoveCursor, ScrollText, Fold, Frame, vars
<1>12. CASE toggle_buffer_view
  BY <1>3, <1>12 DEF toggle_buffer_view
<1>13. QED
  BY <1>5, <1>6, <1>7, <1>8, <1>9, <1>10, <1>11, <1>12 DEF Next

\* The editor that toggle_buffer_view shows.
LEMMA ToggleEditor ==
  ASSUME EditorOK(editor), toggle_buffer_view, count \in Nat, selected_item \in Nat
  PROVE  /\ EditorOK(editor)' /\ editor'.doc = count
         /\ editor'.cursor = AtMost(selected_item, Last0(count))
         /\ should_follow_tail => Follows(editor')
         /\ ~ should_follow_tail /\ count > 0 => ~ Follows(editor')
<1> DEFINE heads == {AtMost(p, count) : p \in editor.last_selection_head}
           d(v) == [editor EXCEPT !.doc = count, !.viewport = v,
                                  !.last_selection_head = heads]
           at == AtMost(selected_item, Last0(count))
           c(v) == SetCursor(edit(d(v)), at)
           f(v) == IF should_follow_tail THEN reveal_tail(c(v))
                   ELSE IF count > 0 THEN reveal_row_at_top(c(v))
                   ELSE pause_tail_follow(c(v))
<1>1. PICK v \in {"above", "end", "beyond"} : editor' \in CursorEvent(c(v), f(v))
  BY DEF toggle_buffer_view
<1>2. editor \in Editors /\ heads \in SUBSET Nat
  BY DEF EditorOK, Editors, AtMost
<1>3. at \in Nat /\ at <= count /\ (count > 0 => at < count)
  BY DEF AtMost, Last0
<1> HIDE DEF heads, at
<1>4. /\ edit(d(v)).doc = count /\ edit(d(v)) \in Editors
      /\ edit(d(v)).pending_tail_intent # "None"
           => edit(d(v)).viewport_refresh_pending /\ ~ edit(d(v)).follow_tail
  BY <1>2 DEF EditorOK, Editors, edit, request_tail_autoscroll
<1> HIDE DEF d
<1>5. EditorOK(c(v)) /\ c(v).doc = count /\ c(v).cursor = at
  BY <1>3, <1>4 DEF SetCursor, EditorOK, Editors
<1> HIDE DEF c
<1>6. /\ EditorOK(f(v)) /\ f(v).doc = count /\ f(v).cursor = at
      /\ f(v).pending_tail_intent = "None"
      /\ should_follow_tail => f(v).follow_tail = TRUE /\ f(v).last_selection_head = {at}
      /\ ~ should_follow_tail => f(v).follow_tail = FALSE
  BY <1>5, RevealFollows, PauseStops
<1> HIDE DEF f
<1> DEFINE g == note_local_selection(f(v))
<1>7. editor' = f(v) \/ editor' = g
  BY <1>1 DEF CursorEvent
<1>8. Follows(f(v)) = f(v).follow_tail
  BY <1>6, FollowsIs
<1>9. /\ EditorOK(g) /\ g.doc = count /\ g.cursor = at
      /\ g.last_selection_head = f(v).last_selection_head
      /\ g.pending_tail_intent \in Selections
      /\ g.pending_tail_intent = "SelectionFollowing" <=> f(v).follow_tail
  BY <1>6, NoteWaits
<1> HIDE DEF g
<1>10. Follows(g) <=> follow_tail_after_selection(
                        g, g.pending_tail_intent = "SelectionFollowing")
  BY <1>9, FollowsIs
<1>11. should_follow_tail => Follows(g)
  <2>1. SUFFICES ASSUME should_follow_tail PROVE Follows(g)
    OBVIOUS
  <2>2. g.last_selection_head = {at} /\ g.pending_tail_intent = "SelectionFollowing"
    BY <1>6, <1>9, <2>1
  <2>3. QED BY <1>3, <1>9, <1>10, <2>2 DEF follow_tail_after_selection
<1>12. ~ should_follow_tail /\ count > 0 => ~ Follows(g)
  BY <1>3, <1>6, <1>9, <1>10 DEF follow_tail_after_selection
<1>13. QED BY <1>6, <1>7, <1>8, <1>9, <1>11, <1>12 DEF at

\* The text stays well formed and in sync.
LEMMA StepEditor ==
  ASSUME IInv, [Next]_vars
  PROVE  EditorOK(editor)' /\ DocInSync'
<1>1. /\ TypeOK /\ EditorOK(editor) /\ (buffer_view => editor.doc = count)
      /\ count \in Nat /\ count <= MaxItems /\ MaxItems \in Nat /\ editor.doc \in Nat
      /\ selected_item \in Nat
  BY StateFacts DEF TypeOK, DocInSync
<1>2. CASE editor' = editor /\ buffer_view' = buffer_view /\ count' = count
  BY <1>1, <1>2 DEF DocInSync
<1>3. ASSUME NEW n \in Nat, editor' \in Sync(Replace(editor, n)), count' = n,
             buffer_view' = buffer_view
      PROVE  EditorOK(editor)' /\ DocInSync'
  BY <1>1, <1>3, ReplaceKeeps DEF Sync, DocInSync
<1>4. CASE ApplyBatch
  <2>1. PICK new \in 0..1, dirty \in SUBSET (0..(count - 1)) : /\ count' = count + new
                                   /\ editor' \in Sync(Changed(editor, count', dirty))
                                   /\ buffer_view' = buffer_view
    BY <1>1, <1>4, BatchOf DEF Batch
  <2>2. count' \in Nat /\ count <= count'
    BY <1>1, <2>1
  <2>3. CASE buffer_view
    <3>1. editor' \in Changed(editor, count', dirty) /\ editor.doc <= count'
      BY <1>1, <2>1, <2>2, <2>3 DEF Sync
    <3>2. QED BY <1>1, <2>2, <3>1, ChangedKeeps DEF DocInSync
  <2>4. CASE ~ buffer_view
    BY <1>1, <2>1, <2>4 DEF Sync, DocInSync
  <2>5. QED BY <2>3, <2>4
<1>5. CASE ResetRefresh
  <2>1. PICK n \in 0..MaxItems : count' = n /\ editor' \in Sync(Replace(editor, n))
    BY <1>5 DEF ResetRefresh
  <2>2. QED BY <1>1, <1>3, <1>5, <2>1 DEF ResetRefresh
<1>6. CASE OpenThread
  BY <1>3, <1>6 DEF OpenThread
<1>7. CASE LoadThread
  <2>1. PICK n \in 0..MaxItems :
          count' = n /\ editor' \in Sync({reveal_tail(e) : e \in Replace(editor, n)})
    BY <1>7 DEF LoadThread
  <2>2. buffer_view' = buffer_view /\ n \in Nat
    BY <1>1, <1>7 DEF LoadThread
  <2>3. CASE buffer_view
    <3>1. PICK e \in Replace(editor, n) : editor' = reveal_tail(e)
      BY <2>1, <2>3 DEF Sync
    <3>2. EditorOK(e) /\ e.doc = n
      BY <1>1, <2>2, ReplaceKeeps
    <3>3. QED BY <2>1, <3>1, <3>2, RevealFollows DEF DocInSync
  <2>4. CASE ~ buffer_view
    BY <1>1, <2>1, <2>2, <2>4 DEF Sync, DocInSync
  <2>5. QED BY <2>3, <2>4
<1>8. CASE Send
  <2>1. /\ count' = count + 1 /\ buffer_view' = buffer_view
        /\ editor' \in Sync(UNION {CursorEvent(e, reveal_tail(SetCursor(e, count))) :
                                     e \in Changed(editor, count', {})})
    BY <1>8 DEF Send
  <2>2. CASE buffer_view
    <3>1. PICK e \in Changed(editor, count', {}) :
            editor' \in CursorEvent(e, reveal_tail(SetCursor(e, count)))
      BY <2>1, <2>2 DEF Sync
    <3>2. EditorOK(e) /\ e.doc = count'
      BY <1>1, <2>1, <2>2, ChangedKeeps
    <3>3. EditorOK(SetCursor(e, count)) /\ SetCursor(e, count).doc = count'
      BY <1>1, <2>1, <3>2, CursorMoves
    <3> DEFINE f == reveal_tail(SetCursor(e, count))
    <3>4. EditorOK(f) /\ f.doc = count'
      BY <3>3, RevealFollows
    <3> HIDE DEF f
    <3>5. editor' = f \/ editor' = note_local_selection(f)
      BY <3>1 DEF CursorEvent, f
    <3>6. QED BY <3>4, <3>5, NoteWaits DEF DocInSync
  <2>3. CASE ~ buffer_view
    BY <1>1, <2>1, <2>3 DEF Sync, DocInSync
  <2>4. QED BY <2>2, <2>3
<1>9. CASE MoveCursor
  <2>1. PICK c \in 0..editor.doc : editor' = note_local_selection(SetCursor(editor, c))
    BY <1>9 DEF MoveCursor
  <2>2. EditorOK(SetCursor(editor, c)) /\ SetCursor(editor, c).doc = editor.doc
    BY <1>1, CursorMoves
  <2>3. EditorOK(editor') /\ editor'.doc = editor.doc
    BY <2>1, <2>2, NoteWaits
  <2>4. QED BY <1>1, <1>9, <2>3 DEF MoveCursor, DocInSync
<1>10. CASE ScrollText
  <2>1. PICK v \in {"above", "end"} : editor' = DirectScroll(editor, v)
    BY <1>10 DEF ScrollText
  <2>2. EditorOK(editor') /\ editor'.doc = editor.doc
    BY <1>1, <2>1, ScrollWaits
  <2>3. QED BY <1>1, <1>10, <2>2 DEF ScrollText, DocInSync
<1>11. CASE Fold
  <2>1. PICK v \in {editor.viewport, "beyond"} :
          editor' = [pause_tail_follow(editor) EXCEPT !.viewport = v]
    BY <1>11 DEF Fold
  <2>2. EditorOK(pause_tail_follow(editor)) /\ pause_tail_follow(editor).doc = editor.doc
        /\ v \in {"above", "end", "beyond"}
    BY <1>1, PauseStops DEF EditorOK, Editors
  <2>3. EditorOK(editor') /\ editor'.doc = editor.doc
    BY <2>1, <2>2 DEF EditorOK, Editors
  <2>4. QED BY <1>1, <1>11, <2>3 DEF Fold, DocInSync
<1>12. CASE show_rich_transcript
  BY <1>1, <1>12 DEF show_rich_transcript, DocInSync
<1>13. CASE toggle_buffer_view
  <2>1. EditorOK(editor') /\ editor'.doc = count
    BY <1>1, <1>13, ToggleEditor
  <2>2. QED BY <1>13, <2>1 DEF toggle_buffer_view, DocInSync
<1>14. CASE Frame
  <2>1. EditorOK(NextFrame(editor)) /\ NextFrame(editor).doc = editor.doc
    BY <1>1, FrameDecides
  <2>2. editor' \in EditorLayout(NextFrame(editor)) \/ editor' = NextFrame(editor)
    BY <1>14 DEF Frame
  <2>3. EditorOK(editor') /\ editor'.doc = editor.doc
    BY <2>1, <2>2, LayoutKeeps
  <2>4. QED BY <1>1, <1>14, <2>3 DEF Frame, DocInSync
<1>15. CASE \/ Wheel \/ ScrollPage \/ move_selection \/ Click \/ GoTop \/ GoBottom
            \/ open_search \/ commit_search \/ close_search \/ move_search_match
            \/ Disclose \/ UNCHANGED vars
  BY <1>2, <1>15
     DEF Disclose, Wheel, ScrollPage, move_selection, Click, GoTop, GoBottom, open_search,
         commit_search, close_search, move_search_match, vars
<1>16. QED
  BY <1>4, <1>5, <1>6, <1>7, <1>8, <1>9, <1>10, <1>11, <1>12, <1>13, <1>14, <1>15 DEF Next

\* A search that is committed outside of the editor is exact, and so is one that jumps.
LEMMA CommitFinds ==
  ASSUME SearchOK(search), commit_search, count \in Nat, count <= MaxItems
  PROVE  /\ ~ search.in_buffer => (search'.query => Range(search'.matches) = hits')
         /\ selected_item' # selected_item => Range(search'.matches) \subseteq 0..(count - 1)
<1>1. PICK q \in BOOLEAN :
        /\ hits' \in IF q THEN SUBSET (0..(count - 1)) ELSE {{}}
        /\ LET s == rebuild_search_matches([search EXCEPT !.query = q], hits')
               p == PartitionPoint(s.matches, selected_item)
           IN  IF search.in_buffer \/ s.matches = <<>>
               THEN /\ search' = IF search.in_buffer THEN [search EXCEPT !.query = q] ELSE s
                    /\ selected_item' = selected_item
               ELSE search' = [s EXCEPT !.active = IF p = Len(s.matches) THEN 0 ELSE p]
  BY DEF commit_search, Jump
<1> DEFINE s == rebuild_search_matches([search EXCEPT !.query = q], hits')
           p == PartitionPoint(s.matches, selected_item)
<1>2. /\ hits' \subseteq 0..(count - 1)
      /\ [search EXCEPT !.query = q] \in
           [query : BOOLEAN, matches : Seq(Cards), active : Nat, in_buffer : BOOLEAN]
      /\ [search EXCEPT !.query = q].query = q
  BY <1>1 DEF SearchOK
<1>3. hits' \subseteq Cards
  <2>1. count \in 0..MaxItems
    BY MaxItemsAssumption
  <2>2. QED BY <1>2, <2>1, CardsAre
<1>4. SearchOK(s) /\ s.query = q /\ (q => Range(s.matches) = hits')
  BY <1>2, <1>3, RebuildSound
<1>5. ~ q => s.matches = <<>>
  BY <1>2 DEF rebuild_search_matches
<1>6. \/ search.in_buffer /\ selected_item' = selected_item
      \/ search' = s /\ selected_item' = selected_item
      \/ /\ s.matches # <<>>
         /\ search' = [s EXCEPT !.active = IF p = Len(s.matches) THEN 0 ELSE p]
  BY <1>1
<1> HIDE DEF s, p
<1>7. QED BY <1>2, <1>4, <1>5, <1>6 DEF SearchOK

\* The active match is a card.
LEMMA ActiveIsCard ==
  ASSUME NEW s, SearchOK(s), s.matches # <<>>
  PROVE  /\ s.active + 1 \in 1..Len(s.matches) /\ s.matches[s.active + 1] \in Cards
         /\ s.matches[s.active + 1] \in Range(s.matches)
<1>1. /\ s.matches \in Seq(Cards) /\ s.active \in Nat
      /\ s.active <= Last0(Len(s.matches))
  BY DEF SearchOK
<1>2. Len(s.matches) \in Nat /\ Len(s.matches) # 0
  BY <1>1
<1>3. s.active + 1 \in 1..Len(s.matches)
  BY <1>1, <1>2 DEF Last0
<1>4. QED BY <1>1, <1>3, RangeIs

\* What the list may be asked to do keeps its type.
LEMMA ListTypes ==
  ASSUME list \in [following : BOOLEAN, at_end : BOOLEAN]
  PROVE  /\ set_follow_mode_Tail \in [following : BOOLEAN, at_end : BOOLEAN]
         /\ \A shorter : Splice(list, shorter) \subseteq [following : BOOLEAN, at_end : BOOLEAN]
         /\ Reveal(list) \subseteq [following : BOOLEAN, at_end : BOOLEAN]
         /\ ListLayout(list) \in [following : BOOLEAN, at_end : BOOLEAN]
<1> DEFINE L == [following : BOOLEAN, at_end : BOOLEAN]
<1>1. set_follow_mode_Tail \in L
  BY DEF set_follow_mode_Tail
<1>2. \A b \in BOOLEAN : [list EXCEPT !.at_end = b] \in L
  OBVIOUS
<1>3. \A b \in BOOLEAN : [following |-> FALSE, at_end |-> b] \in L
  OBVIOUS
<1> HIDE DEF L
<1>4. \A shorter : Splice(list, shorter) \subseteq L
  <2>1. SUFFICES ASSUME NEW shorter, NEW l \in Splice(list, shorter) PROVE l \in L
    OBVIOUS
  <2>2. l = list \/ \E b \in BOOLEAN : l = [list EXCEPT !.at_end = b]
    BY <2>1 DEF Splice
  <2>3. QED BY <1>2, <2>2 DEF L
<1>5. Reveal(list) \subseteq L
  <2>1. \A l \in Reveal(list) : \E b \in BOOLEAN : l = [following |-> FALSE, at_end |-> b]
    BY DEF Reveal
  <2>2. QED BY <1>3, <2>1
<1>6. ListLayout(list) \in L
  BY <1>1 DEF ListLayout, L
<1>7. QED BY <1>1, <1>4, <1>5, <1>6 DEF L

\* The list keeps its type.
LEMMA StepList ==
  ASSUME IInv, [Next]_vars
  PROVE  list' \in [following : BOOLEAN, at_end : BOOLEAN]
<1> DEFINE L == [following : BOOLEAN, at_end : BOOLEAN]
<1>1. list \in L /\ count \in Nat
  BY StateFacts DEF TypeOK
<1>2. /\ set_follow_mode_Tail \in L /\ (\A shorter : Splice(list, shorter) \subseteq L)
      /\ Reveal(list) \subseteq L /\ ListLayout(list) \in L
  BY <1>1, ListTypes
<1>12. CASE ApplyBatch \/ Disclose
  <2>1. \E shorter : list' \in Splice(list, shorter)
    BY <1>1, <1>12, BatchOf DEF Batch, Disclose
  <2>2. QED BY <1>2, <2>1
<1>3. CASE \/ LoadThread \/ Send \/ GoBottom \/ Frame \/ show_rich_transcript
           \/ GoTop \/ move_selection
  BY <1>1, <1>2, <1>3
     DEF LoadThread, Send, GoBottom, Frame, show_rich_transcript, GoTop, move_selection
<1>4. CASE \/ MoveCursor \/ ScrollText \/ Fold \/ toggle_buffer_view \/ open_search
           \/ UNCHANGED vars
  BY <1>1, <1>4 DEF MoveCursor, ScrollText, Fold, toggle_buffer_view, open_search, vars
<1>5. CASE commit_search \/ move_search_match
  BY <1>1, <1>2, <1>5 DEF commit_search, move_search_match, Jump
<1>6. CASE close_search
  BY <1>1, <1>2, <1>6 DEF close_search
<1>7. CASE OpenThread
  BY <1>1, <1>7 DEF OpenThread
<1>8. CASE Wheel
  <2>1. CASE list' = [following |-> FALSE, at_end |-> FALSE]
    BY <2>1
  <2>2. CASE \E b \in BOOLEAN : list' = [list EXCEPT !.at_end = @ \/ b]
    <3>1. PICK b \in BOOLEAN : list' = [list EXCEPT !.at_end = list.at_end \/ b]
      BY <2>2
    <3>2. (list.at_end \/ b) \in BOOLEAN
      OBVIOUS
    <3>3. QED BY <1>1, <3>1, <3>2
  <2>3. QED BY <1>8, <2>1, <2>2 DEF Wheel
<1>9. CASE ScrollPage
  BY <1>1, <1>2, <1>9 DEF ScrollPage
<1>10. CASE Click
  BY <1>1, <1>2, <1>10 DEF Click
<1>11. CASE ResetRefresh
  BY <1>1, <1>2, <1>11 DEF ResetRefresh
<1>13. QED BY <1>3, <1>4, <1>5, <1>6, <1>7, <1>8, <1>9, <1>10, <1>11, <1>12 DEF Next

\* The cards and the cards the query occurs in.
LEMMA StepCards ==
  ASSUME IInv, [Next]_vars
  PROVE  count' \in 0..MaxItems /\ hits' \subseteq 0..(count' - 1)
<1>1. /\ count \in 0..MaxItems /\ hits \subseteq 0..(count - 1) /\ MaxItems \in Nat
      /\ count \in Nat
  BY StateFacts DEF TypeOK
<1>2. CASE UNCHANGED <<count, hits>>
  BY <1>1, <1>2
<1>3. CASE count' = count /\ hits' = {}
  BY <1>1, <1>3
<1>4. CASE ApplyBatch
  <2>1. PICK new \in 0..1, dirty \in SUBSET (0..(count - 1)) :
          /\ count + new <= MaxItems /\ count' = count + new
          /\ \E found \in Found(dirty \cup count..(count + new - 1)) :
               hits' = (hits \ dirty) \cup found
    BY <1>1, <1>4, BatchOf DEF Batch
  <2>2. PICK found : /\ found \subseteq dirty \cup count..(count + new - 1)
                     /\ hits' = (hits \ dirty) \cup found
    BY <2>1 DEF Found
  <2>3. /\ 0..(count - 1) \subseteq 0..(count + new - 1)
        /\ count..(count + new - 1) \subseteq 0..(count + new - 1)
    BY <1>1
  <2>4. hits' \subseteq 0..(count + new - 1)
    BY <1>1, <2>2, <2>3
  <2>5. count' \in 0..MaxItems /\ count' - 1 = count + new - 1
    BY <1>1, <2>1
  <2>6. QED BY <2>4, <2>5
<1>5. CASE ResetRefresh \/ LoadThread
  <2>1. PICK n \in 0..MaxItems : count' = n /\ hits' \in Found(0..(n - 1))
    BY <1>5 DEF ResetRefresh, LoadThread
  <2>2. QED BY <2>1 DEF Found
<1>6. CASE OpenThread
  BY <1>1, <1>6 DEF OpenThread
<1>7. CASE Send
  <2>1. PICK found : /\ found \subseteq {count} /\ hits' = hits \cup found
                     /\ count' = count + 1 /\ count < MaxItems
    BY <1>7 DEF Send, Found
  <2>2. 0..(count - 1) \subseteq 0..((count + 1) - 1) /\ count \in 0..((count + 1) - 1)
    BY <1>1
  <2>3. QED BY <1>1, <2>1, <2>2
<1>8. CASE commit_search
  BY <1>1, <1>8 DEF commit_search
<1>9. CASE close_search \/ toggle_buffer_view
  BY <1>2, <1>3, <1>9 DEF close_search, toggle_buffer_view
<1>10. CASE \/ Wheel \/ ScrollPage \/ move_selection \/ Click \/ GoTop \/ GoBottom
            \/ MoveCursor \/ ScrollText \/ Fold \/ show_rich_transcript \/ open_search
            \/ move_search_match \/ Frame \/ Disclose \/ UNCHANGED vars
  BY <1>2, <1>10
     DEF Disclose, Wheel, ScrollPage, move_selection, Click, GoTop, GoBottom, MoveCursor,
         ScrollText, Fold, show_rich_transcript, open_search, move_search_match, Frame, vars
<1>11. QED BY <1>4, <1>5, <1>6, <1>7, <1>8, <1>9, <1>10 DEF Next

\* The selection: a card that exists, the one that was selected, or the active match.
\* Where a step selects another card than before, it exists, unless it is a match.
LEMMA StepSelected ==
  ASSUME IInv, [Next]_vars
  PROVE  /\ selected_item' \in Nat
         /\ \/ selected_item' <= Last0(count')
            \/ selected_item' = selected_item /\ Last0(count) <= Last0(count')
            \/ count' = count /\ selected_item' \in Range(search.matches)
<1>1. /\ count \in Nat /\ count <= MaxItems /\ MaxItems \in Nat /\ selected_item \in Nat
      /\ EditorOK(editor) /\ (buffer_view => editor.doc = count) /\ SearchOK(search)
      /\ search \in [query : BOOLEAN, matches : Seq(Cards), active : Nat,
                     in_buffer : BOOLEAN]
      /\ editor.doc \in Nat /\ editor.cursor \in Nat /\ editor.cursor <= editor.doc
  BY StateFacts DEF TypeOK, EditorOK, DocInSync, Editors
<1>2. Last0(count) \in Nat /\ Last0(count) <= Last0(count)
  BY <1>1 DEF Last0
<1>3. CASE selected_item' = selected_item /\ count' = count
  BY <1>1, <1>2, <1>3
<1>4. CASE ApplyBatch
  <2>1. PICK new \in 0..1, dirty \in SUBSET (0..(count - 1)) :
          /\ count' = count + new /\ 0 < count + new
          /\ selected_item' \in {count' - 1, selected_item, AtMost(selected_item, count' - 1)}
    BY <1>1, <1>4, BatchOf DEF Batch
  <2>2. count' \in Nat /\ count' # 0 /\ count <= count'
    BY <1>1, <2>1
  <2>3. QED BY <1>1, <2>1, <2>2 DEF Last0, AtMost
<1>5. CASE ResetRefresh
  <2>1. PICK n \in 0..MaxItems :
          /\ count' = n
          /\ selected_item' \in IF is_following_tail THEN {Last0(n)} ELSE 0..Last0(n)
    BY <1>5 DEF ResetRefresh
  <2>2. Last0(n) \in Nat
    BY <1>1 DEF Last0
  <2>3. QED BY <2>1, <2>2
<1>6. CASE OpenThread \/ GoTop
  BY <1>1, <1>6 DEF OpenThread, GoTop, Last0
<1>7. CASE LoadThread
  BY <1>1, <1>7 DEF LoadThread, Last0
<1>8. CASE Send
  BY <1>1, <1>8 DEF Send, Last0
<1>9. CASE ScrollPage \/ Click
  BY <1>1, <1>3, <1>9 DEF ScrollPage, Click, Last0
<1>10. CASE move_selection
  BY <1>1, <1>10 DEF move_selection, AtMost, Last0
<1>11. CASE GoBottom
  BY <1>1, <1>2, <1>11 DEF GoBottom
<1>12. CASE MoveCursor
  <2>1. PICK c \in 0..editor.doc :
          selected_item' = IF editor.doc = 0 THEN selected_item ELSE item_at_offset(editor, c)
    BY <1>12 DEF MoveCursor
  <2>2. buffer_view /\ count' = count
    BY <1>12 DEF MoveCursor
  <2>3. QED BY <1>1, <1>3, <2>1, <2>2 DEF item_at_offset, AtMost, Last0
<1>13. CASE show_rich_transcript
  <2>1. /\ selected_item' = IF editor.doc = 0 THEN selected_item
                            ELSE item_at_offset(editor, editor.cursor)
        /\ buffer_view /\ count' = count
    BY <1>13 DEF show_rich_transcript
  <2>2. QED BY <1>1, <1>3, <2>1 DEF item_at_offset, AtMost, Last0
<1>14. CASE toggle_buffer_view
  <2>1. /\ selected_item' = selected_item \/ (count > 0 /\ selected_item' = editor'.cursor)
        /\ count' = count
    BY <1>14 DEF toggle_buffer_view
  <2>2. editor'.cursor = AtMost(selected_item, Last0(count))
    BY <1>1, <1>14, ToggleEditor
  <2>3. QED BY <1>1, <1>2, <1>3, <2>1, <2>2 DEF AtMost
<1>15. CASE commit_search \/ move_search_match
  <2>1. CASE selected_item' = selected_item
    BY <1>3, <1>15, <2>1 DEF commit_search, move_search_match
  <2>2. CASE selected_item' # selected_item
    <3>1. /\ selected_item' = search'.matches[search'.active + 1]
          /\ search'.matches # <<>> /\ count' = count
      <4>1. CASE move_search_match
        BY <1>1, <4>1 DEF move_search_match, Jump
      <4>2. CASE commit_search
        <5>1. PICK q \in BOOLEAN :
                LET s == rebuild_search_matches([search EXCEPT !.query = q], hits')
                    p == PartitionPoint(s.matches, selected_item)
                IN  /\ s.matches # <<>>
                    /\ search' = [s EXCEPT !.active = IF p = Len(s.matches) THEN 0 ELSE p]
                    /\ selected_item' = search'.matches[search'.active + 1]
          BY <2>2, <4>2 DEF commit_search, Jump
        <5>2. search'.matches # <<>>
          BY <5>1 DEF rebuild_search_matches
        <5>3. QED BY <4>2, <5>1, <5>2 DEF commit_search
      <4>3. QED BY <1>15, <4>1, <4>2
    <3>2. SearchOK(search')
      BY StepSearch
    <3>3. selected_item' \in Cards /\ selected_item' \in Range(search'.matches)
      BY <3>1, <3>2, ActiveIsCard
    <3>4. selected_item' \in Nat
      BY <3>3, CardsAre
    <3>5. CASE move_search_match
      <4>1. search'.matches = search.matches
        BY <1>1, <3>5 DEF move_search_match, Jump
      <4>2. QED BY <3>1, <3>3, <3>4, <4>1
    <3>6. CASE commit_search
      <4>1. Range(search'.matches) \subseteq 0..(count - 1)
        BY <1>1, <2>2, <3>6, CommitFinds
      <4>2. QED BY <1>1, <3>1, <3>3, <3>4, <4>1 DEF Last0
    <3>7. QED BY <1>15, <3>5, <3>6
  <2>3. QED BY <2>1, <2>2
<1>16. CASE \/ Wheel \/ ScrollText \/ Fold \/ open_search \/ close_search \/ Frame
            \/ Disclose \/ UNCHANGED vars
  BY <1>3, <1>16 DEF Disclose, Wheel, ScrollText, Fold, open_search, close_search, Frame, vars
<1>17. QED
  BY <1>4, <1>5, <1>6, <1>7, <1>8, <1>9, <1>10, <1>11, <1>12, <1>13, <1>14, <1>15, <1>16
     DEF Next

----------------------------------------------------------------------------
(* Which view follows.                                                     *)

Lists == [following : BOOLEAN, at_end : BOOLEAN]

\* Will a view follow: the text e if it is the visible one, else the list l.
Will(b, e, l) == IF b THEN Follows(e) ELSE l.following \/ l.at_end

\* The view that WillFollow is about.
LEMMA WillParts ==
  ASSUME NEW b, NEW e, NEW l \in Lists
  PROVE  /\ b => Will(b, e, l) = Follows(e)
         /\ ~ b => (Will(b, e, l) <=> ListLayout(l).following)
  BY DEF Will, ListLayout, set_follow_mode_Tail, Lists

\* What a card that is brought into view leaves of the list.
LEMMA RevealStops ==
  ASSUME NEW l \in Reveal(list)
  PROVE  /\ l \in Lists /\ l.following = FALSE
         /\ count = 0 => l.at_end = TRUE
<1>1. PICK b \in IF count = 0 THEN {TRUE} ELSE BOOLEAN : l = [following |-> FALSE, at_end |-> b]
  BY DEF Reveal
<1>2. b \in BOOLEAN /\ (count = 0 => b = TRUE)
  OBVIOUS
<1>3. QED BY <1>1, <1>2 DEF Lists

\* The visible list of an empty transcript stays at its end.
LEMMA StepEmpty ==
  ASSUME IInv, [Next]_vars
  PROVE  EmptyAtEnd'
<1>1. /\ count \in Nat /\ list \in Lists /\ buffer_view \in BOOLEAN
      /\ (~ buffer_view /\ count = 0 => list.at_end)
  BY StateFacts DEF TypeOK, EmptyAtEnd, Lists
<1>2. CASE UNCHANGED <<count, buffer_view, list>>
  BY <1>1, <1>2 DEF EmptyAtEnd
<1>3. CASE list'.at_end = TRUE
  BY <1>3 DEF EmptyAtEnd
<1>4. CASE count' # 0
  BY <1>4 DEF EmptyAtEnd
<1>5. CASE list' \in Reveal(list) /\ count' = count
  BY <1>5, RevealStops DEF EmptyAtEnd
<1>6. /\ set_follow_mode_Tail.at_end = TRUE
      /\ ListLayout(list).at_end = (list.following \/ list.at_end)
  BY <1>1 DEF set_follow_mode_Tail, ListLayout, Lists
<1>7. CASE ApplyBatch
  <2>1. PICK new \in 0..1, dirty \in SUBSET (0..(count - 1)) :
          0 < count + new /\ count' = count + new
    BY <1>1, <1>7, BatchOf DEF Batch
  <2>2. QED BY <1>1, <1>4, <2>1
<1>8. CASE ResetRefresh
  <2>1. CASE buffer_view
    BY <1>8, <2>1 DEF ResetRefresh, EmptyAtEnd
  <2>2. CASE ~ buffer_view /\ list.following
    BY <1>3, <1>6, <1>8, <2>2 DEF ResetRefresh
  <2>3. CASE ~ buffer_view /\ ~ list.following
    <3>1. PICK n \in 0..MaxItems, b \in BOOLEAN :
            count' = n /\ list' = [list EXCEPT !.at_end = b \/ n = 0]
      BY <1>8, <2>3 DEF ResetRefresh
    <3>2. list'.at_end = (b \/ n = 0)
      BY <1>1, <3>1 DEF Lists
    <3>3. QED BY <3>1, <3>2 DEF EmptyAtEnd
  <2>4. QED BY <2>1, <2>2, <2>3
<1>9. CASE OpenThread
  BY <1>1, <1>3, <1>9 DEF OpenThread, Lists
<1>10. CASE LoadThread \/ Send \/ GoBottom
  BY <1>3, <1>6, <1>10 DEF LoadThread, Send, GoBottom
<1>11. CASE Wheel \/ move_selection \/ Disclose
  <2>1. count > 0 /\ count' = count
    BY <1>11 DEF Wheel, move_selection, Disclose
  <2>2. QED BY <1>1, <1>4, <2>1
<1>12. CASE ScrollPage
  BY <1>1, <1>3, <1>5, <1>12 DEF ScrollPage, Lists
<1>13. CASE Click
  BY <1>1, <1>4, <1>13 DEF Click
<1>14. CASE GoTop
  BY <1>2, <1>5, <1>14 DEF GoTop
<1>15. CASE show_rich_transcript
  BY <1>3, <1>5, <1>6, <1>15 DEF show_rich_transcript
<1>16. CASE toggle_buffer_view
  BY <1>16 DEF toggle_buffer_view, EmptyAtEnd
<1>17. CASE commit_search \/ move_search_match
  BY <1>2, <1>5, <1>17 DEF commit_search, move_search_match, Jump
<1>18. CASE close_search
  <2>1. CASE buffer_view
    BY <1>2, <1>18, <2>1 DEF close_search
  <2>2. CASE ~ buffer_view
    <3>1. PICK l \in Reveal(list) : list' = [l EXCEPT !.following = list.following]
      BY <1>18, <2>2 DEF close_search
    <3>2. l \in Lists /\ (count = 0 => l.at_end = TRUE)
      BY RevealStops
    <3>3. list'.at_end = l.at_end /\ count' = count
      BY <1>18, <3>1, <3>2 DEF close_search, Lists
    <3>4. QED BY <3>2, <3>3 DEF EmptyAtEnd
  <2>3. QED BY <2>1, <2>2
<1>19. CASE Frame
  BY <1>1, <1>2, <1>6, <1>19 DEF Frame, EmptyAtEnd
<1>20. CASE MoveCursor \/ ScrollText \/ Fold \/ open_search \/ UNCHANGED vars
  BY <1>2, <1>20 DEF MoveCursor, ScrollText, Fold, open_search, vars
<1>21. QED
  BY <1>7, <1>8, <1>9, <1>10, <1>11, <1>12, <1>13, <1>14, <1>15, <1>16, <1>17, <1>18, <1>19,
     <1>20 DEF Next

\* A text that is sent to shows the tail, even if its cursor has just moved.
LEMMA SendFollows ==
  ASSUME NEW e, EditorOK(e), NEW c \in Nat, c <= e.doc,
         NEW f \in CursorEvent(e, reveal_tail(SetCursor(e, c)))
  PROVE  Follows(f)
<1> DEFINE r == reveal_tail(SetCursor(e, c))
           g == note_local_selection(r)
<1>1. EditorOK(SetCursor(e, c)) /\ SetCursor(e, c).cursor = c
  BY CursorMoves
<1>2. /\ EditorOK(r) /\ r.cursor = c /\ r.last_selection_head = {c} /\ r.follow_tail = TRUE
      /\ r.pending_tail_intent = "None"
  BY <1>1, RevealFollows
<1>3. f = r \/ f = g
  BY DEF CursorEvent
<1> HIDE DEF r
<1>4. Follows(r)
  BY <1>2, FollowsIs
<1>5. /\ EditorOK(g) /\ g.cursor = c /\ g.last_selection_head = {c}
      /\ g.pending_tail_intent \in Selections /\ g.pending_tail_intent = "SelectionFollowing"
  BY <1>2, NoteWaits
<1> HIDE DEF g
<1>6. follow_tail_after_selection(g, g.pending_tail_intent = "SelectionFollowing")
  BY <1>5 DEF follow_tail_after_selection
<1>7. Follows(g)
  BY <1>5, <1>6, FollowsIs
<1>8. QED BY <1>3, <1>4, <1>7

\* What a motion of the cursor decides: the end, or a follower that is not above the last.
LEMMA MoveDecides ==
  ASSUME IInv, MoveCursor
  PROVE  /\ buffer_view /\ buffer_view' /\ editor'.doc = editor.doc
         /\ editor'.cursor \in Nat /\ editor'.cursor <= editor'.doc
         /\ Follows(editor') <=> \/ editor'.cursor = editor'.doc
                                 \/ /\ editor'.pending_tail_intent = "SelectionFollowing"
                                    /\ NotAboveLast
         /\ editor.pending_tail_intent = "None"
              => (editor'.pending_tail_intent = "SelectionFollowing" <=> editor.follow_tail)
         /\ editor.pending_tail_intent \in Selections
              => editor'.pending_tail_intent = editor.pending_tail_intent
         /\ editor.pending_tail_intent = "DirectScroll"
              => editor'.pending_tail_intent = "SelectionPaused"
<1>1. EditorOK(editor) /\ editor.doc \in Nat
  BY StateFacts
<1>2. PICK c \in 0..editor.doc : editor' = note_local_selection(SetCursor(editor, c))
  BY DEF MoveCursor
<1>3. buffer_view /\ buffer_view' /\ c \in Nat /\ c <= editor.doc
  BY <1>1 DEF MoveCursor
<1> DEFINE d == SetCursor(editor, c)
<1>4. /\ EditorOK(d) /\ d.doc = editor.doc /\ d.cursor = c
      /\ d.last_selection_head = editor.last_selection_head
      /\ d.pending_tail_intent = editor.pending_tail_intent
      /\ d.follow_tail = editor.follow_tail
  BY <1>1, <1>3, CursorMoves
<1>5. editor' = note_local_selection(d)
  BY <1>2
<1> HIDE DEF d
<1>6. /\ EditorOK(editor') /\ editor'.doc = editor.doc /\ editor'.cursor = c
      /\ editor'.last_selection_head = editor.last_selection_head
      /\ editor'.pending_tail_intent \in Selections
  BY <1>4, <1>5, NoteWaits
<1>7. Follows(editor') <=> follow_tail_after_selection(
                             editor', editor'.pending_tail_intent = "SelectionFollowing")
  BY <1>6, FollowsIs
<1>8. Follows(editor') <=> \/ editor'.cursor = editor'.doc
                           \/ /\ editor'.pending_tail_intent = "SelectionFollowing"
                              /\ NotAboveLast
  BY <1>6, <1>7 DEF follow_tail_after_selection, NotAboveLast
<1>9. /\ editor.pending_tail_intent = "None"
           => (editor'.pending_tail_intent = "SelectionFollowing" <=> editor.follow_tail)
      /\ editor.pending_tail_intent \in Selections
           => editor'.pending_tail_intent = editor.pending_tail_intent
      /\ editor.pending_tail_intent = "DirectScroll"
           => editor'.pending_tail_intent = "SelectionPaused"
  BY <1>1, <1>4, <1>5, NoteWaits
<1>10. QED BY <1>1, <1>3, <1>6, <1>8, <1>9

\* A scroll decides by where it ends, and a fold stops the editor.
LEMMA ScrollDecides ==
  ASSUME IInv, EditorOK(editor')
  PROVE  /\ ScrollText => buffer_view' /\ (Follows(editor') <=> editor'.viewport # "above")
         /\ Fold => buffer_view' /\ ~ Follows(editor')
<1>1. EditorOK(editor) /\ editor \in Editors
  BY StateFacts
<1>2. CASE ScrollText
  <2>1. PICK v \in {"above", "end"} : editor' = DirectScroll(editor, v)
    BY <1>2 DEF ScrollText
  <2>2. EditorOK(editor') /\ editor'.pending_tail_intent = "DirectScroll"
    BY <1>1, <2>1, ScrollWaits
  <2>3. ~ Fold
    BY <1>1, <2>1, <2>2 DEF Fold, pause_tail_follow, Editors
  <2>4. QED BY <1>2, <2>2, <2>3, FollowsIs DEF ScrollText
<1>3. CASE ~ ScrollText /\ Fold
  <2>1. PICK v \in {editor.viewport, "beyond"} :
          editor' = [pause_tail_follow(editor) EXCEPT !.viewport = v]
    BY <1>3 DEF Fold
  <2>2. editor'.follow_tail = FALSE /\ editor'.pending_tail_intent = "None"
    BY <1>1, <2>1 DEF pause_tail_follow, Editors
  <2>3. ~ Follows(editor')
    BY <2>2, FollowsIs
  <2>4. QED BY <1>3, <2>3 DEF Fold
<1>4. QED BY <1>2, <1>3

\* What goes to the end makes the visible view follow.
LEMMA EndFollows ==
  ASSUME IInv, GoesToEnd, EditorOK(editor')
  PROVE  Will(buffer_view', editor', list')
<1>1. /\ EditorOK(editor) /\ (buffer_view => editor.doc = count) /\ count \in Nat
      /\ buffer_view \in BOOLEAN
  BY StateFacts DEF DocInSync, TypeOK
<1>2. CASE Send
  <2>1. /\ count' = count + 1 /\ buffer_view' = buffer_view
        /\ list' = set_follow_mode_Tail
        /\ editor' \in Sync(UNION {CursorEvent(e, reveal_tail(SetCursor(e, count))) :
                                     e \in Changed(editor, count', {})})
    BY <1>2 DEF Send
  <2>2. CASE buffer_view
    <3>1. PICK e \in Changed(editor, count', {}) :
            editor' \in CursorEvent(e, reveal_tail(SetCursor(e, count)))
      BY <2>1, <2>2 DEF Sync
    <3>2. EditorOK(e) /\ e.doc = count'
      BY <1>1, <2>1, <2>2, ChangedKeeps
    <3>3. count <= e.doc
      BY <1>1, <2>1, <3>2
    <3>4. Follows(editor')
      BY <1>1, <3>1, <3>2, <3>3, SendFollows
    <3>5. QED BY <2>1, <2>2, <3>4 DEF Will
  <2>3. CASE ~ buffer_view
    BY <2>1, <2>3 DEF Will, set_follow_mode_Tail
  <2>4. QED BY <2>2, <2>3
<1>3. CASE LoadThread
  <2>1. CASE buffer_view
    <3>1. PICK n \in 0..MaxItems : \E e \in Replace(editor, n) : editor' = reveal_tail(e)
      BY <1>3, <2>1 DEF LoadThread, Sync
    <3>2. PICK e \in Replace(editor, n) : editor' = reveal_tail(e)
      BY <3>1
    <3>3. EditorOK(e)
      BY <1>1, <3>1, MaxItemsAssumption, ReplaceKeeps
    <3>4. EditorOK(editor') /\ editor'.follow_tail /\ editor'.pending_tail_intent = "None"
      BY <3>3, <3>2, RevealFollows
    <3>5. Follows(editor')
      BY <3>4, FollowsIs
    <3>6. QED BY <1>3, <2>1, <3>5 DEF LoadThread, Will
  <2>2. CASE ~ buffer_view
    BY <1>3, <2>2 DEF LoadThread, Will, set_follow_mode_Tail
  <2>3. QED BY <1>1, <2>1, <2>2
<1>4. CASE GoBottom
  BY <1>4 DEF GoBottom, Will, set_follow_mode_Tail
<1>5. CASE MoveCursor /\ editor'.cursor = editor'.doc
  BY <1>5, MoveDecides DEF Will
<1>6. CASE ScrollText /\ editor'.viewport = "end"
  BY <1>6, ScrollDecides DEF Will
<1>7. QED BY <1>2, <1>3, <1>4, <1>5, <1>6 DEF GoesToEnd

\* What leaves the end stops it, but for a motion that is not above the last one.
LEMMA LeavingStops ==
  ASSUME IInv, Leaves, EditorOK(editor'), Will(buffer_view', editor', list')
  PROVE  MoveCursor /\ NotAboveLast
<1>1. CASE ScrollText /\ editor'.viewport = "above"
  BY <1>1, ScrollDecides DEF Will
<1>2. CASE Fold
  BY <1>2, ScrollDecides DEF Will
<1>3. CASE MoveCursor /\ editor'.cursor < editor.cursor
  <2>1. editor.cursor \in Nat /\ editor.cursor <= editor.doc /\ editor.doc \in Nat
    BY StateFacts DEF EditorOK, Editors
  <2>2. /\ buffer_view' /\ editor'.doc = editor.doc /\ editor'.cursor \in Nat
        /\ Follows(editor') => editor'.cursor = editor'.doc \/ NotAboveLast
    BY <1>3, MoveDecides
  <2>3. QED BY <1>3, <2>1, <2>2 DEF Will
<1>4. QED BY <1>1, <1>2, <1>3 DEF Leaves

\* A gesture in the list that makes it follow ends at the end.
LEMMA GestureDecides ==
  ASSUME IInv, RichGesture, list' \in Lists
  PROVE  /\ ~ buffer_view /\ ~ buffer_view'
         /\ list'.following => list.following \/ list'.at_end
<1>1. list \in Lists /\ ~ buffer_view
  BY StateFacts DEF TypeOK, Lists, RichGesture
<1>2. set_follow_mode_Tail.at_end = TRUE /\ \A l \in Reveal(list) : l.following = FALSE
  BY RevealStops DEF set_follow_mode_Tail
<1>3. list' = set_follow_mode_Tail \/ list' \in Reveal(list)
        => list'.at_end = TRUE \/ list'.following = FALSE
  BY <1>2
<1>4. /\ ~ buffer_view'
      /\ \/ list' = set_follow_mode_Tail \/ list' \in Reveal(list)
         \/ list'.following = FALSE \/ list'.following = list.following
  <2>1. CASE Wheel
    <3>1. /\ ~ buffer_view'
          /\ \/ list' = [following |-> FALSE, at_end |-> FALSE]
             \/ \E b \in BOOLEAN : list' = [list EXCEPT !.at_end = @ \/ b]
      BY <1>1, <2>1 DEF Wheel
    <3>3. CASE list' = [following |-> FALSE, at_end |-> FALSE]
      BY <3>1, <3>3
    <3>4. CASE \E b \in BOOLEAN : list' = [list EXCEPT !.at_end = @ \/ b]
      BY <1>1, <3>1, <3>4 DEF Lists
    <3>5. QED BY <3>1, <3>3, <3>4
  <2>2. CASE ScrollPage
    BY <1>1, <2>2 DEF ScrollPage, Lists
  <2>3. CASE move_selection
    BY <1>1, <2>3 DEF move_selection
  <2>4. CASE Click
    <3>1. PICK i \in 0..(count - 1), l \in Reveal(list) :
            list' = IF i = count - 1 THEN [l EXCEPT !.following = list.following] ELSE l
      BY <2>4 DEF Click
    <3>2. l \in Lists
      BY RevealStops
    <3>3. QED BY <1>1, <2>4, <3>1, <3>2 DEF Click, Lists
  <2>5. CASE GoTop \/ GoBottom
    BY <1>1, <2>5 DEF GoTop, GoBottom
  <2>6. CASE commit_search
    <3>1. UNCHANGED list \/ list' \in Reveal(list)
      BY <2>6 DEF commit_search, Jump
    <3>2. QED BY <1>1, <2>6, <3>1 DEF commit_search
  <2>7. CASE move_search_match
    BY <1>1, <2>7 DEF move_search_match, Jump
  <2>8. CASE close_search
    <3>1. PICK l \in Reveal(list) : list' = [l EXCEPT !.following = list.following]
      BY <1>1, <2>8 DEF close_search
    <3>2. l \in Lists
      BY RevealStops
    <3>3. QED BY <1>1, <2>8, <3>1, <3>2 DEF close_search, Lists
  <2>9. QED BY <2>1, <2>2, <2>3, <2>4, <2>5, <2>6, <2>7, <2>8 DEF RichGesture
<1>5. QED BY <1>1, <1>3, <1>4

\* Cards that change leave it to the visible view, unless a gesture waits for its frame, or
\* the end of the list comes into view.
LEMMA CardsDecide ==
  ASSUME IInv, list' \in Lists, NewCard \/ Replaces \/ Disclose
  PROVE  /\ buffer_view' = buffer_view
         /\ ~ Will(buffer_view, editor, list) /\ Will(buffer_view', editor', list')
              => ~ NewCard /\ IF buffer_view THEN Undecided ELSE list'.at_end
         /\ Will(buffer_view, editor, list) /\ ~ Will(buffer_view', editor', list')
              => Undecided
<1>1. /\ count \in Nat /\ list \in Lists /\ EditorOK(editor) /\ buffer_view \in BOOLEAN
      /\ (buffer_view => editor.doc = count) /\ MaxItems \in Nat
  BY StateFacts DEF TypeOK, DocInSync, Lists
<1>2. buffer_view' = buffer_view
  BY DEF NewCard, NewTexts, Batch, Replaces, ResetRefresh, OpenThread, Disclose
<1>3. CASE buffer_view
  <2>1. \/ NewCard
        \/ \E n \in Nat : \/ editor.doc <= n /\ \E dirty : editor' \in Changed(editor, n, dirty)
                          \/ editor' \in Replace(editor, n)
    <3>1. CASE NewTexts
      <4>1. PICK new \in 0..1, dirty \in SUBSET (0..(count - 1)) : /\ count' = count + new
                                       /\ editor' \in Sync(Changed(editor, count', dirty))
        BY <3>1 DEF NewTexts, Batch
      <4>2. count' \in Nat /\ editor.doc <= count' /\ editor' \in Changed(editor, count', dirty)
        BY <1>1, <1>3, <4>1 DEF Sync
      <4>3. QED BY <4>2
    <3>2. CASE ResetRefresh
      BY <1>1, <1>3, <3>2 DEF ResetRefresh, Sync
    <3>3. CASE OpenThread
      BY <1>3, <3>3 DEF OpenThread, Sync
    <3>4. CASE Disclose
      BY <1>3, <3>4 DEF Disclose
    <3>5. QED BY <3>1, <3>2, <3>3, <3>4 DEF Replaces
  <2>2. NewCard => /\ editor' \in Changed(editor, count', {}) /\ count' \in Nat
                   /\ editor.doc <= count'
    BY <1>1, <1>3 DEF NewCard, Batch, Sync
  <2>3. /\ EditorOK(editor') /\ editor'.follow_tail = editor.follow_tail
        /\ editor'.pending_tail_intent = editor.pending_tail_intent
    BY <1>1, <2>1, <2>2, ChangedKeeps, ReplaceKeeps
  <2>4. NewCard /\ Follows(editor') => Follows(editor)
    BY <1>1, <2>2, AddedPullsNot
  <2>5. editor.pending_tail_intent = "None" => Follows(editor') = Follows(editor)
    BY <1>1, <2>3, FollowsIs
  <2>6. QED BY <1>2, <1>3, <2>4, <2>5 DEF Will, Undecided
<1>4. CASE ~ buffer_view
  <2>1. \/ list' = set_follow_mode_Tail /\ ~ NewCard /\ list.following
        \/ /\ list'.following = list.following
           /\ NewCard /\ list'.at_end => list.at_end \/ list.following
    <3>1. ASSUME NEW shorter, list' \in Splice(list, shorter)
          PROVE  /\ list'.following = list.following
                 /\ ~ shorter /\ list'.at_end => list.at_end \/ list.following
      <4>1. PICK b \in IF list.at_end \/ list.following \/ shorter THEN BOOLEAN ELSE {FALSE} :
              list' = [list EXCEPT !.at_end = b]
        BY <1>4, <3>1 DEF Splice
      <4>2. list'.following = list.following /\ list'.at_end = b
        BY <1>1, <4>1 DEF Lists
      <4>3. QED BY <4>1, <4>2
    <3>2. CASE NewCard
      <4>1. list' \in Splice(list, {} # {})
        BY <3>2 DEF NewCard, Batch
      <4>2. QED BY <3>1, <4>1
    <3>3. CASE ~ NewCard /\ (NewTexts \/ Disclose)
      <4>1. \E shorter : list' \in Splice(list, shorter)
        BY <3>3 DEF NewTexts, Batch, Disclose
      <4>2. QED BY <3>1, <3>3, <4>1
    <3>4. CASE ~ NewCard /\ ResetRefresh
      <4>1. IF list.following THEN list' = set_follow_mode_Tail
            ELSE \E b : list' = [list EXCEPT !.at_end = b]
        BY <1>4, <3>4 DEF ResetRefresh
      <4>2. QED BY <1>1, <3>4, <4>1 DEF Lists
    <3>5. CASE ~ NewCard /\ OpenThread
      BY <1>1, <3>5 DEF OpenThread, Lists
    <3>6. QED BY <3>2, <3>3, <3>4, <3>5 DEF Replaces
  <2>2. QED BY <1>1, <1>2, <1>4, <2>1 DEF Will, Undecided, set_follow_mode_Tail, Lists
<1>5. QED BY <1>1, <1>3, <1>4

\* What a step may do to a view that follows, or does not.
LEMMA StepFollow ==
  ASSUME IInv, [Next]_vars, list' \in Lists, EditorOK(editor')
  PROVE  /\ ~ Will(buffer_view, editor, list) /\ Will(buffer_view', editor', list')
              => FollowsAgain
         /\ Will(buffer_view, editor, list) /\ ~ Will(buffer_view', editor', list')
              => StopsFollowing
<1> DEFINE was == Will(buffer_view, editor, list)
           will == Will(buffer_view', editor', list')
<1>1. /\ count \in Nat /\ list \in Lists /\ buffer_view \in BOOLEAN /\ EditorOK(editor)
      /\ selected_item \in Nat /\ (~ buffer_view /\ count = 0 => list.at_end)
      /\ editor \in Editors /\ editor.doc \in Nat /\ editor.cursor \in Nat
      /\ editor.cursor <= editor.doc
  BY StateFacts DEF TypeOK, EmptyAtEnd, Lists, Editors, EditorOK
<1>2. CASE was <=> will
  BY <1>2
<1>3. CASE /\ UNCHANGED <<buffer_view, editor>>
           /\ buffer_view \/ list' = list
  BY <1>2, <1>3 DEF Will
<1>4. CASE ApplyBatch \/ Disclose \/ ResetRefresh \/ OpenThread
  <2>1. NewCard \/ Replaces \/ Disclose
    BY <1>4 DEF ApplyBatch, Replaces
  <2>2. /\ buffer_view' = buffer_view
        /\ ~ was /\ will => ~ NewCard /\ IF buffer_view THEN Undecided ELSE list'.at_end
        /\ was /\ ~ will => Undecided
    BY <1>1, <2>1, CardsDecide DEF Lists
  <2>3. ASSUME ~ was, will PROVE FollowsAgain
    <3>1. Disclose => ~ buffer_view
      BY DEF Disclose
    <3>2. QED BY <2>1, <2>2, <2>3, <3>1 DEF FollowsAgain
  <2>4. ASSUME was, ~ will PROVE StopsFollowing
    BY <2>1, <2>2, <2>4 DEF StopsFollowing
  <2>5. QED BY <2>3, <2>4
<1>5. CASE LoadThread \/ Send
  <2>1. GoesToEnd
    BY <1>5 DEF GoesToEnd
  <2>2. QED BY <2>1, EndFollows DEF FollowsAgain
<1>6. CASE RichGesture
  <2>1. /\ ~ buffer_view /\ ~ buffer_view'
        /\ list'.following => list.following \/ list'.at_end
    BY <1>6, GestureDecides
  <2>2. QED BY <1>6, <2>1 DEF Will, FollowsAgain, StopsFollowing
<1>7. CASE MoveCursor
  <2>1. /\ buffer_view /\ buffer_view' /\ editor'.doc = editor.doc
        /\ editor'.cursor \in Nat /\ editor'.cursor <= editor'.doc
        /\ Follows(editor') <=> \/ editor'.cursor = editor'.doc
                                \/ /\ editor'.pending_tail_intent = "SelectionFollowing"
                                   /\ NotAboveLast
        /\ editor.pending_tail_intent = "None"
             => (editor'.pending_tail_intent = "SelectionFollowing" <=> editor.follow_tail)
        /\ editor.pending_tail_intent \in Selections
             => editor'.pending_tail_intent = editor.pending_tail_intent
        /\ editor.pending_tail_intent = "DirectScroll"
             => editor'.pending_tail_intent = "SelectionPaused"
    BY <1>7, MoveDecides
  <2>2. (was <=> Follows(editor)) /\ (will <=> Follows(editor'))
    BY <2>1 DEF Will
  <2>3. editor.pending_tail_intent \in {"None", "DirectScroll"} \cup Selections
    BY <1>1 DEF Editors
  <2>4. editor.pending_tail_intent = "None" => Follows(editor) = editor.follow_tail
    BY <1>1, FollowsIs
  <2>5. editor.pending_tail_intent \in Selections =>
          (Follows(editor) <=>
             \/ editor.cursor = editor.doc
             \/ /\ editor.pending_tail_intent = "SelectionFollowing"
                /\ \E previous \in editor.last_selection_head : editor.cursor >= previous)
    BY <1>1, FollowsIs DEF follow_tail_after_selection
  <2>6. ASSUME ~ was, will PROVE FollowsAgain
    <3>1. CASE editor'.cursor = editor'.doc
      BY <1>7, <3>1 DEF FollowsAgain, GoesToEnd
    <3>2. CASE editor'.cursor # editor'.doc
      <4>1. editor'.pending_tail_intent = "SelectionFollowing" /\ NotAboveLast
        BY <2>1, <2>2, <2>6, <3>2
      <4>2. editor.pending_tail_intent = "SelectionFollowing"
        BY <2>1, <2>2, <2>3, <2>4, <2>6, <4>1 DEF Selections
      <4>3. PICK previous \in editor.last_selection_head : editor'.cursor >= previous
        BY <4>1 DEF NotAboveLast
      <4>4. ~ (editor.cursor >= previous) /\ previous \in Nat
        BY <1>1, <2>2, <2>5, <2>6, <4>2, <4>3 DEF Selections, Editors
      <4>5. editor'.cursor > editor.cursor
        BY <1>1, <2>1, <4>3, <4>4
      <4>6. QED BY <1>7, <4>1, <4>2, <4>5 DEF FollowsAgain
    <3>3. QED BY <3>1, <3>2
  <2>7. ASSUME was, ~ will PROVE StopsFollowing
    <3>1. CASE editor'.cursor < editor.cursor
      BY <1>7, <3>1 DEF StopsFollowing, Leaves
    <3>2. CASE editor.pending_tail_intent = "DirectScroll" \/ ~ NotAboveLast
      BY <1>7, <3>2 DEF StopsFollowing
    <3>3. CASE /\ ~ (editor'.cursor < editor.cursor) /\ NotAboveLast
               /\ editor.pending_tail_intent # "DirectScroll"
      <4>1. editor'.cursor # editor'.doc /\ editor'.pending_tail_intent # "SelectionFollowing"
        BY <2>1, <2>2, <2>7, <3>3
      <4>2. editor.pending_tail_intent # "None"
        BY <2>1, <2>2, <2>4, <2>7, <4>1
      <4>3. editor.pending_tail_intent \in Selections
        BY <2>3, <3>3, <4>2
      <4>4. editor.cursor = editor.doc
        BY <2>1, <2>2, <2>5, <2>7, <4>1, <4>3
      <4>5. QED BY <1>1, <2>1, <3>3, <4>1, <4>4
    <3>4. QED BY <3>1, <3>2, <3>3
  <2>8. QED BY <2>6, <2>7
<1>8. CASE ScrollText
  <2>1. /\ buffer_view' /\ (Follows(editor') <=> editor'.viewport # "above")
    BY <1>8, ScrollDecides
  <2>2. editor'.viewport \in {"above", "end"}
    <3>1. PICK v \in {"above", "end"} : editor' = DirectScroll(editor, v)
      BY <1>8 DEF ScrollText
    <3>2. QED BY <1>1, <3>1, ScrollWaits
  <2>3. QED
    BY <1>8, <2>1, <2>2 DEF Will, FollowsAgain, StopsFollowing, GoesToEnd, Leaves
<1>9. CASE Fold
  <2>1. buffer_view' /\ ~ Follows(editor')
    BY <1>9, ScrollDecides
  <2>2. QED BY <1>9, <2>1 DEF Will, StopsFollowing, Leaves
<1>10. CASE show_rich_transcript
  <2>1. /\ buffer_view /\ ~ buffer_view'
        /\ IF editor.follow_tail THEN list' = set_follow_mode_Tail ELSE list' \in Reveal(list)
    BY <1>10 DEF show_rich_transcript
  <2>2. /\ editor.follow_tail => list'.following = TRUE
        /\ ~ editor.follow_tail => list'.following = FALSE
    <3>1. set_follow_mode_Tail.following = TRUE /\ \A l \in Reveal(list) : l.following = FALSE
      BY RevealStops DEF set_follow_mode_Tail
    <3>2. QED BY <2>1, <3>1
  <2>3. editor.pending_tail_intent = "None" => Follows(editor) = editor.follow_tail
    BY <1>1, FollowsIs
  <2>4. editor.pending_tail_intent # "None" => ~ editor.follow_tail /\ Undecided
    BY <1>1, <2>1 DEF EditorOK, Undecided
  <2>5. ASSUME ~ was, will PROVE FollowsAgain
    <3>1. ~ editor.follow_tail
      BY <2>1, <2>3, <2>4, <2>5 DEF Will
    <3>2. list'.at_end
      BY <2>1, <2>2, <2>5, <3>1 DEF Will
    <3>3. QED BY <1>10, <2>1, <3>2 DEF FollowsAgain
  <2>6. ASSUME was, ~ will PROVE StopsFollowing
    <3>1. editor.pending_tail_intent # "None"
      BY <2>1, <2>2, <2>3, <2>6 DEF Will
    <3>2. QED BY <1>10, <2>4, <3>1 DEF StopsFollowing
  <2>7. QED BY <2>5, <2>6
<1>11. CASE toggle_buffer_view
  <2>1. ~ buffer_view /\ buffer_view'
    BY <1>11 DEF toggle_buffer_view
  <2>2. /\ should_follow_tail => Follows(editor')
        /\ ~ should_follow_tail /\ count > 0 => ~ Follows(editor')
    BY <1>1, <1>11, ToggleEditor
  <2>3. ASSUME ~ was, will PROVE FollowsAgain
    <3>1. ~ list.following /\ ~ list.at_end /\ count > 0
      BY <1>1, <2>1, <2>3 DEF Will
    <3>2. QED BY <2>1, <2>2, <2>3, <3>1 DEF should_follow_tail, Will
  <2>4. ASSUME was, ~ will PROVE StopsFollowing
    <3>1. ~ should_follow_tail /\ (list.following \/ list.at_end)
      BY <2>1, <2>2, <2>4 DEF Will
    <3>2. CASE list.following
      <4>1. selected_item + 1 < count
        BY <1>1, <3>1, <3>2 DEF should_follow_tail
      <4>2. QED BY <1>11, <4>1 DEF StopsFollowing
    <3>3. CASE ~ list.following
      BY <1>11, <2>1, <3>1, <3>3 DEF StopsFollowing, Undecided
    <3>4. QED BY <3>2, <3>3
  <2>5. QED BY <2>3, <2>4
<1>12. CASE commit_search \/ move_search_match \/ close_search
  <2>1. CASE buffer_view
    BY <1>3, <1>12, <2>1 DEF commit_search, move_search_match, close_search
  <2>2. CASE ~ buffer_view
    BY <1>6, <1>12, <2>2 DEF RichGesture
  <2>3. QED BY <2>1, <2>2
<1>13. CASE Frame
  <2>1. CASE buffer_view /\ editor.viewport = "beyond"
    BY <1>13, <2>1 DEF FollowsAgain, StopsFollowing, ScrollsBack
  <2>2. CASE buffer_view /\ editor.viewport # "beyond"
    <3> DEFINE d == NextFrame(editor)
    <3>1. editor' \in EditorLayout(d) /\ buffer_view'
      BY <1>13, <2>2 DEF Frame
    <3>2. /\ EditorOK(d) /\ d.pending_tail_intent = "None" /\ d.viewport # "beyond"
          /\ Follows(d) = Follows(editor)
      BY <1>1, <2>2, FrameDecides
    <3> HIDE DEF d
    <3>3. /\ EditorOK(editor') /\ editor'.follow_tail = d.follow_tail
          /\ editor'.pending_tail_intent = "None"
      BY <3>1, <3>2, LayoutKeeps
    <3>4. Follows(editor') = Follows(editor)
      BY <3>2, <3>3, FollowsIs
    <3>5. QED BY <1>2, <2>2, <3>1, <3>4 DEF Will
  <2>3. CASE ~ buffer_view
    <3>1. list' = ListLayout(list) /\ ~ buffer_view'
      BY <1>13, <2>3 DEF Frame
    <3>2. list'.following \/ list'.at_end <=> list.following \/ list.at_end
      BY <1>1, <3>1 DEF ListLayout, set_follow_mode_Tail, Lists
    <3>3. QED BY <1>2, <2>3, <3>1, <3>2 DEF Will
  <2>4. QED BY <1>1, <2>1, <2>2, <2>3
<1>14. CASE open_search \/ UNCHANGED vars
  BY <1>3, <1>14 DEF open_search, vars
<1>15. CASE Wheel \/ ScrollPage \/ move_selection \/ Click \/ GoTop \/ GoBottom
  <2>1. RichGesture
    BY <1>15 DEF RichGesture, Wheel, ScrollPage, move_selection, Click, GoTop, GoBottom
  <2>2. QED BY <1>6, <2>1
<1>16. QED
  BY <1>4, <1>5, <1>7, <1>8, <1>9, <1>10, <1>11, <1>12, <1>13, <1>14, <1>15 DEF Next

----------------------------------------------------------------------------
(* The invariant is inductive.                                             *)

\* The first view is at the end of an empty transcript.
LEMMA InitIInv == Init => IInv
<1> SUFFICES ASSUME Init PROVE IInv
  OBVIOUS
<1>1. /\ count = 0 /\ hits = {} /\ buffer_view \in BOOLEAN /\ selected_item = 0
      /\ list = set_follow_mode_Tail /\ search = NoSearch
      /\ editor = IF buffer_view THEN reveal_tail(NewEditor) ELSE NewEditor
  BY DEF Init
<1>2. EditorOK(NewEditor) /\ NewEditor.doc = 0
  BY DEF EditorOK, Editors, NewEditor, Selections
<1>3. /\ EditorOK(editor) /\ editor.doc = 0
      /\ buffer_view => editor.follow_tail /\ editor.pending_tail_intent = "None"
  BY <1>1, <1>2, RevealFollows
<1>4. list \in Lists /\ list.following = TRUE /\ list.at_end = TRUE
  BY <1>1 DEF set_follow_mode_Tail, Lists
<1>5. SearchOK(search)
  BY <1>1, NoSearchOK
<1>6. TypeOK
  <2>1. count \in 0..MaxItems /\ hits \subseteq 0..(count - 1)
    BY <1>1, MaxItemsAssumption
  <2>2. QED BY <1>1, <1>3, <1>4, <1>5, <2>1 DEF TypeOK, EditorOK, SearchOK, Lists
<1>7. ActiveInRange
  BY <1>5, <1>6, SearchParts
<1>8. EmptyAtEnd /\ DocInSync
  BY <1>1, <1>3, <1>4 DEF EmptyAtEnd, DocInSync
<1>9. QED BY <1>3, <1>6, <1>7, <1>8 DEF IInv, ViewInv

\* Whether the Text view is visible.
LEMMA StepView ==
  ASSUME buffer_view \in BOOLEAN, [Next]_vars
  PROVE  buffer_view' \in BOOLEAN
  BY DEF Next, vars, ApplyBatch, NewCard, NewTexts, Batch, Disclose, ResetRefresh, OpenThread,
         LoadThread, Send, Wheel, ScrollPage, move_selection, Click, GoTop, GoBottom,
         MoveCursor, ScrollText, Fold,
         show_rich_transcript, toggle_buffer_view, open_search, commit_search, close_search,
         move_search_match, Frame

\* Every step keeps it.
LEMMA StepIInv == IInv /\ [Next]_vars => IInv'
<1> SUFFICES ASSUME IInv, [Next]_vars PROVE IInv'
  OBVIOUS
<1>1. SearchOK(search') /\ EditorOK(editor') /\ DocInSync' /\ EmptyAtEnd' /\ list' \in Lists
  BY StepSearch, StepEditor, StepEmpty, StepList DEF Lists
<1>2. count' \in 0..MaxItems /\ hits' \subseteq 0..(count' - 1) /\ selected_item' \in Nat
  BY StepCards, StepSelected
<1>3. buffer_view' \in BOOLEAN
  BY StateFacts, StepView DEF TypeOK
<1>4. TypeOK'
  BY <1>1, <1>2, <1>3 DEF TypeOK, EditorOK, SearchOK, Lists
<1>5. ActiveInRange'
  <2>1. (TypeOK => (ActiveInRange <=> SearchOK(search)))'
    BY SearchParts, PTL
  <2>2. QED BY <1>1, <1>4, <2>1
<1>6. QED BY <1>1, <1>4, <1>5 DEF IInv, ViewInv

----------------------------------------------------------------------------
(* The theorems.                                                           *)

\* The invariant holds in every reachable state, whatever the number of cards.
LEMMA AlwaysIInv == Spec => []IInv
  BY InitIInv, StepIInv, PTL DEF Spec

\* Before and after a step, WillFollow is about the view that Will is about.
LEMMA FollowSteps ==
  ASSUME IInv, [Next]_vars
  PROVE  /\ WillFollow <=> Will(buffer_view, editor, list)
         /\ WillFollow' <=> Will(buffer_view', editor', list')
         /\ list' \in Lists /\ EditorOK(editor')
<1>1. list \in Lists /\ buffer_view \in BOOLEAN
  BY StateFacts DEF TypeOK, Lists
<1>2. list' \in Lists /\ EditorOK(editor')
  BY StepList, StepEditor DEF Lists
<1>3. WillFollow <=> Will(buffer_view, editor, list)
  BY <1>1, WillParts DEF WillFollow, Follows
<1>4. WillFollow' <=> Will(buffer_view', editor', list')
  BY <1>2, WillParts DEF WillFollow, Follows
<1>5. QED BY <1>2, <1>3, <1>4

\* A user who left the end is not pulled back to it, except in the cases that ReaderNotPulled
\* names: a motion that is taken back, an end that comes into view, a text replaced between a
\* gesture and its frame, an editor past its end.
THEOREM ReaderIsNotPulled == Spec => ReaderNotPulled
<1> DEFINE Kept == /\ WillFollow' /\ Leaves => MoveCursor /\ NotAboveLast
                   /\ ~WillFollow /\ WillFollow' => FollowsAgain
<1>1. IInv /\ [Next]_vars => [Kept]_vars
  <2>1. SUFFICES ASSUME IInv, [Next]_vars PROVE Kept
    OBVIOUS
  <2>2. /\ WillFollow <=> Will(buffer_view, editor, list)
        /\ WillFollow' <=> Will(buffer_view', editor', list')
        /\ list' \in Lists /\ EditorOK(editor')
    BY <2>1, FollowSteps
  <2>3. QED BY <2>1, <2>2, LeavingStops, StepFollow
<1>2. QED BY <1>1, AlwaysIInv, PTL DEF Spec, ReaderNotPulled

\* A user who goes to the end, opens a task or sends a message is kept at the end, except in
\* the cases that ReaderPinned names: what comes between a gesture and its frame, a motion to
\* elsewhere, a switch to the Text view above the last card, an editor past its end.
THEOREM ReaderIsPinned == Spec => ReaderPinned
<1> DEFINE Kept == /\ ~WillFollow' => ~GoesToEnd
                   /\ WillFollow /\ ~WillFollow' => StopsFollowing
<1>1. IInv /\ [Next]_vars => [Kept]_vars
  <2>1. SUFFICES ASSUME IInv, [Next]_vars PROVE Kept
    OBVIOUS
  <2>2. /\ WillFollow <=> Will(buffer_view, editor, list)
        /\ WillFollow' <=> Will(buffer_view', editor', list')
        /\ list' \in Lists /\ EditorOK(editor')
    BY <2>1, FollowSteps
  <2>3. QED BY <2>1, <2>2, EndFollows, StepFollow
<1>2. QED BY <1>1, AlwaysIInv, PTL DEF Spec, ReaderPinned

\* The visible text has every card: sync_transcript_document is left out nowhere.
THEOREM TextInSync == Spec => []DocInSync
<1>1. IInv => DocInSync
  BY DEF IInv, ViewInv
<1>2. QED BY <1>1, AlwaysIInv, PTL

\* The matches of a search are sorted and the active one is one of them, after any order of
\* update_search_matches_for_changes, rebuild_search_matches, jumps and loads.
THEOREM ActiveMatchInRange == Spec => []ActiveInRange
<1>1. IInv => ActiveInRange
  BY DEF IInv
<1>2. QED BY <1>1, AlwaysIInv, PTL

\* A selection of a card that exists is kept on one by every handler, except by a jump to a
\* match that is older than the transcript.
THEOREM SelectionStaysOnCard == Spec => SelectionKept
<1> DEFINE Kept == selected_item <= Last0(count) /\ selected_item' > Last0(count')
                     => count' = count /\ selected_item' \in Range(search.matches)
<1>1. IInv /\ [Next]_vars => [Kept]_vars
  <2>1. SUFFICES ASSUME IInv, [Next]_vars PROVE Kept
    OBVIOUS
  <2>2. SUFFICES ASSUME selected_item <= Last0(count), selected_item' > Last0(count')
                 PROVE  count' = count /\ selected_item' \in Range(search.matches)
    OBVIOUS
  <2>3. /\ selected_item' \in Nat
        /\ \/ selected_item' <= Last0(count')
           \/ selected_item' = selected_item /\ Last0(count) <= Last0(count')
           \/ count' = count /\ selected_item' \in Range(search.matches)
    BY <2>1, StepSelected
  <2>4. Last0(count) \in Nat /\ Last0(count') \in Nat
    BY <2>1, StateFacts, StepCards DEF Last0
  <2>5. QED BY <2>2, <2>3, <2>4
<1>2. QED BY <1>1, AlwaysIInv, PTL DEF Spec, SelectionKept

\* Matches that were right stay right: the incremental update of apply_event_batch finds
\* what a new search would, for any batch.
THEOREM SearchStaysExact == Spec => SearchKept
<1> DEFINE Kept == SearchIsExact /\ ~ SearchIsExact'
                     => \/ OpenThread \/ LoadThread \/ Send
                        \/ (commit_search /\ search.in_buffer)
<1>1. IInv /\ [Next]_vars => [Kept]_vars
  <2>1. SUFFICES ASSUME IInv, [Next]_vars, SearchIsExact,
                        ~ (\/ OpenThread \/ LoadThread \/ Send
                           \/ (commit_search /\ search.in_buffer))
                 PROVE  SearchIsExact'
    OBVIOUS
  <2>2. /\ SearchOK(search) /\ count \in Nat /\ count <= MaxItems /\ MaxItems \in Nat
        /\ hits \subseteq 0..(count - 1) /\ selected_item' \in Nat
        /\ 0..(count - 1) \subseteq Cards
        /\ search \in [query : BOOLEAN, matches : Seq(Cards), active : Nat,
                       in_buffer : BOOLEAN]
        /\ (search.query => Range(search.matches) = hits)
        /\ count' \in 0..MaxItems /\ hits' \subseteq 0..(count' - 1)
    BY <2>1, StateFacts, StepCards, StepSelected DEF TypeOK, SearchIsExact
  <2>3. CASE ~ search'.query
    BY <2>3 DEF SearchIsExact
  <2>4. CASE search'.query = search.query /\ search'.matches = search.matches /\ hits' = hits
    BY <2>2, <2>4 DEF SearchIsExact
  <2>5. CASE ApplyBatch
    <3>1. PICK new \in 0..1, dirty \in SUBSET (0..(count - 1)) :
            /\ count' = count + new
            /\ \E found \in Found(dirty \cup count..(count + new - 1)) :
                 hits' = (hits \ dirty) \cup found
            /\ search' = IF search.query
                         THEN update_search_matches_for_changes(search, count', hits', count,
                                                                dirty, selected_item')
                         ELSE search
      BY <2>2, <2>5, BatchOf DEF Batch
    <3>2. CASE ~ search.query
      BY <2>3, <3>1, <3>2
    <3>3. CASE search.query
      <4> DEFINE changed == dirty \cup count..(count' - 1)
      <4>1. PICK found : found \subseteq changed /\ hits' = (hits \ dirty) \cup found
        <5>1. count' - 1 = count + new - 1
          BY <2>2, <3>1
        <5>2. QED BY <3>1, <5>1 DEF Found
      <4>2. count \in 0..count' /\ 0..(count - 1) \subseteq 0..(count' - 1)
        BY <2>2, <3>1
      <4>3. /\ search' = update_search_matches_for_changes(search, count', hits', count, dirty,
                                                           selected_item')
            /\ dirty \subseteq 0..(count - 1)
        BY <3>1, <3>3
      <4>4. Range(search'.matches) = ((Range(search.matches) \cap 0..(count' - 1)) \ changed)
                                       \cup (changed \cap hits')
        <5>1. Updated(search', search, count', hits', changed)
          BY <2>2, <4>2, <4>3, UpdateSound
        <5>2. QED BY <5>1 DEF Updated
      <4>5. dirty \subseteq changed
        OBVIOUS
      <4> HIDE DEF changed
      <4>6. (hits \cap 0..(count' - 1)) = hits
        BY <2>2, <4>2
      <4>7. (hits \ changed) \cup (changed \cap hits') = hits'
        BY <4>1, <4>5
      <4>8. Range(search'.matches) = hits'
        BY <2>2, <3>3, <4>4, <4>6, <4>7
      <4>9. QED BY <4>8 DEF SearchIsExact
    <3>4. QED BY <3>2, <3>3
  <2>6. CASE ResetRefresh
    <3>1. CASE ~ search.query
      BY <2>3, <2>6, <3>1 DEF ResetRefresh
    <3>2. CASE search.query
      <4>1. search' = rebuild_search_matches(search, hits')
        BY <2>6, <3>2 DEF ResetRefresh
      <4>2. hits' \subseteq Cards
        BY <2>2, CardsAre
      <4>3. QED BY <2>2, <3>2, <4>1, <4>2, RebuildSound DEF SearchIsExact
    <3>3. QED BY <3>1, <3>2
  <2>7. CASE commit_search
    BY <2>1, <2>2, <2>7, CommitFinds DEF SearchIsExact
  <2>8. CASE close_search \/ toggle_buffer_view
    BY <2>3, <2>4, <2>8, NoSearchOK DEF close_search, toggle_buffer_view
  <2>9. CASE open_search \/ show_rich_transcript \/ move_search_match
    BY <2>2, <2>4, <2>9 DEF open_search, show_rich_transcript, move_search_match, Jump
  <2>10. CASE \/ Wheel \/ ScrollPage \/ move_selection \/ Click \/ GoTop \/ GoBottom
              \/ MoveCursor \/ ScrollText \/ Fold \/ Frame \/ Disclose \/ UNCHANGED vars
    BY <2>4, <2>10
       DEF Disclose, Wheel, ScrollPage, move_selection, Click, GoTop, GoBottom, MoveCursor,
           ScrollText, Fold, Frame, vars
  <2>11. QED BY <2>1, <2>5, <2>6, <2>7, <2>8, <2>9, <2>10 DEF Next
<1>2. QED BY <1>1, AlwaysIInv, PTL DEF Spec, SearchKept

\* Streaming does not move the user to another match: update_search_matches_for_changes
\* finds the card of the active match again, for any batch.
THEOREM ActiveMatchStays == Spec => ActiveStays
<1> DEFINE Stays == /\ search.matches # <<>> /\ search'.matches # <<>>
                    /\ ActiveCard' # ActiveCard /\ ActiveCard \in Range(search'.matches)
                    => (count' = count /\ selected_item' = ActiveCard') \/ ResetRefresh
<1>1. IInv /\ [Next]_vars => [Stays]_vars
  <2>1. SUFFICES ASSUME IInv, [Next]_vars, search.matches # <<>>, search'.matches # <<>>,
                        ActiveCard' # ActiveCard, ActiveCard \in Range(search'.matches)
                 PROVE  (count' = count /\ selected_item' = ActiveCard') \/ ResetRefresh
    OBVIOUS
  <2>2. /\ SearchOK(search) /\ count \in Nat /\ count <= MaxItems /\ MaxItems \in Nat
        /\ selected_item' \in Nat
        /\ search \in [query : BOOLEAN, matches : Seq(Cards), active : Nat,
                       in_buffer : BOOLEAN]
    BY <2>1, StateFacts, StepSelected DEF TypeOK
  <2>3. CASE search'.matches = search.matches /\ search'.active = search.active
    BY <2>1, <2>3 DEF ActiveCard
  <2>4. CASE search' = NoSearch
    BY <2>1, <2>4, NoSearchOK
  <2>5. CASE ApplyBatch
    <3>1. PICK new \in 0..1, dirty \in SUBSET (0..(count - 1)) :
            /\ count + new <= MaxItems /\ count' = count + new
            /\ search' = IF search.query
                         THEN update_search_matches_for_changes(search, count', hits', count,
                                                                dirty, selected_item')
                         ELSE search
      BY <2>2, <2>5, BatchOf DEF Batch
    <3>2. CASE ~ search.query
      BY <2>3, <3>1, <3>2
    <3>3. CASE search.query
      <4>1. count' \in 0..MaxItems /\ count \in 0..count'
        BY <2>2, <3>1
      <4>2. /\ search' = update_search_matches_for_changes(search, count', hits', count, dirty,
                                                           selected_item')
            /\ dirty \subseteq 0..(count - 1)
            /\ search.matches[search.active + 1] \in Range(search'.matches)
        BY <2>1, <3>1, <3>3 DEF ActiveCard
      <4>3. search'.matches[search'.active + 1] = search.matches[search.active + 1]
        <5>1. Updated(search', search, count', hits', dirty \cup count..(count' - 1))
          BY <2>2, <4>1, <4>2, UpdateSound
        <5>2. QED BY <2>1, <4>2, <5>1 DEF Updated
      <4>4. QED BY <2>1, <4>3 DEF ActiveCard
    <3>4. QED BY <3>2, <3>3
  <2>6. CASE commit_search
    <3>1. count' = count
      BY <2>6 DEF commit_search
    <3>2. PICK q \in BOOLEAN :
            LET s == rebuild_search_matches([search EXCEPT !.query = q], hits')
                p == PartitionPoint(s.matches, selected_item)
            IN  IF search.in_buffer \/ s.matches = <<>>
                THEN search' = IF search.in_buffer THEN [search EXCEPT !.query = q] ELSE s
                ELSE Jump([s EXCEPT !.active = IF p = Len(s.matches) THEN 0 ELSE p])
      BY <2>6 DEF commit_search
    <3> DEFINE s == rebuild_search_matches([search EXCEPT !.query = q], hits')
               p == PartitionPoint(s.matches, selected_item)
               t == [s EXCEPT !.active = IF p = Len(s.matches) THEN 0 ELSE p]
    <3>3. \/ search' = [search EXCEPT !.query = q]
          \/ search' = s /\ s.matches = <<>>
          \/ Jump(t)
      BY <3>2
    <3> HIDE DEF t, s
    <3>4. QED BY <2>1, <2>2, <2>3, <3>1, <3>3 DEF Jump, ActiveCard
  <2>7. CASE move_search_match
    BY <2>7 DEF move_search_match, Jump, ActiveCard
  <2>8. CASE close_search \/ toggle_buffer_view
    BY <2>3, <2>4, <2>8 DEF close_search, toggle_buffer_view
  <2>9. CASE open_search \/ show_rich_transcript
    BY <2>2, <2>3, <2>9 DEF open_search, show_rich_transcript
  <2>10. CASE \/ OpenThread \/ LoadThread \/ Send
              \/ Wheel \/ ScrollPage \/ move_selection \/ Click \/ GoTop \/ GoBottom
              \/ MoveCursor \/ ScrollText \/ Fold \/ Frame \/ Disclose \/ UNCHANGED vars
    BY <2>3, <2>10
       DEF Disclose, OpenThread, LoadThread, Send, Wheel, ScrollPage, move_selection, Click, GoTop,
           GoBottom, MoveCursor, ScrollText, Fold, Frame, vars
  <2>11. CASE ResetRefresh
    BY <2>11
  <2>12. QED BY <2>1, <2>5, <2>6, <2>7, <2>8, <2>9, <2>10, <2>11 DEF Next
<1>2. QED BY <1>1, AlwaysIInv, PTL DEF Spec, ActiveStays
============================================================================
