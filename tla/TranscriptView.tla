--------------------------- MODULE TranscriptView ---------------------------
(***************************************************************************)
(* The two views of a transcript in HarnessApp: the Rich list of cards and *)
(* the Text editor, of which one is visible; whether each follows the tail *)
(* of a streaming transcript; the selected card; and the search for cards. *)
(*                                                                         *)
(* Of the cards only their number is kept and, while there is a query,     *)
(* which ones it occurs in.  A position in the text is a card, 0 .. doc-1, *)
(* or doc, its end; heights and rows are abstracted to where the viewport  *)
(* is with respect to the end.  A step is one handler of gpui, with the    *)
(* events of the editor that it causes, which are delivered before the     *)
(* next one; Frame is the drawing of a window, its callbacks first.        *)
(***************************************************************************)
EXTENDS Naturals, Sequences, FiniteSets, FiniteSetsExt, SequencesExt

CONSTANT MaxItems     \* bound: cards in a transcript

ASSUME MaxItemsAssumption == MaxItems \in Nat \ {0}

VARIABLES
  count,          \* how many cards the transcript has
  hits,           \* the cards the query occurs in, looked at while there is one
  buffer_view,    \* whether the Text view is the visible one
  selected_item,
  list,           \* the Rich list: does it follow, is it at the end
  editor,         \* the Text view, harness_editor's TranscriptEditor
  search          \* query, matches, active match, and whether it is the editor's

vars == <<count, hits, buffer_view, selected_item, list, editor, search>>

Last0(n) == IF n = 0 THEN 0 ELSE n - 1     \* saturating_sub(1)
AtMost(a, b) == IF a <= b THEN a ELSE b

-----------------------------------------------------------------------------
(* TranscriptEditor: the operations of harness_editor on its own state.    *)

Selections == {"SelectionFollowing", "SelectionPaused"}

NewEditor == [doc |-> 0, cursor |-> 0, follow_tail |-> FALSE,
              pending_tail_intent |-> "None", last_selection_head |-> {},
              viewport_refresh_pending |-> FALSE, viewport |-> "end",
              autoscroll |-> "None"]

request_tail_autoscroll(e) == [e EXCEPT !.autoscroll = "Tail"]

reveal_tail(e) ==
  request_tail_autoscroll([e EXCEPT !.follow_tail = TRUE, !.pending_tail_intent = "None",
                                    !.last_selection_head = {e.cursor}])

pause_tail_follow(e) == [e EXCEPT !.follow_tail = FALSE, !.pending_tail_intent = "None"]

reveal_row_at_top(e) == [pause_tail_follow(e) EXCEPT !.autoscroll = "Row"]

\* The handler of SelectionsChanged: pause at once, decide at the next frame.
note_local_selection(e) ==
  [e EXCEPT !.follow_tail = FALSE, !.viewport_refresh_pending = TRUE,
            !.pending_tail_intent = IF @ \in Selections THEN @
                                    ELSE IF e.follow_tail THEN "SelectionFollowing"
                                    ELSE "SelectionPaused"]

\* A move of the cursor, and the event that follows it when the selection changed.
SetCursor(e, c) == [e EXCEPT !.cursor = c, !.autoscroll = "Cursor"]
CursorEvent(old, e) ==
  {note_local_selection(e)} \cup (IF e.cursor = old.cursor THEN {e} ELSE {})

\* A scroll of the viewport by the user, or by the editor when its text got shorter.
DirectScroll(e, v) ==
  [e EXCEPT !.viewport = v, !.autoscroll = "None", !.follow_tail = FALSE,
            !.pending_tail_intent = "DirectScroll", !.viewport_refresh_pending = TRUE]

\* Mutant: any motion of a follower goes on following.
FollowAnyMotion(e, was_following) == e.cursor = e.doc \/ was_following

follow_tail_after_selection(e, was_following) ==
  \/ e.cursor = e.doc
  \/ was_following /\ \E previous \in e.last_selection_head : e.cursor >= previous

apply_pending_tail_intent(e) ==
  CASE e.pending_tail_intent = "None" -> e
    [] e.pending_tail_intent = "DirectScroll" ->
         [e EXCEPT !.pending_tail_intent = "None", !.follow_tail = e.viewport # "above"]
    [] OTHER ->
         [e EXCEPT !.pending_tail_intent = "None", !.last_selection_head = {e.cursor},
                   !.follow_tail = follow_tail_after_selection(
                                     e, e.pending_tail_intent = "SelectionFollowing")]

\* The callback of schedule_viewport_refresh.
NextFrame(e) ==
  IF e.viewport_refresh_pending
  THEN apply_pending_tail_intent([e EXCEPT !.viewport_refresh_pending = FALSE])
  ELSE e

\* The layout of the editor: what was asked of the viewport since the last one.
\* A viewport past the end is first put back by an ordinary scroll.
EditorLayout(e) ==
  LET f == IF e.viewport = "beyond" THEN DirectScroll(e, "end") ELSE e
      to == CASE e.autoscroll = "None" -> {f.viewport}
              [] e.autoscroll = "Tail" -> {"end"}
              [] e.autoscroll = "Cursor" /\ e.cursor = e.doc -> {"end"}
              [] OTHER -> {"above", "end"}
  IN  {[f EXCEPT !.viewport = v, !.autoscroll = "None"] : v \in to}

\* An edit of the text: it asks for the tail when it is followed.
edit(e) == IF e.follow_tail THEN request_tail_autoscroll(e) ELSE e

\* The text becomes that of n cards: those from e.doc on are new, and the dirty ones
\* have another text, a longer or a shorter one.  A cursor at the end stays there, its
\* anchor is biased to the right; one in a text that is replaced moves.  The last head
\* is only compared with the cursor, so that it need not move as well.
Shifted(e, n, p) == IF p = e.doc THEN n ELSE p
ChangedTo(e, n, v, c) ==
  edit([e EXCEPT !.doc = n, !.viewport = v, !.cursor = c,
                 !.last_selection_head = {IF p = e.cursor THEN c ELSE Shifted(e, n, p) : p \in @}])
Changed(e, n, dirty) ==
  LET moved == {c \in 0..n : e.cursor # e.doc /\ \E d \in dirty : d <= e.cursor /\ d <= c}
      views == (IF e.viewport = "above" THEN {} ELSE {"above", "end"})
                 \cup (IF dirty = {} THEN {} ELSE {"above", "end", "beyond"})
  IN  {ChangedTo(e, n, v, c) : v \in {e.viewport} \cup views,
                               c \in {Shifted(e, n, e.cursor)} \cup moved}

\* The text is replaced by that of n cards: anchors and the viewport may end up
\* anywhere in it.
Replaced(e, n, v, c) ==
  edit([e EXCEPT !.doc = n, !.viewport = v, !.cursor = c,
                 !.last_selection_head = {IF p = e.cursor THEN c ELSE AtMost(p, n) : p \in @}])
Replace(e, n) == {Replaced(e, n, v, c) : v \in {"above", "end", "beyond"}, c \in 0..n}

\* The card at an offset of the text.
item_at_offset(e, p) == AtMost(p, e.doc - 1)

\* sync_transcript_document and sync_transcript_item_updates, which do nothing
\* while the Text view is hidden.
Sync(texts) == IF buffer_view THEN texts ELSE {editor}
-----------------------------------------------------------------------------
(* ListState, as HarnessApp uses it.                                       *)

set_follow_mode_Tail == [following |-> TRUE, at_end |-> TRUE]
pause_following_tail(l) == [l EXCEPT !.following = FALSE]

\* Cards that are measured again: new ones may push the end out of the viewport, those
\* that changed may also be shorter and bring it into view, where a list that follows is
\* after its next layout in any case.  A hidden list has none.
Splice(l, shorter) ==
  IF buffer_view THEN {l}
  ELSE {[l EXCEPT !.at_end = b] :
          b \in IF l.at_end \/ l.following \/ shorter THEN BOOLEAN ELSE {FALSE}}

\* Pause and bring a card into view, as move_selection and a search do.
Reveal(l) ==
  {[following |-> FALSE, at_end |-> b] : b \in IF count = 0 THEN {TRUE} ELSE BOOLEAN}

\* The layout of the list: snap to the end, or follow again if the end is in view.
ListLayout(l) == IF l.following \/ l.at_end THEN set_follow_mode_Tail ELSE l

is_following_tail == IF buffer_view THEN editor.follow_tail ELSE list.following
-----------------------------------------------------------------------------
(* Search                                                                  *)

NoSearch == [query |-> FALSE, matches |-> <<>>, active |-> 0, in_buffer |-> FALSE]

\* The elements of a sequence that are in S, in their order.
Retained(S, kept, i) == IF i \in S THEN Append(kept, i) ELSE kept
Retain(m, S) == FoldLeft(LAMBDA kept, i : Retained(S, kept, i), <<>>, m)

AllCards == [k \in 1..MaxItems |-> k - 1]
Sorted(S) == Retain(AllCards, S)

\* Mutant: the active match is not brought into range.
RebuildUnclamped(s, found) ==
  [s EXCEPT !.matches = IF s.query THEN Sorted(found) ELSE <<>>]

rebuild_search_matches(s, found) ==
  LET m == IF s.query THEN Sorted(found) ELSE <<>> IN
  [s EXCEPT !.matches = m, !.active = AtMost(@, Last0(Len(m)))]

\* Where a binary search of m ends for i.
PartitionPoint(m, i) == Cardinality({k \in DOMAIN m : m[k] < i})

reconcile_sorted_search_match(m, i, is_match) ==
  LET p == PartitionPoint(m, i) + 1 IN
  CASE i \notin Range(m) /\ is_match -> InsertAt(m, p, i)
    [] i \in Range(m) /\ ~is_match -> RemoveAt(m, p)
    [] OTHER -> m

\* One card after the other.
Reconciled(found, m, i) == reconcile_sorted_search_match(m, i, i \in found)
ReconcileAll(m, changed, found) ==
  FoldLeft(LAMBDA acc, i : Reconciled(found, acc, i), m, Sorted(changed))

\* Mutants: new cards are not looked at; the active match keeps its number.
UpdateDirtyOnly(s, n, found, old_len, dirty, selected) ==
  [s EXCEPT !.matches = ReconcileAll(@, dirty, found), !.active = 0]
UpdateKeepsNumber(s, n, found, old_len, dirty, selected) ==
  LET m == Sorted(found) IN
  [s EXCEPT !.matches = m, !.active = AtMost(@, Last0(Len(m)))]

\* Only the cards from old_len on and the dirty ones are looked at again.
update_search_matches_for_changes(s, n, found, old_len, dirty, selected) ==
  LET changed == {i \in dirty : i < n} \cup AtMost(old_len, n)..(n - 1)
      m == ReconcileAll(Retain(s.matches, 0..(n - 1)), changed, found)
      active == {k \in DOMAIN m : s.active < Len(s.matches)
                                    /\ m[k] = s.matches[s.active + 1]}
  IN  [s EXCEPT !.matches = m,
                !.active = IF active # {} THEN (CHOOSE k \in active : TRUE) - 1
                           ELSE AtMost(PartitionPoint(m, selected), Last0(Len(m)))]

\* The cards, of those whose text is new, that the query may be found in.
Found(cards) == IF search.query THEN SUBSET cards ELSE {{}}
-----------------------------------------------------------------------------
Init ==
  /\ count = 0
  /\ hits = {}
  /\ buffer_view \in BOOLEAN
  /\ selected_item = 0
  /\ list = set_follow_mode_Tail
  /\ editor = IF buffer_view THEN reveal_tail(NewEditor) ELSE NewEditor
  /\ search = NoSearch

(* The transcript changes.                                                 *)

\* apply_event_batch: new cards at the end, dirty ones with a new text; and
\* apply_read_only_thread_refresh when it does not reset, which selects the last card of
\* a tail that is followed even when it is not new, and otherwise a card that exists.
Batch(new, dirty) ==
  /\ count + new <= MaxItems
  /\ count' = count + new
  /\ \E found \in Found(dirty \cup count..(count + new - 1)) :
       hits' = (hits \ dirty) \cup found
  /\ selected_item' \in {IF new > 0 /\ is_following_tail THEN count' - 1 ELSE selected_item,
                         IF is_following_tail THEN count' - 1
                         ELSE AtMost(selected_item, count' - 1)}
  /\ list' \in Splice(list, dirty # {})
  /\ search' = IF search.query
               THEN update_search_matches_for_changes(search, count', hits', count, dirty,
                                                      selected_item')
               ELSE search
  /\ editor' \in Sync(Changed(editor, count', dirty))
  /\ UNCHANGED buffer_view

NewCard == Batch(1, {})
NewTexts ==
  \E new \in 0..1, dirty \in SUBSET (0..(count - 1)) :
    dirty # {} /\ Cardinality(dirty) + new <= 2 /\ Batch(new, dirty)
ApplyBatch == NewCard \/ NewTexts

\* A card is opened, closed or shown raw: it is measured again.
Disclose ==
  /\ ~buffer_view /\ count > 0
  /\ list' \in Splice(list, TRUE)
  /\ UNCHANGED <<count, hits, buffer_view, selected_item, editor, search>>

\* apply_read_only_thread_refresh with another sequence of cards.
ResetRefresh ==
  \E n \in 0..MaxItems :
    /\ count' = n
    /\ hits' \in Found(0..(n - 1))
    /\ list' \in IF buffer_view THEN {list}
                 ELSE IF list.following THEN {set_follow_mode_Tail}
                 ELSE {[list EXCEPT !.at_end = b \/ n = 0] : b \in BOOLEAN}
    /\ selected_item' \in IF is_following_tail THEN {Last0(n)} ELSE 0..Last0(n)
    /\ search' = IF search.query THEN rebuild_search_matches(search, hits') ELSE search
    /\ editor' \in Sync(Replace(editor, n))
    /\ UNCHANGED buffer_view

\* Mutants of OpenThread: the text, or the selection, is left alone.
OpenUnsynced ==
  /\ count' = 0 /\ hits' = {} /\ selected_item' = 0
  /\ list' = [list EXCEPT !.at_end = TRUE]
  /\ UNCHANGED <<buffer_view, search, editor>>
OpenKeepsSelection ==
  /\ count' = 0 /\ hits' = {}
  /\ list' = [list EXCEPT !.at_end = TRUE]
  /\ editor' \in Sync(Replace(editor, 0))
  /\ UNCHANGED <<buffer_view, search, selected_item>>

\* open_thread, before its answer: the cards are cleared, the rest is left alone.
OpenThread ==
  /\ count' = 0
  /\ hits' = {}
  /\ selected_item' = 0
  /\ list' = [list EXCEPT !.at_end = TRUE]
  /\ editor' \in Sync(Replace(editor, 0))
  /\ UNCHANGED <<buffer_view, search>>

\* load_thread, and new_task with no card.
LoadThread ==
  /\ UNCHANGED <<buffer_view, search>>
  /\ list' = set_follow_mode_Tail
  /\ \E n \in 0..MaxItems :
       /\ count' = n
       /\ selected_item' = Last0(n)
       /\ hits' \in Found(0..(n - 1))
       /\ editor' \in Sync({reveal_tail(e) : e \in Replace(editor, n)})

\* Mutant of Send: the tail is shown before the cursor is moved.
SendSwapped ==
  /\ count < MaxItems
  /\ count' = count + 1
  /\ \E found \in Found({count}) : hits' = hits \cup found
  /\ selected_item' = count
  /\ list' = set_follow_mode_Tail
  /\ editor' \in Sync(UNION {CursorEvent(e, SetCursor(reveal_tail(e), count)) :
                               e \in Changed(editor, count', {})})
  /\ UNCHANGED <<buffer_view, search>>

\* send: the message is the last card, the cursor goes to it and the tail is shown.
Send ==
  /\ count < MaxItems
  /\ count' = count + 1
  /\ \E found \in Found({count}) : hits' = hits \cup found
  /\ selected_item' = count
  /\ list' = set_follow_mode_Tail
  /\ editor' \in Sync(UNION {CursorEvent(e, reveal_tail(SetCursor(e, count))) :
                               e \in Changed(editor, count', {})})
  /\ UNCHANGED <<buffer_view, search>>
-----------------------------------------------------------------------------
(* The user in the Rich list.                                              *)

\* The mouse wheel: only upwards stops the list.
Wheel ==
  /\ ~buffer_view
  /\ count > 0
  /\ \/ list' = [following |-> FALSE, at_end |-> FALSE]
     \/ \E b \in BOOLEAN : list' = [list EXCEPT !.at_end = @ \/ b]
  /\ UNCHANGED <<count, hits, buffer_view, selected_item, editor, search>>

\* scroll_page: the selection goes to the card at the top of the viewport.
ScrollPage ==
  /\ ~buffer_view
  /\ \/ list' \in Reveal(list)
     \/ list' = [list EXCEPT !.at_end = TRUE]
  /\ selected_item' \in IF count = 0 THEN {selected_item} ELSE 0..(count - 1)
  /\ UNCHANGED <<count, hits, buffer_view, editor, search>>

move_selection ==
  /\ ~buffer_view /\ count > 0
  /\ \E down \in BOOLEAN :
       /\ selected_item' = AtMost(IF down THEN selected_item + 1 ELSE Last0(selected_item),
                                 count - 1)
       /\ list' \in IF down /\ selected_item' = count - 1 THEN {set_follow_mode_Tail}
                    ELSE Reveal(list)
  /\ UNCHANGED <<count, hits, buffer_view, editor, search>>

\* A click on a card; the list is paused unless the card is the last.
Click ==
  /\ ~buffer_view
  /\ \E i \in 0..(count - 1) :
       /\ selected_item' = i
       /\ \E l \in Reveal(list) :
            list' = IF i = count - 1 THEN [l EXCEPT !.following = list.following]
                    ELSE l
  /\ UNCHANGED <<count, hits, buffer_view, editor, search>>

GoTop ==
  /\ ~buffer_view
  /\ selected_item' = 0
  /\ IF count > 0 THEN list' \in Reveal(list) ELSE UNCHANGED list
  /\ UNCHANGED <<count, hits, buffer_view, editor, search>>

GoBottom ==
  /\ ~buffer_view
  /\ selected_item' = Last0(count)
  /\ list' = set_follow_mode_Tail
  /\ UNCHANGED <<count, hits, buffer_view, editor, search>>
-----------------------------------------------------------------------------
(* The user in the Text view.                                              *)

\* A motion of the cursor, or a jump to a match of the editor's own search.
MoveCursor ==
  /\ buffer_view /\ UNCHANGED <<count, hits, buffer_view, list, search>>
  /\ \E c \in 0..editor.doc :
       /\ c # editor.cursor
       /\ editor' = note_local_selection(SetCursor(editor, c))
       /\ selected_item' = IF editor.doc = 0 THEN selected_item
                           ELSE item_at_offset(editor, c)

ScrollText ==
  /\ buffer_view /\ UNCHANGED <<count, hits, buffer_view, selected_item, list, search>>
  /\ \E v \in {"above", "end"} : editor' = DirectScroll(editor, v)

\* toggle_item_collapsed, and the header of a hybrid card.
Fold ==
  /\ buffer_view /\ UNCHANGED <<count, hits, buffer_view, selected_item, list, search>>
  /\ \E v \in {editor.viewport, "beyond"} :
       editor' = [pause_tail_follow(editor) EXCEPT !.viewport = v]
-----------------------------------------------------------------------------
(* Switching views.                                                        *)

show_rich_transcript ==
  /\ buffer_view
  /\ buffer_view' = FALSE
  /\ selected_item' = IF editor.doc = 0 THEN selected_item
                      ELSE item_at_offset(editor, editor.cursor)
  /\ search' = [search EXCEPT !.in_buffer = FALSE]
  /\ IF editor.follow_tail THEN list' = set_follow_mode_Tail
     ELSE list' \in Reveal(list)
  /\ UNCHANGED <<count, hits, editor>>

should_follow_tail == list.following /\ selected_item + 1 >= count

toggle_buffer_view ==
  /\ ~buffer_view
  /\ buffer_view' = TRUE
  /\ search' = NoSearch
  /\ hits' = {}
  /\ \E v \in {"above", "end", "beyond"} :
       LET e == edit([editor EXCEPT !.doc = count, !.viewport = v,
                                    !.last_selection_head = {AtMost(p, count) : p \in @}])
           c == SetCursor(e, AtMost(selected_item, Last0(count)))
       IN  editor' \in CursorEvent(c, IF should_follow_tail THEN reveal_tail(c)
                                      ELSE IF count > 0 THEN reveal_row_at_top(c)
                                      ELSE pause_tail_follow(c))
  /\ selected_item' = IF editor'.pending_tail_intent # "None" /\ count > 0
                      THEN editor'.cursor ELSE selected_item
  /\ UNCHANGED <<count, list>>
-----------------------------------------------------------------------------
(* Searching.                                                              *)

\* jump_to_search_match
Jump(s) ==
  /\ search' = s
  /\ selected_item' = s.matches[s.active + 1]
  /\ list' \in Reveal(list)

\* Whether the search is the editor's is decided by the focus when it is opened.
open_search ==
  /\ \E b \in IF buffer_view THEN BOOLEAN ELSE {FALSE} :
       search' = [search EXCEPT !.in_buffer = b]
  /\ UNCHANGED <<count, hits, buffer_view, selected_item, list, editor>>

\* commit_search, of any query or an empty one.  A search of the editor only leaves
\* the query here.
commit_search ==
  /\ \E q \in BOOLEAN :
     /\ hits' \in IF q THEN SUBSET (0..(count - 1)) ELSE {{}}
     /\ LET s == rebuild_search_matches([search EXCEPT !.query = q], hits')
            p == PartitionPoint(s.matches, selected_item)
        IN  IF search.in_buffer \/ s.matches = <<>>
            THEN /\ search' = IF search.in_buffer THEN [search EXCEPT !.query = q] ELSE s
                 /\ UNCHANGED <<selected_item, list>>
            ELSE Jump([s EXCEPT !.active = IF p = Len(s.matches) THEN 0 ELSE p])
  /\ UNCHANGED <<count, buffer_view, editor>>

close_search ==
  /\ IF search.in_buffer THEN UNCHANGED <<search, hits>> ELSE search' = NoSearch /\ hits' = {}
  /\ list' \in IF buffer_view THEN {list}
               ELSE {[l EXCEPT !.following = list.following] : l \in Reveal(list)}
  /\ UNCHANGED <<count, buffer_view, selected_item, editor>>

\* The editor's matches are motions of its cursor, MoveCursor.
move_search_match ==
  /\ ~search.in_buffer /\ search.matches # <<>>
  /\ LET n == Len(search.matches) IN
     \/ Jump([search EXCEPT !.active = (@ + 1) % n])
     \/ Jump([search EXCEPT !.active = IF @ = 0 THEN n - 1 ELSE @ - 1])
  /\ UNCHANGED <<count, hits, buffer_view, editor>>
-----------------------------------------------------------------------------
\* A frame: the callbacks, then the layout of the visible view.
Frame ==
  /\ LET e == NextFrame(editor) IN
     IF buffer_view THEN editor' \in EditorLayout(e) /\ UNCHANGED list
     ELSE editor' = e /\ list' = ListLayout(list)
  /\ UNCHANGED <<count, hits, buffer_view, selected_item, search>>

Next ==
  \/ ApplyBatch \/ Disclose \/ ResetRefresh \/ OpenThread \/ LoadThread \/ Send
  \/ Wheel \/ ScrollPage \/ move_selection \/ Click \/ GoTop \/ GoBottom
  \/ MoveCursor \/ ScrollText \/ Fold
  \/ show_rich_transcript \/ toggle_buffer_view
  \/ open_search \/ commit_search \/ close_search \/ move_search_match
  \/ Frame

Spec == Init /\ [][Next]_vars
-----------------------------------------------------------------------------
(* Properties                                                              *)

\* Will the visible view follow once the next frame has decided?
WillFollow == IF buffer_view THEN NextFrame(editor).follow_tail
              ELSE ListLayout(list).following

\* What the user asks of the visible view: a gesture in the list, which ends wherever it
\* ends, or to go to the end, or to leave it.
RichGesture ==
  /\ ~buffer_view
  /\ \/ Wheel \/ ScrollPage \/ move_selection \/ Click \/ GoTop \/ GoBottom
     \/ commit_search \/ close_search \/ move_search_match
GoesToEnd ==
  \/ Send \/ LoadThread \/ GoBottom
  \/ MoveCursor /\ editor'.cursor = editor'.doc
  \/ ScrollText /\ editor'.viewport = "end"
Leaves ==
  \/ ScrollText /\ editor'.viewport = "above"
  \/ Fold
  \/ MoveCursor /\ editor'.cursor < editor.cursor

\* The motion ends no higher than the one that was decided last.
NotAboveLast == \E previous \in editor.last_selection_head : editor'.cursor >= previous

\* A gesture whose outcome the next frame decides.
Undecided == IF buffer_view THEN editor.pending_tail_intent # "None"
             ELSE list.at_end /\ ~list.following

\* The cards are replaced, or the text of some.
Replaces == NewTexts \/ ResetRefresh \/ OpenThread

\* An editor whose viewport is past its end scrolls back as the user would.
ScrollsBack == Frame /\ buffer_view /\ editor.viewport = "beyond"

\* What makes the visible view follow again: the user, and what ReaderNotPulled names.
FollowsAgain ==
  \/ GoesToEnd
  \/ RichGesture /\ list'.at_end
  \/ /\ MoveCursor /\ editor.pending_tail_intent = "SelectionFollowing"
     /\ editor'.cursor > editor.cursor /\ NotAboveLast
  \/ (Replaces \/ Disclose \/ show_rich_transcript) /\ ~buffer_view' /\ list'.at_end
  \/ Replaces /\ buffer_view /\ Undecided
  \/ ScrollsBack

\* A user who left the end is not pulled back to it: a scroll, a fold or a backward
\* motion stops the visible view, and then only the user makes it follow again, by a
\* message, a task or a gesture that ends at the end.  The code departs from this, and
\* from docs/quality-gates.md:41-46, in these cases:
\*  - a motion is compared with the last one decided, so one that is taken back before
\*    the next frame, or that ends no higher than that one, follows;
\*  - the list follows when its end comes into view: because cards get shorter or are
\*    replaced, or because a switch puts the top card of the text at its top;
\*  - a text that is replaced between a motion or a scroll and its frame decides it;
\*  - an editor whose viewport is past its end scrolls back as the user would.
ReaderNotPulled ==
  [][/\ WillFollow' /\ Leaves => MoveCursor /\ NotAboveLast
     /\ ~WillFollow /\ WillFollow' => FollowsAgain]_vars

\* What stops the visible view: the user, and what ReaderPinned names.
StopsFollowing ==
  \/ Leaves
  \/ RichGesture /\ ~list'.at_end
  \/ Undecided /\ (NewCard \/ Replaces \/ Disclose \/ show_rich_transcript
                     \/ toggle_buffer_view)
  \/ MoveCursor /\ (editor.pending_tail_intent = "DirectScroll" \/ ~NotAboveLast)
  \/ toggle_buffer_view /\ selected_item + 1 < count
  \/ ScrollsBack

\* A user at the end is kept there: a message, a task and a gesture that goes to the end
\* make the visible view follow, now or at the next frame, and then only a gesture that
\* leaves the end stops it, not new cards, new texts or a switch.  The code departs from
\* this, and from docs/quality-gates.md:41-46, in these cases:
\*  - what is streamed, replaced or switched between a gesture and its frame decides it;
\*  - a motion to elsewhere than the end stops a scroll to it that waits for its frame,
\*    and a follower whose cursor stays above the last motion decided, or has none;
\*  - a switch to the Text view while a card above the last is selected;
\*  - an editor whose viewport is past its end scrolls back as the user would.
ReaderPinned ==
  [][/\ ~WillFollow' => ~GoesToEnd
     /\ WillFollow /\ ~WillFollow' => StopsFollowing]_vars

\* The visible text has every card: no handler that changes the transcript leaves out
\* the update of the text.
DocInSync == buffer_view => editor.doc = count

\* The matches are in the order of the cards, without repetition, and the active one is
\* one of them, after any order of searches, batches, loads and refreshes.
ActiveInRange ==
  /\ search.active <= Last0(Len(search.matches))
  /\ \A i, j \in DOMAIN search.matches : i < j => search.matches[i] < search.matches[j]

\* The selected card exists: only a jump to a match that is older than the transcript
\* on the screen selects a card that does not.
SelectionKept ==
  [][selected_item <= Last0(count) /\ selected_item' > Last0(count')
     => count' = count /\ selected_item' \in Range(search.matches)]_vars

\* With the order of ActiveInRange, the matches are those of a new search.
SearchIsExact == search.query => Range(search.matches) = hits

\* The incremental update finds what a new search would: matches that were right stay
\* right, except that opening, loading and sending do not update them and a search in
\* the text replaces the query without them.
SearchKept ==
  [][SearchIsExact /\ ~SearchIsExact'
     => OpenThread \/ LoadThread \/ Send \/ (commit_search /\ search.in_buffer)]_vars

ActiveCard == search.matches[search.active + 1]

\* Streaming does not move the user to another match: the active match stays on its card
\* while that card matches; only a jump, or a refresh that replaces the cards, moves it.
ActiveStays ==
  [][/\ search.matches # <<>> /\ search'.matches # <<>>
     /\ ActiveCard' # ActiveCard /\ ActiveCard \in Range(search'.matches)
     => (count' = count /\ selected_item' = ActiveCard') \/ ResetRefresh]_vars
-----------------------------------------------------------------------------
(* What the proofs add to these to make them inductive.                    *)

Cards == 0..(MaxItems - 1)
Editors == [doc : Nat, cursor : Nat, follow_tail : BOOLEAN,
            pending_tail_intent : {"None", "DirectScroll"} \cup Selections,
            last_selection_head : SUBSET Nat, viewport_refresh_pending : BOOLEAN,
            viewport : {"above", "end", "beyond"},
            autoscroll : {"None", "Tail", "Row", "Cursor"}]

TypeOK ==
  /\ count \in 0..MaxItems /\ hits \subseteq 0..(count - 1)
  /\ buffer_view \in BOOLEAN /\ selected_item \in Nat
  /\ list \in [following : BOOLEAN, at_end : BOOLEAN]
  /\ editor \in Editors
  /\ search \in [query : BOOLEAN, matches : Seq(Cards), active : Nat, in_buffer : BOOLEAN]

\* The cursor is in the text, and a decision that is pending has paused the editor and
\* is made at the next frame.
EditorOK(e) ==
  /\ e \in Editors /\ e.cursor <= e.doc
  /\ e.pending_tail_intent # "None" => e.viewport_refresh_pending /\ ~e.follow_tail

\* The visible list of an empty transcript is at its end.
EmptyAtEnd == ~buffer_view /\ count = 0 => list.at_end

ViewInv == TypeOK /\ EditorOK(editor) /\ EmptyAtEnd /\ DocInSync
=============================================================================
