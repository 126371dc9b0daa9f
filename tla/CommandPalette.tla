--------------------------- MODULE CommandPalette ---------------------------
(***************************************************************************)
(* The command palette of HarnessApp: the session of command_palette_core, *)
(* whose matches are computed in the background, one task for each change  *)
(* of the input; the recall of earlier queries; and the history that       *)
(* HarnessApp keeps and saves.                                             *)
(*                                                                         *)
(* A query is a sequence of words, of which only equality and prefixes     *)
(* matter; of the matches of a query only their number is kept.  An option *)
(* is a set of at most one element, an index counts from 0 as in the code. *)
(***************************************************************************)
EXTENDS Naturals, Sequences, FiniteSets, SequencesExt

CONSTANTS
  Queries,       \* what the user may type
  Alias,         \* harness_alias, the identity where it has none
  MatchCount,    \* how many commands match a resolved query
  MaxHistory,    \* MAX_HISTORY_ENTRIES
  MaxUpdates     \* bound: changes of the input while a palette is open

Empty == <<>>

ASSUME PaletteAssumption ==
  /\ IsFiniteSet(Queries) /\ Empty \in Queries
  /\ Alias \in [Queries -> Queries]
  /\ MatchCount \in [Queries -> Nat]
  /\ MaxHistory \in Nat \ {0}
  /\ MaxUpdates \in Nat

VARIABLES
  open,          \* HarnessApp::command_palette is there
  input,         \* the text of the palette's editor
  session,       \* CommandPaletteSession: generation, latest_query, match_count,
                 \* selected_index
  recall,        \* its QueryHistory: history, cursor, prefix
  loading,
  inflight,      \* updates being computed
  history,       \* HarnessApp::command_palette_history
  saved,         \* the history in palette.json, empty if it cannot be read
  typed          \* history variable: the text the user typed last, or cleared

vars == <<open, input, session, recall, loading, inflight, history, saved, typed>>

NewSession == [generation |-> 0, latest_query |-> Empty, match_count |-> 0,
               selected_index |-> 0]
NewRecall(h) == [history |-> h, cursor |-> {}, prefix |-> {}]

AtMost(a, b) == IF a <= b THEN a ELSE b
Pred(n) == IF n = 0 THEN 0 ELSE n - 1              \* saturating_sub(1)

Closed ==
  /\ open' = FALSE /\ input' = Empty /\ session' = NewSession
  /\ recall' = NewRecall(<<>>) /\ loading' = FALSE /\ inflight' = {} /\ typed' = Empty
-----------------------------------------------------------------------------
(* QueryHistory                                                            *)

\* Mutant: the prefix survives.
ResetKeepsPrefix(r) == [r EXCEPT !.cursor = {}]

reset_cursor(r) == [r EXCEPT !.cursor = {}, !.prefix = {}]

\* A recalled entry that was edited since is not recalled any more.
validate_cursor(r, q) ==
  IF \E pos \in r.cursor : r.history[pos + 1] # q THEN reset_cursor(r) ELSE r

PrefixOf(r) == IF r.prefix = {} THEN Empty ELSE CHOOSE p \in r.prefix : TRUE
Entries(r, from, to) == {i \in from..to : IsPrefix(PrefixOf(r), r.history[i + 1])}

\* The state after previous or next, and the entry found.
previous(r0, q) ==
  LET v == validate_cursor(r0, q)
      r == IF v.cursor = {} THEN [v EXCEPT !.prefix = {q}] ELSE v
      older == {i \in Entries(r, 0, Len(r.history) - 1) : \A pos \in r.cursor : i < pos}
      found == {i \in older : \A j \in older : j <= i}
  IN  [state |-> IF found = {} THEN r ELSE [r EXCEPT !.cursor = found],
       query |-> {r.history[i + 1] : i \in found}]

next(r0, q) ==
  LET r == validate_cursor(r0, q)
      newer == {i \in Entries(r, 0, Len(r.history) - 1) : \A pos \in r.cursor : i > pos}
      found == IF r.cursor = {} THEN {} ELSE {i \in newer : \A j \in newer : j >= i}
  IN  [state |-> IF found = {} THEN r ELSE [r EXCEPT !.cursor = found],
       query |-> {r.history[i + 1] : i \in found}]

is_navigating(r) == r.cursor # {}

\* select_history: the query to put into the input, if any.
SelectPrevious ==
  IF session.selected_index = 0 \/ is_navigating(recall) THEN previous(recall, input)
  ELSE [state |-> recall, query |-> {}]

SelectNext ==
  LET n == next(recall, input) IN
  CASE ~is_navigating(recall) -> [state |-> recall, query |-> {}]
    [] is_navigating(recall) /\ n.query # {} -> n
    [] OTHER -> [state |-> reset_cursor(n.state), query |-> {PrefixOf(n.state)}]
-----------------------------------------------------------------------------
(* Updates                                                                 *)

\* Mutant: the task has the generation from before its update.
UpdateOldGeneration(s, q) ==
  /\ session' = [s EXCEPT !.generation = @ + 1]
  /\ inflight' = inflight \cup {[generation |-> s.generation, query |-> Alias[q]]}
  /\ loading' = TRUE

\* begin_update and the task that update_matches spawns, for input q.
update_matches(s, q) ==
  /\ session' = [s EXCEPT !.generation = @ + 1]
  /\ inflight' = inflight \cup {[generation |-> s.generation + 1, query |-> Alias[q]]}
  /\ loading' = TRUE

CanUpdate == session.generation < MaxUpdates

\* Mutants: an update of any generation is applied; the selection is not clamped.
ApplyStale(u) ==
  /\ u \in inflight
  /\ inflight' = inflight \ {u}
  /\ session' = [session EXCEPT
         !.latest_query = u.query, !.match_count = MatchCount[u.query],
         !.selected_index = AtMost(@, Pred(MatchCount[u.query]))]
  /\ loading' = FALSE
  /\ UNCHANGED <<open, input, recall, history, saved, typed>>
ApplyUnclamped(u) ==
  /\ u \in inflight
  /\ inflight' = inflight \ {u}
  /\ IF u.generation = session.generation
     THEN /\ session' = [session EXCEPT !.latest_query = u.query,
                                        !.match_count = MatchCount[u.query]]
          /\ loading' = FALSE
     ELSE UNCHANGED <<session, loading>>
  /\ UNCHANGED <<open, input, recall, history, saved, typed>>

\* apply_update: nothing but the update of the current generation changes the session.
apply_update(u) ==
  /\ u \in inflight
  /\ inflight' = inflight \ {u}
  /\ IF u.generation = session.generation
     THEN /\ session' = [session EXCEPT
                 !.latest_query = u.query, !.match_count = MatchCount[u.query],
                 !.selected_index = AtMost(@, Pred(MatchCount[u.query]))]
          /\ loading' = FALSE
     ELSE UNCHANGED <<session, loading>>
  /\ UNCHANGED <<open, input, recall, history, saved, typed>>
-----------------------------------------------------------------------------
(* The palette on the screen                                               *)

\* Mutant: browsing starts at an entry past the newest.
OpenPastEnd(q) ==
  /\ ~open
  /\ open' = TRUE /\ input' = q /\ typed' = q
  /\ recall' = [NewRecall(history) EXCEPT !.cursor = {Len(history)}]
  /\ session' = [NewSession EXCEPT !.generation = 1]
  /\ inflight' = {[generation |-> 1, query |-> Alias[q]]}
  /\ loading' = TRUE
  /\ UNCHANGED <<history, saved>>

\* open_command_palette when there is none: the initial query is put into the input,
\* whose event starts a second update.
Open(q) ==
  /\ ~open
  /\ open' = TRUE /\ input' = q /\ typed' = q
  /\ recall' = NewRecall(history)
  /\ LET g == IF q = Empty THEN 1 ELSE 2 IN
     /\ session' = [NewSession EXCEPT !.generation = g]
     /\ inflight' = {[generation |-> i, query |-> Alias[q]] : i \in 1..g}
  /\ loading' = TRUE
  /\ UNCHANGED <<history, saved>>

\* Toggling an open palette, escape, and a click outside.
Dismiss ==
  /\ open
  /\ Closed
  /\ UNCHANGED <<history, saved>>

Type(q) ==
  /\ open /\ q # input /\ CanUpdate
  /\ input' = q /\ typed' = q
  /\ update_matches(session, q)
  /\ UNCHANGED <<open, recall, history, saved>>

\* The entry found is put into the input, whose event starts an update; otherwise
\* the selection moves.
Recall(choice, index) ==
  /\ open
  /\ recall' = choice.state
  /\ IF choice.query # {}
     THEN /\ CanUpdate
          /\ input' \in choice.query
          /\ update_matches(session, input')
     ELSE /\ session' = [session EXCEPT !.selected_index = index]
          /\ UNCHANGED <<input, inflight, loading>>
  /\ typed' = IF input' = Empty THEN Empty ELSE typed
  /\ UNCHANGED <<open, history, saved>>

move_up == Recall(SelectPrevious, Pred(session.selected_index))

move_down ==
  Recall(SelectNext, IF session.match_count = 0 THEN session.selected_index
                     ELSE AtMost(session.selected_index + 1, session.match_count - 1))

\* Mutant: an earlier entry of the same query is kept.
RememberTwice(h, q) == IF Len(h) = MaxHistory THEN Append(Tail(h), q) ELSE Append(h, q)

\* The entries other than q, in their order.
Keep(q, kept, e) == IF e = q THEN kept ELSE Append(kept, e)
Without(h, q) == FoldLeft(LAMBDA kept, e : Keep(q, kept, e), <<>>, h)

\* The history with a query as its newest entry.
Remember(h, q) ==
  LET kept == Append(Without(h, q), q) IN
  IF Len(kept) > MaxHistory THEN Tail(kept) ELSE kept

\* A click on a row selects it first.  The palette is closed, the query remembered,
\* the file written, and then the command runs.  A write that fails leaves the file as it
\* was or cut short, and a file that cannot be read is an empty history.
confirm ==
  /\ open /\ session.match_count > 0
  /\ Closed
  /\ history' = IF session.latest_query = Empty THEN history
                ELSE Remember(history, session.latest_query)
  /\ saved' \in {history', saved, <<>>}

\* The newest entries of the file.
load_state(h) == IF Len(h) > MaxHistory THEN SubSeq(h, Len(h) - MaxHistory + 1, Len(h)) ELSE h

\* HarnessApp ends, with or without an open palette, and is started again.
Restart ==
  /\ Closed
  /\ history' = load_state(saved)
  /\ UNCHANGED saved
-----------------------------------------------------------------------------
Init ==
  /\ open = FALSE /\ input = Empty /\ session = NewSession
  /\ recall = NewRecall(<<>>) /\ loading = FALSE /\ inflight = {} /\ typed = Empty
  /\ history = <<>> /\ saved = <<>>

Complete == \E u \in inflight : apply_update(u)

Next ==
  \/ \E q \in Queries : Open(q) \/ Type(q)
  \/ Dismiss \/ move_up \/ move_down \/ confirm \/ Restart
  \/ Complete

Spec == Init /\ [][Next]_vars

\* A task of the executor that can finish does.
FairSpec == Spec /\ WF_vars(Complete)
-----------------------------------------------------------------------------
\* Every value is of the expected kind: the cursor of the recall is an entry of the history.
TypeOK ==
  /\ open \in BOOLEAN /\ loading \in BOOLEAN
  /\ input \in Queries /\ typed \in Queries
  /\ session \in [generation : 0..MaxUpdates + 2, latest_query : Queries,
                  match_count : Nat, selected_index : Nat]
  /\ recall \in [history : Seq(Queries), cursor : SUBSET Nat, prefix : SUBSET Queries]
  /\ recall.cursor \subseteq 0..(Len(recall.history) - 1)
  /\ inflight \subseteq [generation : 1..MaxUpdates + 2, query : Queries]
  /\ history \in Seq(Queries) /\ saved \in Seq(Queries)

\* When the palette is not loading, its matches are those of the text in the input,
\* whatever the order in which the tasks of earlier texts finish.
ShownIsCurrent == open /\ ~loading => session.latest_query = Alias[input]

\* While there are matches, one of them is selected: enter always runs a command, and
\* the query is never remembered without one, also when an update leaves fewer matches.
SelectedInRange == session.selected_index <= Pred(session.match_count)

\* The history has no query twice, no empty one and at most MAX_HISTORY_ENTRIES, in
\* memory, in the file and in the open palette, after any confirms, failed writes of
\* the file and restarts.
HistorySound ==
  \A h \in {history, saved, recall.history} :
    IsInjective(h) /\ Len(h) <= MaxHistory /\ Empty \notin Range(h)

\* Every update ends: the palette does not go on loading when the user stops typing,
\* although every task but the last is ignored.
LoadingEnds == loading ~> ~loading

\* The recalled entry was edited since.
Edited == \E pos \in recall.cursor : recall.history[pos + 1] # input

\* Browsing the history does not lose what the user typed: the input becomes an entry
\* that starts with it or that text again.  Except that down clears a recalled entry
\* that was edited, and that a text typed to be the recalled entry counts as recalled.
BrowseKeepsText ==
  [][open /\ open' /\ recall' # recall /\ input' # input
     => \/ input' = typed
        \/ IsPrefix(typed, input') /\ input' \in Range(recall.history)
        \/ Edited /\ input' = Empty
        \/ typed \in Range(recall.history)]_vars
-----------------------------------------------------------------------------
(* What the proofs add to these to make them inductive.                    *)

\* No task is of a later generation than the session, and the one of the current
\* generation computes the matches of the text in the input.
TasksCurrent ==
  \A u \in inflight :
    /\ u.generation <= session.generation
    /\ u.generation = session.generation => u.query = Alias[input]

UpdateInv == TasksCurrent /\ ShownIsCurrent

\* At most one entry is recalled.  The input is what the user typed, or the entry that
\* was recalled with it as the prefix, unless the user typed an entry.
RecallInv ==
  /\ \A a, b \in recall.cursor : a = b
  /\ open /\ input # typed /\ typed \notin Range(recall.history)
     => \E pos \in recall.cursor :
          recall.history[pos + 1] = input /\ recall.prefix = {typed}
=============================================================================
