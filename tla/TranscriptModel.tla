-------------------------- MODULE TranscriptModel --------------------------
(***************************************************************************)
(* TranscriptModel (crates/harness_protocol/src/lib.rs): the cards of one  *)
(* thread, the index by which later events find them, and the merge of a   *)
(* loaded thread with the cards saved on disk.  The methods are operators  *)
(* on a record m; TranscriptSession calls them as HarnessApp does.         *)
(*                                                                         *)
(* A key is a pair <<namespace, name>>, as the code's "namespace:name".    *)
(* Text is a sequence of sections, a section a sequence of words: the text *)
(* split at its blank lines.  Titles, raw payloads, event counts, the      *)
(* disclosure state of a card and the raw journal are left out.            *)
(***************************************************************************)
EXTENDS Integers, Sequences, SequencesExt

CONSTANT NoKey   \* the protocol_id of a generated card

ItemKey(id)        == <<"item", id>>
ReasoningKey(turn) == <<"turn-reasoning", turn>>
LocalKey(n)        == <<"local-user", n>>

\* What the server sends of an item: a member of item.*, of turn.items or of thread.turns.
ProtocolItem(id, kind, turn, text) == [id |-> id, kind |-> kind, turn |-> turn, text |-> text]

Card(key, pid, kind, status, content) ==
  [key |-> key, pid |-> pid, kind |-> kind, status |-> status, content |-> content]

NewModel == [items |-> <<>>, index |-> <<>>, local |-> 0]

\* Everything but the number of the last local message.
clear(m) == [NewModel EXCEPT !.local = m.local]

-----------------------------------------------------------------------------
(* Text.                                                                   *)

\* push_str of a word.
PushWord(content, word) ==
  IF content = <<>> THEN <<<<word>>>>
  ELSE [content EXCEPT ![Len(content)] = Append(@, word)]

\* The paragraph break of summaryPartAdded: not at the start, never two in a row.
PushBreak(content) ==
  IF content = <<>> \/ content[Len(content)] = <<>> THEN content ELSE Append(content, <<>>)

\* A section that is neither empty nor there already.
unique_section(seen, section) ==
  IF section = <<>> \/ section \in ToSet(seen) THEN seen ELSE Append(seen, section)

\* The sections of both texts, each one once.
merge_unique_reasoning(existing, incoming) ==
  FoldLeft(unique_section, <<>>, existing \o incoming)

Trim(content) == LET full(section) == section # <<>> IN SelectSeq(content, full)

-----------------------------------------------------------------------------
(* Cards and their index.                                                  *)

Put(index, key, position) ==
  [k \in DOMAIN index \cup {key} |-> IF k = key THEN position ELSE index[k]]

Found(m, key) == key \in DOMAIN m.index

push_without_splice(m, card) ==
  [m EXCEPT !.items = Append(@, card), !.index = Put(@, card.key, Len(m.items) + 1)]

KeysOf(card) == {card.key, card.pid} \ {NoKey}

\* Mutant: the last card gets no entry.
RebuildShort(items) ==
  LET front == SubSeq(items, 1, Len(items) - 1)
  IN  [k \in UNION {KeysOf(front[p]) : p \in DOMAIN front} |->
         CHOOSE p \in DOMAIN front : k \in KeysOf(front[p])]

\* Of several cards with one key the last one has the entry.
rebuild_item_indices(items) ==
  [k \in UNION {KeysOf(items[p]) : p \in DOMAIN items} |->
     CHOOSE p \in DOMAIN items :
       k \in KeysOf(items[p]) /\ \A q \in DOMAIN items : k \in KeysOf(items[q]) => q <= p]

push_local_user(m, text) ==
  LET key == LocalKey(m.local + 1)
  IN  push_without_splice([m EXCEPT !.local = @ + 1], Card(key, NoKey, "user", "sending", text))

set_status_for_key(m, key, status) ==
  IF Found(m, key) THEN [m EXCEPT !.items[m.index[key]].status = status] ELSE m

\* The card a streamed delta belongs to, made if there is none.
StreamCard(m, id, kind) ==
  IF Found(m, ItemKey(id)) THEN m
  ELSE push_without_splice(m, Card(ItemKey(id), ItemKey(id), kind, "streaming", <<>>))

append_delta(m, id, kind, word) ==
  LET n == StreamCard(m, id, kind)
  IN  [n EXCEPT !.items[n.index[ItemKey(id)]].content = PushWord(@, word)]

summaryPartAdded(m, id) ==
  LET n == StreamCard(m, id, "reasoning")
  IN  [n EXCEPT !.items[n.index[ItemKey(id)]].content = PushBreak(@)]

upsert_generated(m, key, kind, content) ==
  IF Found(m, key)
  THEN [m EXCEPT !.items[m.index[key]].kind = kind, !.items[m.index[key]].content = content]
  ELSE push_without_splice(m, Card(key, NoKey, kind, "none", content))

item_from_protocol(item, completed) ==
  Card(ItemKey(item.id), ItemKey(item.id), item.kind,
       IF completed THEN "completed" ELSE "running", item.text)

\* All reasoning of a turn is one card; every item of it gets an entry in the index.
UpsertReasoning(m, item, completed) ==
  LET key      == ReasoningKey(item.turn)
      incoming == item_from_protocol(item, completed)
      merged   == [m EXCEPT !.items[m.index[key]].content =
                              merge_unique_reasoning(@, incoming.content),
                            !.items[m.index[key]].status = incoming.status]
      n        == IF Found(m, key) THEN merged
                  ELSE push_without_splice(m, [incoming EXCEPT !.key = key])
  IN  [n EXCEPT !.index = Put(@, ItemKey(item.id), n.index[key])]

\* The latest message typed here that the item may be the echo of; 0 if there is none.
LocalEcho(m, item) ==
  LET echoes(card) == card.key[1] = "local-user" /\ card.content = item.text
  IN  IF item.kind = "user" THEN SelectLastInSeq(m.items, echoes) ELSE 0

\* The echo of a message takes its place, in the index too.
TakePlace(m, p, card) ==
  [m EXCEPT !.items[p] = card,
            !.index = Put([k \in DOMAIN m.index \ {m.items[p].key} |-> m.index[k]], card.key, p)]

\* Mutant: a completed item keeps the text that was streamed.
UpsertKeepsText(m, item, completed) ==
  LET key  == ItemKey(item.id)
      card == item_from_protocol(item, completed)
      p    == LocalEcho(m, item)
  IN  CASE item.kind = "reasoning" -> UpsertReasoning(m, item, completed)
        [] item.kind # "reasoning" /\ Found(m, key) ->
             [m EXCEPT !.items[m.index[key]] = [card EXCEPT !.content = m.items[m.index[key]].content]]
        [] item.kind # "reasoning" /\ ~Found(m, key) /\ p # 0 -> TakePlace(m, p, card)
        [] OTHER -> push_without_splice(m, card)

\* An item is updated where it is; the echo of a message takes the place of the message.
upsert_protocol_item(m, item, completed) ==
  LET key  == ItemKey(item.id)
      card == item_from_protocol(item, completed)
      p    == LocalEcho(m, item)
  IN  CASE item.kind = "reasoning" -> UpsertReasoning(m, item, completed)
        [] item.kind # "reasoning" /\ Found(m, key) ->
             [m EXCEPT !.items[m.index[key]] = card]
        [] item.kind # "reasoning" /\ ~Found(m, key) /\ p # 0 -> TakePlace(m, p, card)
        [] OTHER -> push_without_splice(m, card)

-----------------------------------------------------------------------------
(* Events of the selected thread.                                          *)

ItemEvent(item, completed)   == [type |-> "item", item |-> item, completed |-> completed]
DeltaEvent(id, kind, word)   == [type |-> "delta", id |-> id, kind |-> kind, word |-> word]
PartEvent(id)                == [type |-> "part", id |-> id]
PlanEvent(turn, text)        == [type |-> "plan", turn |-> turn, text |-> text]
TurnEvent(turn, items, failed) ==
  [type |-> "turn", turn |-> turn, items |-> items, failed |-> failed]

\* The items of a turn or of a thread, one after the other.
UpsertAll(m, items) ==
  LET upsert(n, item) == upsert_protocol_item(n, item, TRUE)
  IN  FoldLeft(upsert, m, items)

\* turn/completed: the items it carries, then the card of a failed or interrupted turn.
CompleteTurn(m, e) ==
  LET n == UpsertAll(m, e.items)
  IN  IF e.failed THEN upsert_generated(n, <<"turn-completion", e.turn>>, "error", <<>>) ELSE n

apply_event(m, e) ==
  CASE e.type = "item"  -> upsert_protocol_item(m, e.item, e.completed)
    [] e.type = "delta" -> append_delta(m, e.id, e.kind, e.word)
    [] e.type = "part"  -> summaryPartAdded(m, e.id)
    [] e.type = "plan"  -> upsert_generated(m, <<"turn-plan", e.turn>>, "plan", e.text)
    [] e.type = "turn"  -> CompleteTurn(m, e)

apply_batch(m, events) == FoldLeft(apply_event, m, events)

-----------------------------------------------------------------------------
(* Snapshots: a thread as the server returns it, and the cards on disk.    *)

load_thread(m, thread) == UpsertAll(clear(m), thread)

\* The code keeps the cards that did not change when the keys agree and resets the list when
\* they do not; the cards are those of the thread in both cases, and the cards that only
\* this process knew of are gone.
refresh_thread(m, thread) ==
  LET fresh == load_thread(NewModel, thread).items
  IN  [m EXCEPT !.items = fresh, !.index = rebuild_item_indices(fresh)]

items_are_semantically_equal(left, right) ==
  left.kind = right.kind /\ Trim(left.content) = Trim(right.content)

\* The position of the fresh card that a saved one stands for, 0 if there is none: by its
\* key, or else by what it says.  Matches never cross: it looks behind the last match only.
SnapshotMatch(fresh, from, card) ==
  LET sameKey(c)  == c.key = card.key
      sameText(c) == items_are_semantically_equal(card, c)
      byKey == SelectInSubSeq(fresh, from, Len(fresh), sameKey)
  IN  IF byKey # 0 THEN byKey ELSE SelectInSubSeq(fresh, from, Len(fresh), sameText)

\* One saved card: it waits for a match, or it has one, and the cards that waited and the
\* fresh cards up to the match are merged.
MergeSaved(fresh, acc, card) ==
  LET p == SnapshotMatch(fresh, acc.next, card)
  IN  IF p = 0
      THEN [next |-> acc.next, waiting |-> Append(acc.waiting, card), merged |-> acc.merged]
      ELSE [next |-> p + 1, waiting |-> <<>>,
            merged |-> acc.merged \o acc.waiting \o SubSeq(fresh, acc.next, p)]

SavedMerged(fresh, acc, persisted) ==
  LET step(a, card) == MergeSaved(fresh, a, card)
  IN  FoldLeft(step, acc, persisted)

\* Mutant: saved cards go behind the thread.
MergeAtEnd(fresh, persisted) ==
  LET lost(card) == \A p \in DOMAIN fresh : fresh[p].key # card.key
  IN  fresh \o SelectSeq(persisted, lost)

\* Saved cards up to the last one that was matched, with the fresh cards in their places.
merge_snapshot_items(fresh, persisted) ==
  LET end == SavedMerged(fresh, [next |-> 1, waiting |-> <<>>, merged |-> <<>>], persisted)
  IN  end.merged \o SubSeq(fresh, end.next, Len(fresh))

\* Mutant: the index is not rebuilt.
MergeKeepsIndex(m, persisted) == [m EXCEPT !.items = merge_snapshot_items(m.items, persisted)]

\* Without saved cards the transcript and its index stay as they are.
merge_persisted_transcript(m, persisted) ==
  LET items == merge_snapshot_items(m.items, persisted)
  IN  IF persisted = <<>> THEN m
      ELSE [m EXCEPT !.items = items, !.index = rebuild_item_indices(items)]
============================================================================
