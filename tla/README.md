# Codex Harness: a TLA+ verification project

Codex Harness (`crates/harness_app`) is a desktop client for the Codex app-server, built on
a fork of Zed. This directory holds TLA+ models of its core, the TLC configurations that
check them on small instances, and TLAPS proofs of the properties that matter most.
Everything is translated from the source; the line correspondence of every definition is in
`PROJECT.json` under `map`.

Paths below are relative to the repository; `client.rs` is
`crates/codex_app_server_client/src/codex_app_server_client.rs`, `main.rs` is
`crates/harness_app/src/main.rs`, `lib.rs` is `crates/harness_protocol/src/lib.rs`.

## 1. Inventory

| Component | State it keeps | Operations | What is hard | What makes it correct |
|---|---|---|---|---|
| **App-server client** (`client.rs`) | `next_id`, the shared `pending` table, outbound and event channels, the reader and writer tasks, the child process | `launch`, `request`, `notify`, `respond`, the automatic replies, `disconnect` | two I/O tasks on an executor thread and callers on the UI thread share the table; answers in any order; a crash of the child | an answer reaches its own caller, once; every early call settles; the stream says it ended, last, and ends |
| **Session** (`main.rs` connect ... stop) | `client`, `connecting`, `reconnect_attempts`, `selected_thread_id`, `loading_thread`, `thread_read_only_reason`, `model.current_turn_id`, the task slots | `connect`, `schedule_reconnect`, `handle_server_disconnect`, `refresh_threads`, `open_thread`, `load_thread`, `new_task`, `send`, `stop`, turn events | assigning a slot cancels what it held; continuations run after the user moved on; events wait for a frame | reconnecting is never blocked or lost; Stop addresses the turn on the screen; a load, a send, a fresh task is not undone |
| **Server requests** (`main.rs`, `request_surface.rs`, `lib.rs`) | cards with `pending_request`, `live_request_keys`, `request_surfaces`, `dirty_request_surfaces` | route, apply, sync surfaces, respond, reject, retire, restore | ids restart per connection while cards come back from disk; replies, closes, loads and frames interleave | one reply each; nothing old is live; nothing of another task is shown; nothing hangs |
| **Transcript model** (`lib.rs`) | `items`, `item_indices`, `raw_events`, telemetry | `apply_event`, deltas, upserts, `record_raw`, `rebuild_item_indices` | started/delta/completed in unexpected order; aliases of aggregated reasoning; the journal at its limit | an event finds its card; updates in place; nothing that completed is missing or there twice |
| **Persistence and merge** (`lib.rs`) | snapshot file per thread | `persist_transcript`, `merge_persisted_transcript`, `merge_snapshot_items` | a stale snapshot against fresh history; repeated keys; a save at a bad moment | order of the fresh history kept, nothing lost or doubled |
| **Read-only refresh** (`main.rs`, `lib.rs`) | `read_only_refresh_task`, `loaded_thread_updated_at` | poll, read, `refresh_thread` | a read overtaken by a switch | runs for the thread on the screen, which shows what it read last |
| **Search** (`main.rs`) | `search_matches`, active match | rebuild, reconcile, move | indices into a list that changes | matches are the items that match; streaming does not move the active one |
| **Transcript editor and Rich list** (`crates/harness_editor`, gpui's `list.rs`) | follow-tail intent, cursor, viewport, supplements, projections | scroll, motion, edit, fold, switch of views | programmatic against user scrolling; a decision that waits for a frame | follows while pinned, and only then |
| **Command palette** (`command_palette_core`, `palette.rs`) | generation, matches, history cursor, persisted state | begin/apply update, history, confirm | asynchronous updates out of order | a stale update changes nothing; the history stays sound |
| Image surfaces, performance runs, rendering | - | - | no concurrency of their own | not modelled |
| Upstream Zed | - | - | third-party | not modelled |

How they interact: `connect` launches a client and loops on its event channel; each batch of
one `STREAM_FRAME` goes through `dispatch_server_requests` (requests) and
`TranscriptModel::apply_batch` (items), both under the current selection. User handlers start
calls in `request_task`, whose continuation updates selection, model and status. Drawing a
frame brings the request surfaces up to date and decides whether the visible view follows. The end of the channel runs
`handle_server_disconnect`, which retires requests and schedules a reconnect.

The hazards, each at its line and with the properties that would catch it, are in
`PROJECT.json` under `hazards`.

## 2. Modules

| Module | Models | Proofs |
|---|---|---|
| `AppServerClient` | the client, its host's use of it, the child process | `AppServerClientProofs` |
| `CallContract` | what the client promises for one call, abstractly | `CallContractProofs` (the client implements it) |
| `HarnessSession` | the session state machine, the app-server as it answers | `HarnessSessionProofs` |
| `RequestLifecycle` | server requests from arrival to answer | `RequestLifecycleProofs` |
| `TranscriptModel` | the operations on cards and index, as operators | `TranscriptProofs` |
| `TranscriptSession` | a thread's transcript: opened, streamed, sent to, saved, restored, refreshed; it composes `TranscriptModel` with the handlers of `HarnessApp` and the app-server | `TranscriptProofs` |
| `TranscriptView` | the Rich and Text views of a transcript, following, selection and search | `TranscriptViewProofs` |
| `CommandPalette` | the palette, its updates and its history | `CommandPaletteProofs` |
| `FoldLemmas` | no part of the system: what `FoldLeft` computes, for the proof modules | itself |
| `MC...` | the same, for TLC (with the symmetry of calls and of messages where the run is not temporal, and views that leave out what no step reads: the hidden half of `TranscriptView`, a viewport that the next layout moves, the answers nobody awaits in `TranscriptSession`) | |

Definitions named in a comment as *Mutant* are deliberately wrong variants of the definition
that follows them. They are used by no specification; substituting one must break the
property that `PROJECT.json` names for it.

### AppServerClient

A step is what one party does between two points where another thread can see a difference.
`Client::request` is `Register` (draw the id, insert the sender), then `SendOk` or
`SendFailed`, then `Finish`, or `Cancel` when the awaiting task is dropped. `disconnect()`,
which the reader and the writer share, is `DrainPending` (in the step that found the
failure), `Announce(t)` and `Close(t)`; the writer has one more step, `WriterBreak`, because
leaving its loop is what drops the outbound receiver. The reader has an action per kind of
line, and `ReadEof`. `IoThreads` is the number of executor threads: 1 is the default of the
smol executor (`SMOL_THREADS`), and with one thread a task in the middle of `disconnect()` is
not interleaved with the other one, since none of its awaits ever waits. `client_liveness` runs
with 2, where every order of their steps is possible. The host is
`HarnessApp::connect`: handshake, loop, end, drop. Dropping the client needs every `request`
future to be gone, as each borrows it. Messages carry the call they were made for, for the
properties only: no guard reads it.

`CallContract` is the abstract specification: a call is unasked, open, and then answered,
closed or abandoned; `Settle` needs that the app-server answered this very call, `Break` closes
every open call at once, and `Refuse` closes a call made on a broken connection. The mapping is
`Outcome` (from the call's program counter and answer; an answer meant for another call would
be `"crossed"`, which the contract does not have), `Served` and `Broken`.

### HarnessSession

Everything runs on the UI thread, so an action is one handler or the continuation of one
await. `task` is what `request_task` awaits; `SpawnRequest` replaces it, and the call of the
task it cancelled may (`orphans`) or may not reach the app-server. A task keeps the launch it
was spawned with, and only the process of that launch answers it (`Served`): its failure may be
noticed late, after `handle_server_disconnect` or during the next launch. `query` is the thread
captured when `connect()` began. `selectedBy` numbers the user input a selection goes back
to and `shown` the threads whose items are in the model; both are history variables. A
response is applied in the step that produces it, while events wait in `queue`: the client
completes the future at once, and an event waits for `STREAM_FRAME`.

`connecting` is shared by `connect()` and `refresh_threads`. `ConnectingMeansLaunching` says that
without a client it is set only while a launch is in progress, so that it never blocks
reconnecting for ever. The converse is false of the code: a list call that the last batch
spawned (`main.rs:2720`), and whose failure is noticed during the next launch, resets the flag
(`main.rs:3294`). A refresh or the timer then begins a second launch, whose task takes the place
of the first in `server_task`. `NeverAbandoned` and `OfflineEnds` hold with it.

Abstractions: list, read and resume answers are sets of threads or success and failure; a
message is its status; a call that `AppServerClient` shows may be stranded after the last
drain is not modelled here (its run is `client_retirement`); the app-server of an abandoned
launch is down. `HARNESS_OPEN_THREAD` and the replay mode are left out.

### RequestLifecycle

`items[id]` is the card with key `request:<id>` with the connection it was made on, `live`,
`surfaces` and `dirty` are the three maps of `HarnessApp`, and `replyTasks` the spawned
replies. `ApplyBatch(n)` is `apply_event_batch` on the first `n` queued events:
`dispatch_server_requests`, `apply_batch` and `track_live_request_updates` together. `Removed`
and `Upserted` are `surface_sync_decision`; `SyncRequestSurfaces` is the drawing of a frame.
`LoadThread(restored)` restores any subset of the cards saved for the thread: this
over-approximates `merge_snapshot_items`, whose choice depends on the rest of the history.
Whether the payload of a request is one that `route_server_request` accepts is the boolean
`valid`. A load may outlive its connection (`loadLost`): it then ends by reporting the failure or
by opening the history read-only, also when the next connection is there. A launch of a process
takes longer than a poll of a reply and than a frame, so
`Connect` waits for both.

### TranscriptModel and TranscriptSession

`model` is a record of the cards, the index (`item_indices`, from keys to positions) and the
counter of local messages; text is a sequence of sections of words, since
`merge_unique_reasoning` compares sections and everything else appends words. The methods of
`TranscriptModel` are operators with their names; folds stand for the loops over events, items
and cards.

The app-server is external and streams one item after the other: `item/started`, deltas,
`item/completed`, `turn/completed` with or without the items, plan updates. `reply` is an answer
of thread/resume that the continuation of `open_thread` has not seen, `wire` the notifications:
the two come on different channels, so that `ApplyBatch` and `LoadThread` happen in either
order. `disk` is the snapshot file, which a `Restart` leaves. `refresher` is the loop of
`schedule_read_only_refresh`, whose steps are the timer, the list and the read. `overtaken` is
the one history variable: a batch was applied between the answer of a resume and its load.

`merge_persisted_transcript` returns at once, with the index as it was, when there is no file
(`lib.rs:1248`); a file without cards, which rebuilds the index of the same cards, counts as none.

Left out: titles, raw payloads, event counts and disclosure; a disconnect and the reconnect, which
leave the cards and the selection as they are (`HarnessSession`); the raw journal and the cards that
are named by it; cards of processes, hooks and reviews, which take the same path as a plan; a
new task, whose first message selects the thread (`HarnessSession`), and with it the events of
all threads that `event_matches_thread` lets through while none is selected
(`session_fresh`). `updated_at` has a new value for every change.

### TranscriptView

Only the number of cards is kept and, while there is a query, which of them it occurs in. The
editor has a cursor (a card, or the end), a viewport (`above`, at the `end`, or `beyond` a text
that got shorter), the request for the next layout (`autoscroll`), and the fields of
`TranscriptEditor` that decide about following. The events of the editor are delivered after
the handler that caused them, which is why `Send` and `toggle_buffer_view` end in
`CursorEvent`. `Frame` first runs the callback of `schedule_viewport_refresh`, then the layout
of the visible view; the layout of the list is the one of gpui. A batch (`Batch`, also a
read-only refresh that does not reset) brings new cards, and new texts of at most two, which may
be longer or shorter: a hidden end may come into view, and a viewport may end up beyond the text.
`Disclose` is any handler that measures one card of the list again: the toggles of a card, of its
output and of its raw form, a status of a message, a change of a request surface, the retirement
at a disconnect; in the Text view the last three are `NewTexts` without a new card.

Whether the user follows the tail is not kept in a history variable: `ReaderNotPulled` and
`ReaderPinned` compare what the visible view will do at its next frame (`WillFollow`) before and
after each step, and list everything that may change it (`FollowsAgain`, `StopsFollowing`).
`quality-gates.md:41-46` says that only the user does, and that a switch of views preserves it. The
code departs from that in these cases, which are the exceptions in the two properties; TLC refutes
a property from which any one of them is left out:

- a Text view is left by a user who is above, and the list that is shown with the selected card at
  its top reaches its end: it follows at its next layout (`main.rs:4318`, `list.rs:1272`);
- cards of a list that is paused get shorter, by a batch, a refresh or a toggle, until the end is
  in view: it follows at its next layout;
- the Rich list follows while a card above the last is selected: the Text view does not follow
  (`main.rs:4357`);
- a batch, a refresh, an open or a switch comes between a gesture and the frame that decides it
  (`harness_editor/src/lib.rs:2350`): a delta after a scroll to the end stops it, and one that
  shortens or replaces the text can turn a scroll or a motion that left the end into following;
- a motion is judged against the last one decided, two of them before a frame by their net
  effect: one that is taken back follows, one that ends above an older one (after a fold or a
  scroll that cleared an undecided one) stops;
- the viewport is beyond a text that got shorter (by a fold, a delta or a reset): the editor puts
  it back by a scroll that counts as one of the user to the end.

Left out: a resize of the window, which moves the end as `Disclose` and `NewTexts` do; the block
selection and the yank of Rich mode; the Vim state of the editor, of which only the cursor is kept.

### CommandPalette

`session` and `recall` are the fields of `CommandPaletteSession` and its `QueryHistory`;
`inflight` are the detached tasks of `update_matches`, which finish in any order. Opening with a
query starts two updates, since putting the query into the input emits the event that starts
one. `saved` is the file; a write that fails leaves it or cuts it short. The usage counters,
which only order the matches, are left out, and `MAX_HISTORY_ENTRIES` is a parameter.

## 3. Runs

| Run | Configuration | Shows |
|---|---|---|
| `client_safety` | `ClientSafety.cfg`: 2 calls, 1 automatic and 1 interactive request, 1 noise line, 1 I/O thread | `Correlated`, `PendingUnsettled`, `EndAnnouncedLast`, `AutoRequestKept`, and the refinement `KeepsContract` |
| `client_liveness` | `ClientLiveness.cfg`: 2 calls, 1 noise line, 2 I/O threads | `StreamEnds`, `EarlyCallSettles` |
| `client_retirement` | `ClientRetirement.cfg` | *violated:* `ClientIsRetired` |
| `session_core` | `SessionCore.cfg`: 2 threads (1 new), 2 messages, 2 turns, 3 inputs, 2 launches, 2 attempts | `ConnectingMeansLaunching`, `NeverAbandoned`, `TurnOfSelected`, `OfflineEnds` |
| `session_work`, `session_fresh` | the instance of `session_core` | *violated:* `WorkHasOwner`, `FreshTaskStaysFresh` |
| `request_safety` | `RequestSafety.cfg`: 1 id on 2 connections, 2 threads, 1 switch | `AtMostOneReply`, `LiveIsCurrent`, `LiveInOpenTask`, `LiveHasSurface`, `LatchReleased`, `LostOnlyByLoad`, `RequestsSurface` |
| `request_inert` | the same with 3 switches | *violated:* `NoInertRequest` |
| `transcript` | `Transcript.cfg`: 2 messages, 1 agent message, 1 reasoning item, 1 plan, 3 inputs, 2 notifications in flight | `IndexSound`, `AllShown`, `ReadOnlyIsWatched`, `InPlace`, `MergeInOrder`, `SavedCardsLast` |
| `transcript_steps` | `TranscriptSteps.cfg`: 1 turn with 2 reasoning items | *violated:* `StepOnce` |
| `transcript_view` | `TranscriptView.cfg`: 2 cards | `ReaderNotPulled`, `ReaderPinned`, `DocInSync`, `ActiveInRange`, `SelectionKept`, `SearchKept`, `ActiveStays` |
| `palette` | `CommandPalette.cfg`: 4 queries with common prefixes and an alias, 2 entries, 5 updates | `ShownIsCurrent`, `SelectedInRange`, `HistorySound`, `LoadingEnds`, `BrowseKeepsText` |

Where the transcript properties have exceptions they say which: `InPlace` allows one departure from
"update in place" (`quality-gates.md:53`): a load leaves the reasoning item that
is under way and not in the answer without an entry in the index (`rebuild_item_indices`,
`lib.rs:1966`, knows one item of a turn), a queued delta makes a card under the key of the item
(`append_delta`, `lib.rs:1809`), and its completion, which looks for the turn (`lib.rs:1885`),
makes another: one item, two cards. It counts protocol ids, and so not the card that the deltas
of a later item of a turn make after a load; `AllShown` does not hold for a
transcript whose load was overtaken by a notification, which the load wipes; `MergeInOrder` is
about files in the order of the thread (a message sent in the middle of a turn, or the same text
sent twice, is not, and `merge_snapshot_items` then doubles or drops cards), and excepts
messages typed before and after a restart, which are both `local-user:1` and may both be
restored; `SavedCardsLast` lists how a saved card can be lost: a turn that ends while the thread
is being opened saves the nearly empty transcript over the file and cancels the load, and a card
behind the last matched one is not restored, which is the end of a plan that was saved when the
only item behind it was still under way. `SearchKept` names the handlers that leave the
matches stale: opening, loading, sending, and a search in the text. `ReaderNotPulled` and
`ReaderPinned` name every way of following that `quality-gates.md:41-46` does not have (listed
under [TranscriptView](#transcriptview)).

**Bounds.** Two calls are enough for crossed answers and for a call that is registered while
another is drained; one line of noise stands for a repeat, a notification or a line that does
not decode. Two threads with one message each, three inputs and a second launch reach every
order of *switch, complete, switch back, crash, reconnect*; two attempts reach the cap from
below and at the cap. The run `request_safety` has one switch besides the thread that a send
selects and the one that a new connection reopens, so that its temporal property can be checked
without symmetry: all its safety properties are proved for every number of switches. A request id met on two connections, with cards saved in between, is
what makes keys collide; further ids do not interact, because every step treats ids one by
one. The proof modules lift the safety results to every value of the constants. Two messages
make two turns, an echo that meets a message of the same text, and a saved card between items;
three inputs are *open, send, send*, *open, send, restart* or *open, leave, open*. Two cards give
a selection above the last card, two matches, and a cursor above, at and below the last head.
Two history entries and four queries evict and repeat an entry; five updates let three tasks of
older texts finish after the last.
Deadlock is not checked: a user may stop acting, an app-server may be gone for good, and the
bounds on inputs end behaviours.

**Fairness.** Client: tasks of the executor are polled when ready, the host drains its stream
and drops a finished client, the child answers what it has read; users, cancellation,
notifications and crashes are not fair. Session: timers fire, a launch succeeds or fails,
calls are answered or failed (the client's `EarlyCallSettles`), the event loop runs. Requests:
the event loop runs, frames are drawn (each handler that fills `dirty` ends in `cx.notify()`),
spawned replies are polled. Palette: a task of the executor that can finish does. No property
assumes that a user acts.

### Disagreements found

Each is a run with an expected violation, and an entry under `findings`:

1. `client_retirement`: a `request()` that registers after the last drain of the table never
   settles, and keeps the client and the child alive (`client.rs:538`).
2. `session_work`: refreshing the list, also at the end of a turn, cancels a load and leaves
   `loading_thread` set, which blocks the composer (`main.rs:3290`); in the same way it loses
   a first message between `thread/start` and `turn/start`, which stays "sending".
3. `session_fresh`: `new_task` does not cancel a load or a send, whose continuation selects
   the old thread again (`main.rs:3622`); and with no thread selected, events of every thread
   are shown in the fresh task (`lib.rs:2971`).
4. `request_inert`: a request that arrives while a thread loads is wiped without an answer
   (`main.rs:3609`). `LostOnlyByLoad` shows that this is the only way.
5. `transcript_steps`: the raw text of the second reasoning item of a turn is streamed into the
   section of the first and added again when the item completes (`lib.rs:1832`, `lib.rs:3638`).

## 4. Proofs

All theorems hold for every value of the constants that satisfies the named assumption of the
module (`ConstantsAssumption`, `SessionAssumption`, `RequestAssumption`, `MaxItemsAssumption`,
`PaletteAssumption`: sentinels are not members, bounds are naturals).

**AppServerClient.** `TypeCorrect`, `AnswersCorrelate`, `TableUnsettled`, `AnswersFinal`
(`AnswerOnce`, an action property). `Correlated` is not inductive: a response is matched by an
id, so one needs that ids are distinct and below `next_id` (`IdsDistinct`), that whatever was
sent for a call carries its id all the way to stdout and back (`WireFaithful`), that table
entries are filed under their own call's id and unsettled (`PendingUnsettled`), and that a
call not yet sent can only have been failed (`SlotsFresh`). Their conjunction is `IInv`.
`StreamEndAnnounced` (`EndAnnouncedLast`) assumes one I/O thread, the default of the executor,
and needs `StreamInv`: only one task is in the middle of `disconnect()` (`OneDisconnects`), and
the announcement comes before the close, by the same task (`CloseAfterEnd`). With two threads
it does not hold: the reader may put an event behind the writer's announcement before the stream
is closed.
`AutoRequestNotDropped` (`AutoRequestKept`) is inductive as it stands, given the types of the
two queues; its lemmas say that an element stays in a queue which something is appended to, and
in one whose head is another.

**CallContract.** `ClientKeepsContract`: `Spec => KeepsContract`, that is, the initial state maps
to the initial state and every step of the client to a step of the contract or a stutter. On top
of `IInv` it needs `ContractInv`: an open call is in the table, so that a drain closes all of
them and a response finds its own (`OpenIsFiled`); a response on its way was given by the child
(`LinesServed`); and the stream is closed only on a broken connection, so that a send that fails
is a `Refuse` (`ClosedIsBroken`).

**HarnessSession.** `SessionTypes`; `LaunchFlagSound` and `RetriesNeverLost` from `ConnInv`;
`StopAddressesSelected` from `TurnInv`. `ConnInv` adds that the event loop runs exactly while
there is a client, and that a running process implies one: with these a cancelled refresh,
which leaves `connecting` set, is known to happen only with a client, and
`handle_server_disconnect` resets it. `TurnInv` adds that queued events name a started turn
under its own thread (`QueueInv`), so that applying one under the selection keeps
`TurnOfSelected`.

**RequestLifecycle.** `RequestTypes`, `OneReply`, `NoRevival`, `NoCrossTaskRequest`,
`LiveIsActionable`, `LatchIsReleased`, all from one invariant `IInv`: each request is queued
once under its own thread (`QueueInv`); a request not yet seen has no answer, live key,
surface or reply (`FreshInv`); a reply under way is the only one and nothing was answered yet,
and a live unresolved request has neither (`ReplyInv`); a surface without a live key is dirty,
and a latched live one has its reply under way (`SurfaceInv`). `FreshInv` is what rules out
that a restored card with the key of a new request lends it a stale surface or reply; it needs
the order in `load_thread` and `handle_server_disconnect`, where keys are retired together
with the marking of the surfaces.
`LossOnlyAtLoad` (`LostOnlyByLoad`, an action property) needs `LossInv` besides: a connection
that is up has its outbound queue, so that a decline is never refused, and a queued resolution
is of a request that the app-server has settled.

**CommandPalette.** `PaletteTypes`, `MatchesAreCurrent`, `SelectionInRange`,
`HistoryStaysSound`, `TypedTextSurvives` (`BrowseKeepsText`, an action property).
`ShownIsCurrent` is inductive with `TasksCurrent`: no task has a later generation than the
session, and one of the present generation computes the matches of the text in the input, so
that whatever finishes late is either dropped or right. `HistorySound` needs `RecallInv`, which
says the same of the copy that the open palette walks, and what `Remember` does to a history:
`Without` drops every occurrence of a query, keeps the rest distinct and makes room for one.

**TranscriptView.** One invariant, `IInv` (`ViewInv` and `ActiveInRange`), gives `TextInSync` and
`ActiveMatchInRange`, and with it follow the action properties `ReaderIsNotPulled`,
`ReaderIsPinned`, `SelectionStaysOnCard`, `SearchStaysExact` and `ActiveMatchStays`. `ViewInv` adds
to the invariants that a decision which waits for a frame has paused the editor and has a frame
coming (`EditorOK`), and that the visible list of an empty transcript is at its end (`EmptyAtEnd`);
without the second, a switch to the Text view of an empty transcript would follow for a user who is
above. Each operation of the editor has a lemma that says whether the editor will follow after it
(`FollowsIs`, `NoteWaits`, `ScrollWaits`, `ChangedKeeps`, `AddedPullsNot`, `LayoutKeeps`...), and
each kind of step one that says whether the view does (`CardsDecide`, `GestureDecides`,
`MoveDecides`, `ScrollDecides`, `EndFollows`, `LeavingStops`); `StepFollow` puts them together
action by action.
The search rests on `PartitionPointIs`, `InsertSound` and `RemoveSound` (a binary search of
sorted matches, and an insertion or a removal there, leave them sorted), `RetainSound`,
`ReconcileAllSound` and `UpdateSound`.

**TranscriptSession.** `SessionTheorem` is the invariant, `SessionInv`; `IndexTheorem`
(`IndexSound`) and `WatchedTheorem` (`ReadOnlyIsWatched`) follow from it, `InPlaceTheorem`
(`InPlace`) from it and the lemma on a batch. `IndexSound` is not inductive. An event files its
card under the turn that it names itself, so one needs that every event, answer and item is of
an item in the log with the turn that the log gives it (`SoundEvent`, `SoundItem`), and that
this turn does not change when the log grows (`LogGrows`, `Monotone`). A card is found by its
key, by its protocol id or by an alias of the turn's reasoning, so one needs how these names can
coincide (`SoundCard`, `CardKeys`), and that every card but a message typed here is in the index
(`SoundModel`): otherwise an upsert would make a second card for it, which is what `InPlace`
forbids. Messages typed here are excepted for a reason: two of them may have the same key.
Each operation has a lemma that it keeps a `SoundModel` and does one of three things to
the keys: nothing, a new card at the end, or an echo that takes the place of a message
(`KeyStep`; `DeltaSound`, `GeneratedSound`, `UpsertSound`); `GrownStep` chains them, `BatchSound`
folds them over a batch. `InPlace` also counts the cards with one protocol id, and for that the
index must have an entry for the protocol id of every card, and the card of a turn must have
that of one of its items (`KnownInv`, `KnownTheorem`): a card then is new only when neither its
key nor its protocol id had an entry (`NoTwin`, `KnownStep`), but for the card of a turn, which
is looked up by the turn. `TwinIs` says what that one case looks like. For `ReadOnlyIsWatched` the invariant keeps that an answer which is not
loaded yet shows its own version (`Shows`), that a load merges without losing a card of the
thread (`AllUpserted`, `MergeSound`, `LoadSound`), and that a read-only thread has no
subscription and therefore no batch that could change it.

`AllShownTheorem` (`AllShown`) needs a second invariant, `ShowInv`: everything the server
completed is in full on its card already, or in the answer that is waiting to be loaded, or in
a notification in the channel after which nothing cuts it short. The last clause is where the
work is. What gives a text (`Gives`: a completed item, or the end of a turn that carries it) can
be spoilt only by an older event of the same item with another text (`Spoils`), and `Mended` says
that each such event is followed by one that gives it; deltas that were queued before the
snapshot merely append to a card that the completed item behind them sets again. `UpsertShows`,
`EventShows` and `BatchShows` carry this through an item, an event and a batch, `LoadShows`
through a load and its merge, and each action has a lemma (`BeginShows` ... `RefreshShows`) that
`ShowStep` puts together. `Says` and `MergeSays` do the same for reasoning, whose text is in a
section and not alone on its card.

`MergeInOrderTheorem` (`MergeInOrder`) has two halves. The second, that every saved plan is
back before the items that it was saved before, holds of `merge_snapshot_items` for any two
lists of cards: `MergeOk` says where the loop stands after each saved card (`MergeOkStep`,
`MergeOkAll`), `PlansBack` which cards it has put back and before what (`PlansStep`, `PlansAll`),
and `MergePlans` reads the result off. The first, that no card is there twice, does not hold of
any two lists: what is twice on disk stays twice. And the file really can have a card twice, for
a load that finds the saved cards in another order keeps both, and the next turn saves them. The
invariant `MergeInv` says which these are: only cards whose item the server completed
(`Settled`), and messages typed here (`Locals`). The items of such cards are in every answer
that is awaited, so that a file which has one of them twice is not in the order of that thread,
and `MergeInOrder` does not speak of it. For this `MergeInv` also needs that only the last item
of a thread may be under way (`OneUnderWay`). `MergeApart` carries it through the merge,
`FreshAll` through the cards made of a thread, `BatchApart`, `SendApart`, `LoadApart`,
`RefreshApart` and `OpenApart` through the actions, and `OrderedLoad` combines it with
`InOrder`.

**Folds.** The loops of the code are `FoldLeft` in the models, which the library defines by a
recursive choice. `FoldLemmas` proves once that the choice exists and what its partial results
are (`FoldExists`, `FoldParts`), with the recursion and the induction over the length expressed
through sets instead of operator parameters (`SetInduction`, `BoundedInduction`); `RetainParts`,
`ReconcileParts` and the lemmas on `Without` instantiate it. So what a loop computes is proved
for every length, although the library's own induction theorems are out of reach.

**Only model-checked.** The liveness properties, which need fairness and are beyond the
prover; of the transcript `SavedCardsLast`, which relates the order of the cards on disk to the
log, through snapshots that are overtaken and notifications that arrive after a card was
saved; and every violation. The properties of the transcript were also tried on random
behaviours of larger instances (3 messages, 2 agent messages, 2 reasoning items of 2 words, 3
texts, up to 12 inputs, 4 notifications in flight). That, and the proofs, showed three of them
to be false beyond the bounds of the run as they first stood, and they now say what the code
does: the exception for restored messages in `MergeInOrder`; in `AllShown` that the section with
a reasoning item's text may go on with that of the next (the behaviour of `transcript_steps`);
and in `SavedCardsLast` that an item under way need not be in the thread that is read.

## 5. Plan

Done: transport, session, requests; the contract of a call and its refinement; the transcript
with its persistence and the read-only refresh; the views with search; the palette.

Next, in this order:

1. A proof of `SavedCardsLast`, from an invariant on the order of the cards on disk.
2. The raw journal at its limit, and the cards that take their key from it.
3. The pure algorithms `fair_line_allocations`, `minimal_text_edit` and `find_wrapped_match`.

## 6. Not modelled

Rendering, markdown projection, fonts and fold geometry, performance reports and image previews
are layout and I/O without state that a protocol property could relate to. The drafts and forms
of a request surface are sequential and local to one view.

Upstream Zed (gpui, editor, vim, language, project, workspace, agent_ui, git_ui and the other
crates of the fork) is third-party code that the harness is built on. It makes up nearly all of
the repository's 1.3 million lines; the harness itself is the crates `harness_app`,
`harness_protocol`, `harness_editor`, `codex_app_server_client` and `command_palette_core`. The
map therefore covers a small share of the repository by lines. Of upstream, the models use what
the harness relies on: entity updates and tasks of gpui's executor are the atomic steps, and
`TranscriptView` models the following of `ListState` and the autoscroll of the editor.
