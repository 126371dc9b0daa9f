------------------------- MODULE TranscriptSession -------------------------
(***************************************************************************)
(* The transcript of one thread as HarnessApp keeps it (main.rs): the      *)
(* thread is opened, its snapshot is merged with the cards on disk, its    *)
(* notifications are applied in batches, messages are sent, the cards are  *)
(* saved when a turn ends, the process restarts, and a thread that another *)
(* client owns is only read, again and again.                              *)
(*                                                                         *)
(* The answer to a call and the notifications reach the UI thread on two   *)
(* channels, so their order on the pipe is lost.  The app-server is        *)
(* external: it streams the items of a turn and returns what it has of     *)
(* them.  An action of the app is one handler or one poll of a task.       *)
(***************************************************************************)
EXTENDS TranscriptModel, FiniteSets

CONSTANTS
  Users,        \* items of kind userMessage; each one opens a turn and names it
  Agents,       \* agentMessage
  Reasonings,   \* reasoning
  Texts,        \* what a user may say
  NoTurn,
  Words,        \* words the text of an item is streamed in
  MaxInputs,    \* bound: opens, leaves, sends and restarts
  MaxPlans,     \* bound: updates of a plan
  MaxWire       \* bound: notifications not applied yet

Items == Users \cup Agents \cup Reasonings

\* The keys of the cards; a generated card is one of a turn.
Generated == {"turn-plan", "turn-completion"}

Keys == ({"item"} \X Items) \cup (({"turn-reasoning"} \cup Generated) \X Users)
          \cup ({"local-user"} \X Nat)

ASSUME SessionAssumption ==
  /\ NoTurn \notin Users
  /\ Users \cap Agents = {} /\ Users \cap Reasonings = {} /\ Agents \cap Reasonings = {}
  /\ NoKey \notin Keys
  /\ Words \in Nat \ {0}
  /\ {MaxInputs, MaxPlans, MaxWire} \subseteq Nat

VARIABLES
  model,        \* HarnessApp.model
  view,         \* is the thread selected, and is its load awaited, done or failed
  readOnly,     \* thread_read_only_reason
  reply,        \* the answer of thread/resume or thread/read that request_task will see
  calls,        \* turn/start calls: the message, and "asked", "sent" or "failed"
  watch,        \* the message whose turn/start request_task awaits
  refresher,    \* read_only_refresh_task: where it is, and its active flag
  loadedAt,     \* loaded_thread_updated_at of a read-only thread: nothing else reads it
  disk,         \* the transcript on disk
  wire,         \* notifications in the client's event channel
  subscribed,   \* the connection resumed the thread
  turn,         \* the running turn
  log,          \* the items of the thread, in the order they were started
  words,        \* words streamed of each item; Words + 1 when it is completed
  said,         \* the text of each user item
  inputs,       \* inputs of the user so far
  plans,        \* updates of a plan so far
  overtaken     \* history: a notification was applied ahead of the older snapshot

appVars    == <<model, view, readOnly, reply, watch, refresher, loadedAt, overtaken>>
serverVars == <<turn, log, words, said>>
bounds     == <<inputs, plans>>
vars       == <<appVars, serverVars, calls, disk, wire, subscribed, bounds>>

NoReply == [none |-> TRUE]

-----------------------------------------------------------------------------
(* The thread at the server.                                               *)

KindOf(i) == IF i \in Users THEN "user" ELSE IF i \in Agents THEN "agent" ELSE "reasoning"

Least(a, b) == IF a < b THEN a ELSE b

\* The text of an item so far: one section.
TextOf(i) ==
  IF i \in Users THEN <<<<said[i]>>>>
  ELSE IF words[i] = 0 THEN <<>>
  ELSE <<[n \in 1..Least(words[i], Words) |-> <<i, n>>]>>

FullText(i) == <<[n \in 1..Words |-> <<i, n>>]>>

Started(i)   == i \in ToSet(log)
Completed(i) == Started(i) /\ words[i] = Words + 1

\* The turn of an item: the last message at or before it.
TurnIn(items, i) ==
  LET isItem(j) == j = i
      isUser(j) == j \in Users
  IN  items[SelectLastInSubSeq(items, 1, SelectInSeq(items, isItem), isUser)]

TurnOf(i) == TurnIn(log, i)

ItemNow(i) == ProtocolItem(i, KindOf(i), TurnOf(i), TextOf(i))

\* thread.turns: what is completed, and perhaps the last item, if it is under way.
ThreadNow(partial) ==
  LET shown == IF partial \/ log = <<>> \/ Completed(Last(log)) THEN log ELSE Front(log)
  IN  [p \in DOMAIN shown |-> ItemNow(shown[p])]

\* updated_at: every change of the thread gives it a new value.
UpdatedAt == [log |-> log, words |-> words, turn |-> turn]
Unloaded  == [log |-> <<>>, words |-> <<>>, turn |-> NoTurn]

\* Notifications go to a connection that resumed the thread.
Emit(events) ==
  /\ subscribed => Len(wire) + Len(events) <= MaxWire
  /\ wire' = IF subscribed THEN wire \o events ELSE wire

Input == inputs < MaxInputs /\ inputs' = inputs + 1

Init ==
  /\ model = NewModel
  /\ view = "closed"
  /\ readOnly = FALSE
  /\ reply = NoReply
  /\ calls = {}
  /\ watch = NoKey
  /\ refresher = [at |-> "off", active |-> FALSE]
  /\ loadedAt = Unloaded
  /\ disk = <<>>
  /\ wire = <<>>
  /\ subscribed = FALSE
  /\ turn = NoTurn
  /\ log = <<>>
  /\ words = [i \in Items |-> 0]
  /\ said \in [Users -> Texts]
  /\ inputs = 0
  /\ plans = 0
  /\ overtaken = FALSE

\* A turn begins with the message of its user, which comes as a completed item.
BeginTurn(u, text) ==
  /\ turn = NoTurn
  /\ ~Started(u)
  /\ turn' = u
  /\ log' = Append(log, u)
  /\ words' = [words EXCEPT ![u] = Words + 1]
  /\ said' = [said EXCEPT ![u] = text]
  /\ Emit(<<ItemEvent(ProtocolItem(u, "user", u, <<<<text>>>>), TRUE)>>)

\* Another client starts a turn.
ForeignTurn(u) ==
  /\ ~subscribed
  /\ BeginTurn(u, said[u])
  /\ UNCHANGED <<appVars, calls, disk, subscribed, bounds>>

\* turn/start of a message from here is accepted, or refused.
ServerAccepts(c, u) ==
  /\ c.phase = "asked"
  /\ BeginTurn(u, c.text)
  /\ calls' = (calls \ {c}) \cup {[c EXCEPT !.phase = "sent"]}
  /\ UNCHANGED <<appVars, disk, subscribed, bounds>>

ServerRefuses(c) ==
  /\ c.phase = "asked"
  /\ calls' = (calls \ {c}) \cup {[c EXCEPT !.phase = "failed"]}
  /\ UNCHANGED <<appVars, serverVars, disk, wire, subscribed, bounds>>

\* item/started; the items of a turn come one after the other, reasoning before an answer.
ServerStarts(i) ==
  /\ turn # NoTurn
  /\ ~Started(i)
  /\ \A j \in ToSet(log) : Completed(j)
  /\ i \in Reasonings => Last(log) \notin Agents
  /\ log' = Append(log, i)
  /\ Emit(<<ItemEvent(ProtocolItem(i, KindOf(i), turn, <<>>), FALSE)>>)
  /\ UNCHANGED <<appVars, turn, words, said, calls, disk, subscribed, bounds>>

\* A delta of an agent message, or of reasoning: the first word of a summary comes after a
\* summaryPartAdded, the first word of raw reasoning text does not.
ServerStreams(i, summary) ==
  /\ Started(i) /\ words[i] < Words
  /\ summary => i \in Reasonings /\ words[i] = 0
  /\ words' = [words EXCEPT ![i] = @ + 1]
  /\ LET delta == DeltaEvent(i, KindOf(i), <<i, words[i] + 1>>)
     IN  Emit(IF summary THEN <<PartEvent(i), delta>> ELSE <<delta>>)
  /\ UNCHANGED <<appVars, turn, log, said, calls, disk, subscribed, bounds>>

\* item/completed, with the full text.
ServerCompletes(i) ==
  /\ Started(i) /\ words[i] = Words
  /\ words' = [words EXCEPT ![i] = Words + 1]
  /\ Emit(<<ItemEvent(ProtocolItem(i, KindOf(i), TurnOf(i), FullText(i)), TRUE)>>)
  /\ UNCHANGED <<appVars, turn, log, said, calls, disk, subscribed, bounds>>

\* turn/completed, once every item of the turn is; its items may come along, but not with
\* a turn that failed.
ServerEndsTurn(full, failed) ==
  /\ turn # NoTurn
  /\ failed => ~full
  /\ \A i \in ToSet(log) : Completed(i)
  /\ LET isTurn(i) == i = turn
         from == SelectInSeq(log, isTurn)
     IN  Emit(<<TurnEvent(turn, IF full THEN SubSeq(ThreadNow(FALSE), from, Len(log)) ELSE <<>>,
                          failed)>>)
  /\ turn' = NoTurn
  /\ UNCHANGED <<appVars, log, words, said, calls, disk, subscribed, bounds>>

\* turn/plan/updated: a card that the thread itself does not have.  It comes before the first
\* item of its turn, which bounds the number of orders.
ServerPlans ==
  /\ plans < MaxPlans
  /\ turn # NoTurn /\ Last(log) = turn /\ subscribed
  /\ plans' = plans + 1
  /\ Emit(<<PlanEvent(turn, <<<<<<NoKey, plans + 1>>>>>>)>>)
  /\ UNCHANGED <<appVars, serverVars, calls, disk, subscribed, inputs>>

\* thread/resume is answered and subscribes the connection; when another client owns the
\* thread it fails and the answer of thread/read is used.
ServerResumes(partial, owned) ==
  /\ view = "loading" /\ reply = NoReply
  /\ subscribed => owned
  /\ reply' = [none |-> FALSE, thread |-> ThreadNow(partial), readOnly |-> ~owned,
               updatedAt |-> IF owned THEN Unloaded ELSE UpdatedAt, active |-> turn # NoTurn]
  /\ subscribed' = owned
  /\ UNCHANGED <<model, view, readOnly, watch, refresher, loadedAt, overtaken, serverVars,
                 calls, disk, wire, bounds>>
-----------------------------------------------------------------------------
(* HarnessApp.                                                             *)

StopRefresher == refresher' = [at |-> "off", active |-> FALSE]

\* open_thread: the transcript is cleared at once and loaded when the calls are answered.
OpenThread ==
  /\ Input
  /\ view' = "loading"
  /\ model' = clear(model)
  /\ readOnly' = FALSE
  /\ reply' = NoReply
  /\ watch' = NoKey
  /\ StopRefresher
  /\ loadedAt' = Unloaded
  /\ overtaken' = FALSE
  /\ UNCHANGED <<serverVars, calls, disk, wire, subscribed, plans>>

\* Mutant: the refresher is not started.
LoadUnwatched ==
  /\ view = "loading" /\ reply # NoReply
  /\ view' = "open"
  /\ model' = merge_persisted_transcript(load_thread(model, reply.thread), disk)
  /\ readOnly' = reply.readOnly
  /\ loadedAt' = reply.updatedAt
  /\ UNCHANGED refresher
  /\ reply' = NoReply
  /\ UNCHANGED <<watch, overtaken, serverVars, calls, disk, wire, subscribed, bounds>>

\* The rest of open_thread: load_thread, then the cards on disk are merged in.
LoadThread ==
  /\ view = "loading" /\ reply # NoReply
  /\ view' = "open"
  /\ model' = merge_persisted_transcript(load_thread(model, reply.thread), disk)
  /\ readOnly' = reply.readOnly
  /\ loadedAt' = reply.updatedAt
  /\ refresher' = IF reply.readOnly THEN [at |-> "timer", active |-> reply.active] ELSE refresher
  /\ reply' = NoReply
  /\ UNCHANGED <<watch, overtaken, serverVars, calls, disk, wire, subscribed, bounds>>

\* thread/read failed: the thread stays selected, with nothing in its transcript and a reason
\* not to send.
LoadFails ==
  /\ view = "loading" /\ reply = NoReply
  /\ view' = "unloaded"
  /\ readOnly' = TRUE
  /\ UNCHANGED <<model, reply, watch, refresher, loadedAt, overtaken, serverVars,
                 calls, disk, wire, subscribed, bounds>>

\* Another thread is opened; its own cards are left out.
LeaveThread ==
  /\ Input
  /\ view # "closed"
  /\ view' = "closed"
  /\ model' = clear(model)
  /\ readOnly' = FALSE
  /\ reply' = NoReply
  /\ watch' = NoKey
  /\ StopRefresher
  /\ loadedAt' = Unloaded
  /\ overtaken' = FALSE
  /\ UNCHANGED <<serverVars, calls, disk, wire, subscribed, plans>>

\* Mutant: only the last turn is saved.
SaveLastTurn ==
  LET ends == \E p \in DOMAIN wire : wire[p].type = "turn"
  IN  /\ wire # <<>>
      /\ wire' = <<>>
      /\ IF view = "closed"
         THEN UNCHANGED <<model, view, reply, watch, disk, overtaken>>
         ELSE /\ model' = apply_batch(model, wire)
              /\ disk' = IF ends THEN LET isUser(card) == card.kind = "user"
                                          from == SelectLastInSeq(model'.items, isUser)
                                      IN  SubSeq(model'.items, IF from = 0 THEN 1 ELSE from,
                                                 Len(model'.items))
                          ELSE disk
              /\ view' = IF ends /\ view = "loading" THEN "unloaded" ELSE view
              /\ reply' = IF ends THEN NoReply ELSE reply
              /\ watch' = IF ends THEN NoKey ELSE watch
              /\ overtaken' = (overtaken \/ reply # NoReply)
      /\ UNCHANGED <<readOnly, refresher, loadedAt, serverVars, calls, subscribed, bounds>>

\* apply_event_batch: everything in the channel.  The end of a turn saves the transcript, in a
\* new file that replaces the old one or, if that fails, does not; and it takes request_task
\* over to refresh the list of threads, which drops what it awaited.
ApplyBatch ==
  LET ends == \E p \in DOMAIN wire : wire[p].type = "turn"
  IN  /\ wire # <<>>
      /\ wire' = <<>>
      /\ IF view = "closed"
         THEN UNCHANGED <<model, view, reply, watch, disk, overtaken>>
         ELSE /\ model' = apply_batch(model, wire)
              /\ disk' \in IF ends THEN {model'.items, disk} ELSE {disk}
              /\ view' = IF ends /\ view = "loading" THEN "unloaded" ELSE view
              /\ reply' = IF ends THEN NoReply ELSE reply
              /\ watch' = IF ends THEN NoKey ELSE watch
              /\ overtaken' = (overtaken \/ reply # NoReply)
      /\ UNCHANGED <<readOnly, refresher, loadedAt, serverVars, calls, subscribed, bounds>>

\* send: the message is shown at once, and its turn/start takes request_task over.
Send(text) ==
  /\ Input
  /\ view = "open" /\ ~readOnly
  /\ model' = push_local_user(model, <<<<text>>>>)
  /\ watch' = LocalKey(model'.local)
  /\ calls' = calls \cup {[key |-> LocalKey(model'.local), text |-> text, phase |-> "asked"]}
  /\ UNCHANGED <<view, readOnly, reply, refresher, loadedAt, overtaken, serverVars, disk, wire,
                 subscribed, plans>>

\* The rest of send.
SendAnswered(c) ==
  /\ c.phase # "asked" /\ c.key = watch
  /\ model' = set_status_for_key(model, c.key, c.phase)
  /\ watch' = NoKey
  /\ calls' = calls \ {c}
  /\ UNCHANGED <<view, readOnly, reply, refresher, loadedAt, overtaken, serverVars, disk, wire,
                 subscribed, bounds>>

\* The process ends and starts again; only the file is left.
Restart ==
  /\ Input
  /\ model' = NewModel
  /\ view' = "closed"
  /\ readOnly' = FALSE
  /\ reply' = NoReply
  /\ calls' = {}
  /\ watch' = NoKey
  /\ StopRefresher
  /\ loadedAt' = Unloaded
  /\ wire' = <<>>
  /\ subscribed' = FALSE
  /\ overtaken' = FALSE
  /\ UNCHANGED <<serverVars, disk, plans>>

-----------------------------------------------------------------------------
(* The loop of schedule_read_only_refresh.  Nothing the app does depends on *)
(* the time between an answer and its use, so they are one step.            *)

RefreshRest ==
  UNCHANGED <<view, readOnly, reply, watch, overtaken, serverVars, calls, disk, wire, subscribed,
              bounds>>

\* An idle thread is read only when the list shows that it changed.
RefreshTimer ==
  /\ refresher.at = "timer"
  /\ refresher' = [refresher EXCEPT !.at = IF refresher.active THEN "read" ELSE "list"]
  /\ UNCHANGED <<model, loadedAt>> /\ RefreshRest

RefreshLists ==
  /\ refresher.at = "list"
  /\ refresher' = [refresher EXCEPT !.at = IF UpdatedAt # loadedAt THEN "read" ELSE "timer"]
  /\ UNCHANGED <<model, loadedAt>> /\ RefreshRest

RefreshReads(partial) ==
  /\ refresher.at = "read"
  /\ refresher' = [at |-> "timer", active |-> turn # NoTurn]
  /\ model' = refresh_thread(model, ThreadNow(partial))
  /\ loadedAt' = UpdatedAt
  /\ RefreshRest

\* A call failed: the loop waits for its timer again.
RefreshFails ==
  /\ refresher.at \in {"list", "read"}
  /\ refresher' = [refresher EXCEPT !.at = "timer"]
  /\ UNCHANGED <<model, loadedAt>> /\ RefreshRest

-----------------------------------------------------------------------------
ServerNext ==
  \/ \E u \in Users : ForeignTurn(u)
  \/ \E c \in calls : ServerRefuses(c) \/ \E u \in Users : ServerAccepts(c, u)
  \/ \E i \in Agents \cup Reasonings :
       \/ ServerStarts(i)
       \/ \E summary \in BOOLEAN : ServerStreams(i, summary)
       \/ ServerCompletes(i)
  \/ \E full, failed \in BOOLEAN : ServerEndsTurn(full, failed)
  \/ ServerPlans
  \/ \E partial, owned \in BOOLEAN : ServerResumes(partial, owned)

RefreshNext ==
  RefreshTimer \/ RefreshLists \/ RefreshFails \/ \E partial \in BOOLEAN : RefreshReads(partial)

AppNext ==
  \/ OpenThread \/ LoadThread \/ LoadFails \/ LeaveThread \/ ApplyBatch \/ Restart
  \/ \E text \in Texts : Send(text)
  \/ \E c \in calls : SendAnswered(c)
  \/ RefreshNext

Next == ServerNext \/ AppNext

Spec == Init /\ [][Next]_vars

-----------------------------------------------------------------------------
(* Properties.                                                             *)

cards == model.items

CardsOf(i) == {p \in DOMAIN cards : cards[p].pid = ItemKey(i)}

SavedKey(saved, key) == \E p \in DOMAIN saved : saved[p].key = key

\* An event finds the card it is about: whatever streams, echoes, loads, merges and
\* restarts came before, the entry of a key is a card with that key or protocol id, or the
\* reasoning card of the turn of that item (item_indices).
IndexSound ==
  /\ model.index \in [DOMAIN model.index -> DOMAIN cards]
  /\ \A k \in DOMAIN model.index :
    LET card == cards[model.index[k]]
    IN  \/ k \in KeysOf(card)
        \/ \E r \in Reasonings : /\ Started(r) /\ k = ItemKey(r)
                                /\ card.key = ReasoningKey(TurnOf(r))

\* Once the channel is empty an open transcript has everything the server completed, in
\* full, also when deltas that were queued before the snapshot were applied on top of it.
\* Only a notification that was applied before the older snapshot was loaded is lost.  Of
\* reasoning the full text is in a section, which may go on with the text of a later item.
AllShown ==
  view = "open" /\ ~readOnly /\ wire = <<>> /\ ~overtaken =>
    \A i \in Items : Completed(i) =>
      IF i \in Reasonings
      THEN \E p \in DOMAIN cards : /\ cards[p].key = ReasoningKey(TurnOf(i))
                                  /\ \E section \in ToSet(cards[p].content) :
                                       FullText(i)[1] \in SubSeqs(section)
      ELSE \E p \in CardsOf(i) : cards[p].content = TextOf(i)

\* A thread that is shown read-only is looked at again and again: unless its load failed the
\* refresher runs as long as the thread is read-only, for no other thread, and the cards are
\* those of the version that the refresher compares the list with.
ReadOnlyIsWatched ==
  /\ refresher.at # "off" <=> readOnly /\ view = "open"
  /\ readOnly /\ view = "open" /\ UpdatedAt = loadedAt =>
       \A i \in Agents : Completed(i) => \E p \in CardsOf(i) : cards[p].content = TextOf(i)

\* docs/quality-gates.md: started, streamed, completed and echoed states update in place,
\* without duplicates.  A batch moves and drops no card, changes the key only of
\* a message typed here, to that of the item it became, makes no card with the key of another
\* one, and no second card with one protocol id, but one.  A load leaves a reasoning item that
\* is under way and not in the answer without an entry in the index: a delta then makes a card
\* under the key of the item, and its completion, which knows the turn, one more for the
\* reasoning of the turn.  The card of a turn has the protocol id of its first item only, so a
\* card that the deltas of a later one make after a load is not counted.
InPlace ==
  [][ApplyBatch /\ view # "closed" =>
       /\ \A p \in DOMAIN cards :
            /\ p \in DOMAIN cards'
            /\ cards'[p].key = cards[p].key \/ cards[p].key[1] = "local-user"
       /\ \A p, q \in DOMAIN cards' : p < q /\ q \notin DOMAIN cards =>
            /\ cards'[p].key # cards'[q].key
            /\ cards'[p].pid = cards'[q].pid /\ cards'[q].pid # NoKey =>
                 \E r \in Reasonings : /\ cards'[p].key = ItemKey(r)
                                       /\ cards'[q].key = ReasoningKey(TurnOf(r))]_vars

StandsFor(saved, card) == saved.key = card.key \/ items_are_semantically_equal(saved, card)

\* What was saved comes in the order of the thread, one saved card for one of the thread.
InOrder(saved, fresh) ==
  \A o, p \in DOMAIN saved, f, g \in DOMAIN fresh :
    o < p /\ StandsFor(saved[o], fresh[f]) /\ StandsFor(saved[p], fresh[g]) => f < g

\* merge_snapshot_items, if what was saved is in the order of the thread: after a load no
\* card is there twice, and a saved card that the thread does not have is back, before
\* every item that it was saved before.  Only messages typed before and after a restart may
\* have the same key.
MergeInOrder ==
  [][LET fresh == load_thread(model, reply.thread).items
     IN  LoadThread /\ InOrder(disk, fresh) =>
           /\ \A p, q \in DOMAIN cards' :
                cards'[p].key = cards'[q].key => p = q \/ cards'[p].key[1] = "local-user"
           /\ \A p, q \in DOMAIN disk, f \in DOMAIN fresh :
                p < q /\ disk[p].kind = "plan" /\ fresh[f].key = disk[q].key =>
                  \E m, n \in DOMAIN cards' :
                    m < n /\ cards'[m] = disk[p] /\ cards'[n] = fresh[f]]_vars

\* The file loses such a card only when the transcript is saved before it was loaded (a turn
\* ends while the thread is being opened), when no item was saved behind the card but one that
\* was under way, which the thread need not return, or when the message of another turn was
\* saved before it.
SavedCardsLast ==
  [][\A p \in DOMAIN disk :
       disk[p].kind = "plan" /\ ~SavedKey(disk', disk[p].key) =>
         \/ view # "open"
         \/ \A q \in DOMAIN disk :
              q > p => disk[q].pid = NoKey \/ disk[q].status \in {"streaming", "running"}
         \/ \E o \in 1..p : disk[o].kind = "user" /\ disk[o].key # ItemKey(disk[p].key[2])]_vars

\* docs/quality-gates.md: streaming must not duplicate prior reasoning steps.
StepOnce ==
  \A p \in DOMAIN cards : \A r \in Reasonings :
    Cardinality({n \in DOMAIN cards[p].content : <<r, 1>> \in ToSet(cards[p].content[n])}) <= 1
=============================================================================
