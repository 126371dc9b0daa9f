--------------------------- MODULE HarnessSession --------------------------
(***************************************************************************)
(* The session state of HarnessApp (crates/harness_app/src/main.rs): which *)
(* thread is selected, loaded and read-only, the connection with its       *)
(* bounded automatic reconnect, and the slots server_task, request_task    *)
(* and reconnect_task, whose assignment cancels the task they held.        *)
(*                                                                         *)
(* All of HarnessApp runs on the UI thread; an action is one handler or    *)
(* the continuation of one await.  A request sent by a cancelled task      *)
(* still reaches the app-server (orphans).  The reader delivers a response *)
(* at once and an event after STREAM_FRAME, so a response is applied in    *)
(* the step that produces it, while earlier events may still be queued.    *)
(***************************************************************************)
EXTENDS Naturals, Sequences, FiniteSets

CONSTANTS
  Threads,        \* thread ids the app-server may hand out
  Existing,       \* those that exist when the app starts
  NoThread,
  MaxReconnectAttempts,
  MaxTurns,       \* bound: turns started
  MaxSends,       \* bound: messages sent from the composer
  MaxInputs,      \* bound: other user inputs (new task, open, stop, refresh)
  MaxLaunches     \* bound: successful launches of the app-server

ASSUME SessionAssumption ==
  /\ Existing \subseteq Threads
  /\ NoThread \notin Threads
  /\ MaxReconnectAttempts \in Nat
  /\ MaxTurns \in Nat /\ MaxSends \in Nat /\ MaxInputs \in Nat /\ MaxLaunches \in Nat

VARIABLES
  client,       \* HarnessApp.client is Some
  connecting,   \* HarnessApp.connecting
  attempts,     \* HarnessApp.reconnect_attempts
  serverTask,   \* server_task: "idle", "connecting" or "listening"
  query,        \* the thread connect() will reopen, and the input that chose it
  timer,        \* reconnect_task is waiting
  list,         \* HarnessApp.threads
  selected,     \* HarnessApp.selected_thread_id
  loading,      \* HarnessApp.loading_thread
  readOnly,     \* HarnessApp.thread_read_only_reason is Some
  shown,        \* the threads the items in the transcript model belong to
  currentTurn,  \* model.current_turn_id; 0 is None
  messages,     \* status of each message sent from the composer
  task,         \* request_task: the call it awaits
  inputs,       \* user inputs so far
  selectedBy,   \* the user input that led to the current selection
  orphans,      \* calls of cancelled tasks that the app-server still handles
  up,           \* the app-server process runs
  launches,     \* successful launches so far
  created,      \* threads the app-server knows
  subscribed,   \* threads this connection receives events of
  turns,        \* for each turn started so far, its thread and its message
  active,       \* turns that are running
  queue         \* events emitted and not yet applied

connVars   == <<client, connecting, attempts, serverTask, query, timer>>
viewVars   == <<list, selected, loading, readOnly, selectedBy>>
modelVars  == <<shown, currentTurn, messages>>
serverVars == <<up, launches, created, subscribed, turns, active, queue>>
vars == <<connVars, viewVars, modelVars, task, inputs, orphans, serverVars>>

Messages == 1..MaxSends
Turns    == 1..Len(turns)
Query    == [thread : Threads \cup {NoThread}, by : Nat]
Task     == [op : {"none", "list", "startThread"}, thread : {NoThread},
             msg : Nat, turn : Nat, by : Nat, launch : Nat]
            \cup [op : {"read", "resume", "startTurn", "interrupt"}, thread : Threads,
                  msg : Nat, turn : Nat, by : Nat, launch : Nat]
NoTask   == [op |-> "none", thread |-> NoThread, msg |-> 0, turn |-> 0, by |-> 0, launch |-> 0]
Turn     == [thread : Threads, msg : Nat]
TaskEvent == [kind : {"started", "completed"}, thread : Threads, turn : Nat]

\* Calls that change the app-server even when nobody waits for the answer.
HasEffect(t) == t.op \in {"resume", "startThread", "startTurn", "interrupt"}

Init ==
  /\ client = FALSE /\ connecting = TRUE /\ attempts = 0
  /\ serverTask = "connecting" /\ query = [thread |-> NoThread, by |-> 0] /\ timer = FALSE
  /\ list = {} /\ selected = NoThread /\ loading = FALSE /\ readOnly = FALSE /\ selectedBy = 0
  /\ shown = {} /\ currentTurn = 0 /\ messages = [m \in Messages |-> "unused"]
  /\ task = NoTask /\ inputs = 0 /\ orphans = {}
  /\ up = FALSE /\ launches = 0 /\ created = Existing /\ subscribed = {}
  /\ turns = <<>> /\ active = {} /\ queue = <<>>

----------------------------------------------------------------------------
(* Shared effects.                                                         *)

\* TranscriptModel::clear.
ClearModel ==
  /\ shown' = {} /\ currentTurn' = 0
  /\ messages' = [m \in Messages |-> IF messages[m] = "unused" THEN "unused" ELSE "gone"]

\* A task keeps the client it was spawned with: only the process of that launch,
\* while it runs, handles its calls.
Served == up /\ task.launch = launches
Asked  == [NoTask EXCEPT !.launch = launches]

\* Assigning request_task drops the task it held, which may or may not have
\* been polled, and so have sent its call, before.
SpawnRequest(t) ==
  /\ task' = t
  /\ \/ orphans' = orphans
     \/ HasEffect(task) /\ Served /\ orphans' = orphans \cup {task}

SetStatus(m, status) ==
  messages' = [messages EXCEPT ![m] = IF @ = "gone" THEN "gone" ELSE status]

\* The body of connect(), past its guard.
StartConnect ==
  /\ connecting' = TRUE
  /\ serverTask' = "connecting"
  /\ query' = [thread |-> selected, by |-> selectedBy]

\* Mutant: the cap on attempts is not checked.
ScheduleAlways == attempts' = attempts + 1 /\ timer' = TRUE

\* schedule_reconnect with no client and connecting already reset.
ScheduleReconnect ==
  IF attempts < MaxReconnectAttempts
  THEN attempts' = attempts + 1 /\ timer' = TRUE
  ELSE UNCHANGED <<attempts, timer>>

\* open_thread, for a thread in the list and a connected client.
OpenThreadBody(t, by, launch) ==
  /\ selected' = t /\ selectedBy' = by
  /\ loading' = TRUE /\ readOnly' = FALSE
  /\ ClearModel
  /\ SpawnRequest([NoTask EXCEPT !.op = "read", !.thread = t, !.by = by, !.launch = launch])

----------------------------------------------------------------------------
(* Connection.                                                             *)

\* The handshake succeeded; the thread selected when connect() began is
\* reopened if the app-server lists it.
ConnectOk ==
  /\ serverTask = "connecting"
  /\ launches < MaxLaunches
  /\ client' = TRUE /\ connecting' = FALSE /\ attempts' = 0
  /\ serverTask' = "listening"
  /\ list' = created
  /\ up' = TRUE /\ launches' = launches + 1
  /\ IF query.thread \in created
     THEN OpenThreadBody(query.thread, query.by, launches + 1)
     ELSE UNCHANGED <<selected, selectedBy, loading, readOnly, modelVars, task, orphans>>
  /\ UNCHANGED <<query, timer, inputs, created, subscribed, turns, active, queue>>

\* Mutant: the failure is reported and no retry scheduled.
ConnectFailGivesUp ==
  /\ serverTask = "connecting"
  /\ connecting' = FALSE
  /\ serverTask' = "idle"
  /\ UNCHANGED <<client, attempts, timer, query, viewVars, modelVars, task, inputs, orphans,
                 serverVars>>

ConnectFail ==
  /\ serverTask = "connecting"
  /\ connecting' = FALSE
  /\ serverTask' = "idle"
  /\ ScheduleReconnect
  /\ UNCHANGED <<client, query, viewVars, modelVars, task, inputs, orphans, serverVars>>

\* Mutant: the timer only reconnects a connected client.
ReconnectTimerNever ==
  /\ timer
  /\ timer' = FALSE
  /\ IF client /\ ~connecting THEN StartConnect
     ELSE UNCHANGED <<connecting, serverTask, query>>
  /\ UNCHANGED <<client, attempts, viewVars, modelVars, task, inputs, orphans, serverVars>>

ReconnectTimer ==
  /\ timer
  /\ timer' = FALSE
  /\ IF ~client /\ ~connecting THEN StartConnect
     ELSE UNCHANGED <<connecting, serverTask, query>>
  /\ UNCHANGED <<client, attempts, viewVars, modelVars, task, inputs, orphans, serverVars>>

\* Mutant: connecting, which a cancelled refresh left set, is not reset, so
\* schedule_reconnect returns early.
DisconnectKeepsConnecting ==
  /\ serverTask = "listening"
  /\ ~up /\ queue = <<>>
  /\ client' = FALSE
  /\ serverTask' = "idle"
  /\ currentTurn' = 0 /\ readOnly' = FALSE
  /\ IF connecting THEN UNCHANGED <<attempts, timer>> ELSE ScheduleReconnect
  /\ UNCHANGED <<connecting, query, list, selected, loading, selectedBy, shown, messages, task,
                 inputs, orphans, serverVars>>

\* handle_server_disconnect, after the stream has ended.  disconnect() has failed
\* every pending call, but request_task may still have to run on that failure.
HandleServerDisconnect ==
  /\ serverTask = "listening"
  /\ ~up /\ queue = <<>>
  /\ client' = FALSE /\ connecting' = FALSE
  /\ serverTask' = "idle"
  /\ currentTurn' = 0 /\ readOnly' = FALSE
  /\ ScheduleReconnect
  /\ UNCHANGED <<query, list, selected, loading, selectedBy, shown, messages, task, inputs,
                 orphans, serverVars>>

----------------------------------------------------------------------------
(* User inputs.                                                            *)

Input == inputs < MaxInputs /\ inputs' = inputs + 1

\* refresh_threads: a manual connect when there is no client.
RefreshThreads ==
  /\ Input
  /\ IF client
     THEN /\ connecting' = TRUE
          /\ SpawnRequest([Asked EXCEPT !.op = "list"])
          /\ UNCHANGED <<attempts, serverTask, query>>
     ELSE /\ attempts' = 0
          /\ IF connecting THEN UNCHANGED <<connecting, serverTask, query>> ELSE StartConnect
          /\ UNCHANGED <<task, orphans>>
  /\ UNCHANGED <<client, timer, viewVars, modelVars, serverVars>>

OpenThread(t) ==
  /\ Input
  /\ client /\ t \in list
  /\ OpenThreadBody(t, inputs', launches)
  /\ UNCHANGED <<connVars, list, serverVars>>

\* new_task: neither request_task nor loading_thread is touched.
NewTask ==
  /\ Input
  /\ ClearModel
  /\ selected' = NoThread /\ selectedBy' = inputs'
  /\ readOnly' = FALSE
  /\ UNCHANGED <<connVars, list, loading, task, orphans, serverVars>>

Send(m) ==
  /\ messages[m] = "unused" /\ \A k \in 1..(m - 1) : messages[k] # "unused"
  /\ ~loading /\ ~readOnly /\ client
  /\ messages' = [messages EXCEPT ![m] = "sending"]
  /\ SpawnRequest([Asked EXCEPT !.op = IF selected = NoThread THEN "startThread" ELSE "startTurn",
                                !.thread = selected, !.msg = m, !.by = selectedBy])
  /\ UNCHANGED <<connVars, viewVars, shown, currentTurn, inputs, serverVars>>

Stop ==
  /\ Input
  /\ client /\ selected # NoThread /\ currentTurn # 0
  /\ SpawnRequest([Asked EXCEPT !.op = "interrupt", !.thread = selected, !.turn = currentTurn])
  /\ UNCHANGED <<connVars, viewVars, modelVars, serverVars>>

----------------------------------------------------------------------------
(* The app-server's handling of a call.                                    *)

\* turn/start: a new turn, or more input for the one that is running.
ActiveIn(t) == {n \in active : turns[n].thread = t}
TurnFor(t)  == IF ActiveIn(t) = {} THEN Len(turns) + 1 ELSE CHOOSE n \in ActiveIn(t) : TRUE
Emit(kind, t, n) ==
  queue' = IF t \in subscribed THEN Append(queue, [kind |-> kind, thread |-> t, turn |-> n])
           ELSE queue

ServeStartTurn(t, m) ==
  /\ UNCHANGED <<up, launches, created, subscribed>>
  /\ IF ActiveIn(t) = {}
     THEN /\ Len(turns) < MaxTurns
          /\ turns' = Append(turns, [thread |-> t, msg |-> m])
          /\ active' = active \cup {Len(turns) + 1}
          /\ Emit("started", t, Len(turns) + 1)
     ELSE UNCHANGED <<turns, active, queue>>

ServeStartThread(t) ==
  /\ t \notin created
  /\ created' = created \cup {t} /\ subscribed' = subscribed \cup {t}
  /\ UNCHANGED <<up, launches, turns, active, queue>>

ServeResume(t) ==
  /\ subscribed' = subscribed \cup {t}
  /\ UNCHANGED <<up, launches, created, turns, active, queue>>

ServeEndTurn(n) ==
  /\ active' = active \ {n}
  /\ IF n \in active THEN Emit("completed", turns[n].thread, n) ELSE UNCHANGED queue
  /\ UNCHANGED <<up, launches, created, subscribed, turns>>

----------------------------------------------------------------------------
(* Continuations of request_task.  A failure may be noticed late, even after *)
(* the disconnect or when the next client is there.                          *)

TaskDone == task' = NoTask /\ UNCHANGED <<inputs, orphans>>

\* refresh_threads' list, answered or failed.
ListDone(ok) ==
  /\ task.op = "list" /\ (ok => Served)
  /\ connecting' = FALSE
  /\ list' = IF ok THEN created ELSE list
  /\ TaskDone
  /\ UNCHANGED <<client, attempts, serverTask, query, timer, selected, loading, readOnly,
                 selectedBy, modelVars, serverVars>>

ReadOk ==
  /\ task.op = "read" /\ Served
  /\ task' = [task EXCEPT !.op = "resume"]
  /\ UNCHANGED <<connVars, viewVars, modelVars, inputs, orphans, serverVars>>

ReadFailed ==
  /\ task.op = "read"
  /\ loading' = FALSE /\ readOnly' = TRUE
  /\ TaskDone
  /\ UNCHANGED <<connVars, list, selected, selectedBy, modelVars, serverVars>>

\* thread/resume; on failure the history from thread/read is opened read-only.
ResumeDone(ok) ==
  /\ task.op = "resume" /\ (ok => Served)
  /\ loading' = FALSE /\ readOnly' = ~ok
  /\ selected' = task.thread /\ selectedBy' = task.by
  /\ shown' = {task.thread} /\ currentTurn' = 0
  /\ messages' = [m \in Messages |-> IF messages[m] = "unused" THEN "unused" ELSE "gone"]
  /\ IF ok THEN ServeResume(task.thread) ELSE UNCHANGED serverVars
  /\ TaskDone
  /\ UNCHANGED <<connVars, list>>

StartThreadOk(t) ==
  /\ task.op = "startThread" /\ Served
  /\ ServeStartThread(t)
  /\ task' = [task EXCEPT !.op = "startTurn", !.thread = t]
  /\ UNCHANGED <<connVars, viewVars, modelVars, inputs, orphans>>

StartTurnOk ==
  /\ task.op = "startTurn" /\ Served
  /\ ServeStartTurn(task.thread, task.msg)
  /\ selected' = task.thread /\ selectedBy' = task.by
  /\ currentTurn' = TurnFor(task.thread)
  /\ SetStatus(task.msg, "sent")
  /\ TaskDone
  /\ UNCHANGED <<connVars, list, loading, readOnly, shown>>

SendFailed ==
  /\ task.op \in {"startThread", "startTurn"}
  /\ SetStatus(task.msg, "failed")
  /\ TaskDone
  /\ UNCHANGED <<connVars, viewVars, shown, currentTurn, serverVars>>

InterruptDone(ok) ==
  /\ task.op = "interrupt" /\ (ok => Served)
  /\ IF ok THEN ServeEndTurn(task.turn) ELSE UNCHANGED serverVars
  /\ TaskDone
  /\ UNCHANGED <<connVars, viewVars, modelVars>>

----------------------------------------------------------------------------
(* Events: apply_event_batch with the turn notifications.                  *)

\* Mutant: the thread of an event is not compared with the selection.
MatchesAny(e) == TRUE

\* event_matches_thread: with nothing selected, every thread matches.
EventMatches(e) == selected = NoThread \/ e.thread = selected

ApplyIgnored ==
  /\ serverTask = "listening" /\ queue # <<>> /\ ~EventMatches(Head(queue))
  /\ queue' = Tail(queue)
  /\ UNCHANGED <<connVars, viewVars, modelVars, task, inputs, orphans, up, launches, created,
                 subscribed, turns, active>>

ApplyStarted ==
  /\ serverTask = "listening" /\ queue # <<>> /\ EventMatches(Head(queue))
  /\ Head(queue).kind = "started"
  /\ queue' = Tail(queue)
  /\ currentTurn' = Head(queue).turn
  /\ UNCHANGED <<connVars, viewVars, shown, messages, task, inputs, orphans, up, launches,
                 created, subscribed, turns, active>>

\* The items of the turn are upserted, the user's own message among them, and
\* refresh_threads takes over request_task.
ApplyCompleted ==
  /\ serverTask = "listening" /\ queue # <<>> /\ EventMatches(Head(queue))
  /\ Head(queue).kind = "completed"
  /\ queue' = Tail(queue)
  /\ LET m == turns[Head(queue).turn].msg IN
       IF messages[m] \in {"sending", "sent"}
       THEN messages' = [messages EXCEPT ![m] = "confirmed"]
       ELSE UNCHANGED messages
  /\ shown' = shown \cup {Head(queue).thread}
  /\ currentTurn' = 0
  /\ connecting' = TRUE
  /\ SpawnRequest([Asked EXCEPT !.op = "list"])
  /\ UNCHANGED <<client, attempts, serverTask, query, timer, viewVars, inputs, up, launches,
                 created, subscribed, turns, active>>

----------------------------------------------------------------------------
(* The app-server by itself.                                               *)

ServerVarsOnly == UNCHANGED <<connVars, viewVars, modelVars, task, inputs>>

TurnEnds(n) ==
  /\ up /\ n \in active
  /\ ServeEndTurn(n)
  /\ ServerVarsOnly /\ UNCHANGED orphans

ServeOrphan(o, t) ==
  /\ up
  /\ orphans' = orphans \ {o}
  /\ CASE o.op = "resume"      -> ServeResume(o.thread)
       [] o.op = "startThread" -> ServeStartThread(t)
       [] o.op = "startTurn"   -> ServeStartTurn(o.thread, o.msg)
       [] o.op = "interrupt"   -> ServeEndTurn(o.turn)
  /\ ServerVarsOnly

ServerDies ==
  /\ up
  /\ up' = FALSE /\ active' = {} /\ subscribed' = {} /\ orphans' = {}
  /\ UNCHANGED <<launches, created, turns, queue>>
  /\ ServerVarsOnly

----------------------------------------------------------------------------
User == \/ RefreshThreads \/ NewTask \/ Stop
        \/ \E t \in Threads : OpenThread(t)
        \/ \E m \in Messages : Send(m)

Respond == \/ \E ok \in BOOLEAN : ListDone(ok) \/ ResumeDone(ok) \/ InterruptDone(ok)
           \/ ReadOk \/ ReadFailed \/ StartTurnOk \/ SendFailed
           \/ \E t \in Threads : StartThreadOk(t)

Apply == ApplyIgnored \/ ApplyStarted \/ ApplyCompleted

Server == \/ \E n \in active : TurnEnds(n)
          \/ \E o \in orphans, t \in Threads : ServeOrphan(o, t)
          \/ ServerDies

Next == \/ ConnectOk \/ ConnectFail \/ ReconnectTimer \/ HandleServerDisconnect
        \/ User \/ Respond \/ Apply \/ Server

\* Timers fire, a launch succeeds or fails, calls are answered or failed and
\* the event loop runs; nothing obliges the user or the app-server to act.
Fairness ==
  /\ WF_vars(ConnectOk \/ ConnectFail) /\ WF_vars(ReconnectTimer)
  /\ WF_vars(HandleServerDisconnect) /\ WF_vars(Respond) /\ WF_vars(Apply)

Spec     == Init /\ [][Next]_vars
FairSpec == Spec /\ Fairness

----------------------------------------------------------------------------
(* Properties.                                                             *)

Status == {"unused", "sending", "sent", "failed", "confirmed", "gone"}

ConnTypes ==
  /\ client \in BOOLEAN /\ connecting \in BOOLEAN /\ timer \in BOOLEAN
  /\ attempts \in 0..MaxReconnectAttempts
  /\ serverTask \in {"idle", "connecting", "listening"}
  /\ query \in Query

ViewTypes ==
  /\ list \subseteq Threads
  /\ selected \in Threads \cup {NoThread}
  /\ loading \in BOOLEAN /\ readOnly \in BOOLEAN
  /\ selectedBy \in Nat

ModelTypes ==
  /\ shown \subseteq Threads
  /\ currentTurn \in Nat
  /\ messages \in [Messages -> Status]

TaskTypes ==
  /\ task \in Task
  /\ orphans \subseteq {t \in Task : HasEffect(t)}
  /\ inputs \in Nat

ServerTypes ==
  /\ up \in BOOLEAN /\ launches \in Nat
  /\ created \subseteq Threads /\ subscribed \subseteq Threads
  /\ turns \in Seq(Turn)
  /\ active \subseteq Turns
  /\ queue \in Seq(TaskEvent)

\* The values every variable of the session takes.
TypeOK == ConnTypes /\ ViewTypes /\ ModelTypes /\ TaskTypes /\ ServerTypes

\* The flag that makes connect() return early is set without a client only while a
\* launch is in progress, so it cannot block reconnecting for ever.  The converse is
\* not so: a list call that the last batch spawned and whose failure is noticed
\* during the next launch resets the flag, and connect() then starts a second launch
\* that takes the place of the first.
ConnectingMeansLaunching == ~client /\ connecting => serverTask = "connecting"

\* The app is never offline with nothing under way before it has used up its
\* automatic retries.
NeverAbandoned == ~client /\ serverTask = "idle" => timer \/ attempts = MaxReconnectAttempts

\* The turn that Stop would interrupt belongs to the thread on the screen, however
\* switches, late events and completions of sends interleave.
TurnOfSelected ==
  selected # NoThread /\ currentTurn # 0 => turns[currentTurn].thread = selected

\* Offline ends: the app reconnects or visibly exhausts its retries.
OfflineEnds == ~client ~> (client \/ (attempts = MaxReconnectAttempts /\ serverTask = "idle"))

\* README.md: "Ctrl-N starts a fresh task": what was under way before neither
\* replaces the selection it made nor fills the new task with an older thread's items.
FreshTaskStaysFresh ==
  [][selectedBy' >= selectedBy /\ (selected' = NoThread => shown' \cap Existing = {})]_vars

\* A thread shown as loading has a task that will finish loading it.
LoadingHasTask == loading => task.op \in {"read", "resume"}

\* A message shown as sending is being sent, or the app-server has it.
SendingHasOwner ==
  \A m \in Messages : messages[m] = "sending" =>
    \/ task.op \in {"startThread", "startTurn"} /\ task.msg = m
    \/ \E o \in orphans : o.op = "startTurn" /\ o.msg = m
    \/ \E n \in Turns : turns[n].msg = m

\* docs/quality-gates.md: "Thread load/switch, empty tasks [...] are recoverable and
\* visible": what the screen shows as under way is under way.
WorkHasOwner == LoadingHasTask /\ SendingHasOwner

----------------------------------------------------------------------------
(* The invariant the proofs rest on.                                       *)

\* The event loop and the process belong to the client.
ConnInv ==
  /\ attempts \in 0..MaxReconnectAttempts
  /\ client <=> serverTask = "listening"
  /\ up => client
  /\ ConnectingMeansLaunching
  /\ NeverAbandoned

\* A queued event names a turn that was started, in the thread it was started in.
QueueInv ==
  \A i \in 1..Len(queue) :
    queue[i].turn \in Turns /\ turns[queue[i].turn].thread = queue[i].thread

\* The current turn is None or one that was started, in the selected thread if there
\* is a selection; queued events will keep it so.
TurnInv ==
  /\ currentTurn \in 0..Len(turns)
  /\ QueueInv
  /\ TurnOfSelected
============================================================================
