----------------------- MODULE HarnessSessionProofs ------------------------
(***************************************************************************)
(* Proofs about HarnessSession for any set of threads and every bound: the *)
(* types, the reconnect discipline (ConnInv), and that Stop addresses a    *)
(* turn of the thread on the screen (TurnInv).                             *)
(***************************************************************************)
EXTENDS HarnessSession, TLAPS

----------------------------------------------------------------------------
(* The connection.  ConnInv is inductive by itself: it relates flags and   *)
(* task slots that are only compared with constants.                       *)

\* At start-up the first launch is under way.
LEMMA InitConnInv == Init => ConnInv
  BY SessionAssumption DEF Init, ConnInv, ConnectingMeansLaunching, NeverAbandoned, NoTask

\* Every step keeps the flag, the slots and the retries in agreement.
LEMMA StepConnInv == ASSUME ConnInv, [Next]_vars PROVE ConnInv'
<1> USE SessionAssumption DEF ConnInv, ConnectingMeansLaunching, NeverAbandoned
<1>1. CASE ConnectOk
  BY <1>1 DEF ConnectOk, OpenThreadBody, SpawnRequest
<1>2. CASE ConnectFail
  BY <1>2 DEF ConnectFail, ScheduleReconnect, viewVars, modelVars, serverVars
<1>3. CASE ReconnectTimer
  BY <1>3 DEF ReconnectTimer, StartConnect, viewVars, modelVars, serverVars
<1>4. CASE HandleServerDisconnect
  BY <1>4 DEF HandleServerDisconnect, ScheduleReconnect, serverVars
<1>5. CASE RefreshThreads
  <2>1. CASE client
    BY <1>5, <2>1 DEF RefreshThreads, serverVars
  <2>2. CASE ~client
    BY <1>5, <2>2 DEF RefreshThreads, StartConnect, serverVars
  <2>3. QED BY <2>1, <2>2
<1>6. CASE User /\ ~RefreshThreads
  <2>1. ASSUME client, UNCHANGED <<connVars, up>> PROVE ConnInv'
    BY <2>1 DEF connVars
  <2>2. CASE NewTask
    BY <2>2 DEF NewTask, connVars, serverVars
  <2>3. CASE Stop \/ (\E t \in Threads : OpenThread(t)) \/ \E m \in Messages : Send(m)
    BY <2>1, <2>3 DEF Stop, OpenThread, Send, serverVars
  <2>4. QED BY <1>6, <2>2, <2>3 DEF User
<1>7. ASSUME UNCHANGED <<client, serverTask, attempts, timer, up>>,
             connecting' = connecting \/ connecting' = FALSE
      PROVE  ConnInv'
  BY <1>7
<1>8. CASE Respond
  BY <1>7, <1>8 DEF Respond, ListDone, ReadOk, ReadFailed, ResumeDone, StartThreadOk,
     StartTurnOk, SendFailed, InterruptDone, connVars, serverVars, ServeResume,
     ServeStartThread, ServeStartTurn, ServeEndTurn
<1>9. CASE Apply
  BY <1>9 DEF Apply, ApplyIgnored, ApplyStarted, ApplyCompleted, connVars
<1>10. CASE Server
  BY <1>10 DEF Server, TurnEnds, ServeOrphan, ServerDies, ServerVarsOnly, connVars,
     ServeResume, ServeStartThread, ServeStartTurn, ServeEndTurn
<1>11. CASE UNCHANGED vars
  BY <1>11 DEF vars, connVars, serverVars
<1>12. QED
  BY <1>1, <1>2, <1>3, <1>4, <1>5, <1>6, <1>8, <1>9, <1>10, <1>11 DEF Next

\* connecting, the flag that makes connect() return early, is set without a client
\* only while a launch is in progress: it never blocks reconnecting for ever.
THEOREM LaunchFlagSound == Spec => []ConnectingMeansLaunching
<1>1. Spec => []ConnInv
  BY InitConnInv, StepConnInv, PTL DEF Spec
<1>2. ConnInv => ConnectingMeansLaunching
  BY DEF ConnInv
<1>3. QED BY <1>1, <1>2, PTL

\* Offline and idle, the app has a retry armed or has used them all.
THEOREM RetriesNeverLost == Spec => []NeverAbandoned
<1>1. Spec => []ConnInv
  BY InitConnInv, StepConnInv, PTL DEF Spec
<1>2. ConnInv => NeverAbandoned
  BY DEF ConnInv
<1>3. QED BY <1>1, <1>2, PTL

----------------------------------------------------------------------------
(* Types, group by group: most actions leave whole groups unchanged.       *)

\* The initial state is well typed.
LEMMA InitTypeOK == Init => TypeOK
<1> SUFFICES ASSUME Init PROVE TypeOK
  OBVIOUS
<1>1. client \in BOOLEAN /\ connecting \in BOOLEAN /\ timer \in BOOLEAN
      /\ loading \in BOOLEAN /\ readOnly \in BOOLEAN /\ up \in BOOLEAN
  BY Zenon DEF Init
<1>2. query \in Query /\ task \in Task
  BY DEF Init, Query, Task, NoTask
<1>3. ConnTypes
  BY <1>1, <1>2, SessionAssumption DEF Init, ConnTypes
<1>4. ViewTypes /\ ModelTypes /\ TaskTypes
  BY <1>1, <1>2 DEF Init, ViewTypes, ModelTypes, TaskTypes, Status
<1>5. ServerTypes
  BY <1>1, SessionAssumption DEF Init, ServerTypes
<1>6. QED BY <1>3, <1>4, <1>5 DEF TypeOK

\* A group whose variables are unchanged keeps its types.
LEMMA Unchanged ==
  /\ ConnTypes /\ UNCHANGED connVars => ConnTypes'
  /\ ViewTypes /\ UNCHANGED viewVars => ViewTypes'
  /\ ModelTypes /\ UNCHANGED modelVars => ModelTypes'
  /\ TaskTypes /\ UNCHANGED <<task, orphans, inputs>> => TaskTypes'
  /\ ServerTypes /\ UNCHANGED serverVars => ServerTypes'
<1>1. ConnTypes /\ UNCHANGED connVars => ConnTypes'
  BY DEF ConnTypes, connVars
<1>2. ViewTypes /\ UNCHANGED viewVars => ViewTypes'
  BY DEF ViewTypes, viewVars
<1>3. ModelTypes /\ UNCHANGED modelVars => ModelTypes'
  BY DEF ModelTypes, modelVars
<1>4. TaskTypes /\ UNCHANGED <<task, orphans, inputs>> => TaskTypes'
  BY DEF TaskTypes
<1>5. ServerTypes /\ UNCHANGED serverVars => ServerTypes'
  BY DEF ServerTypes, serverVars, Turns
<1>6. QED BY <1>1, <1>2, <1>3, <1>4, <1>5

\* The calls the handlers spawn are calls.
LEMMA SpawnedTasks ==
  ASSUME ServerTypes, NEW t \in Threads, NEW n \in Nat, NEW by \in Nat, NEW launch \in Nat
  PROVE  /\ [NoTask EXCEPT !.op = "read", !.thread = t, !.by = by, !.launch = launch] \in Task
         /\ [Asked EXCEPT !.op = "list"] \in Task
         /\ [Asked EXCEPT !.op = "interrupt", !.thread = t, !.turn = n] \in Task
  BY DEF NoTask, Task, Asked, ServerTypes

\* Assigning request_task keeps the slot and the orphans well typed.
LEMMA SpawnTypes ==
  ASSUME TaskTypes, NEW t \in Task, SpawnRequest(t), inputs' \in Nat
  PROVE  TaskTypes'
  BY DEF TaskTypes, SpawnRequest, HasEffect

\* A task that ends leaves NoTask in the slot.
LEMMA DoneTypes == ASSUME TaskTypes, TaskDone PROVE TaskTypes'
  BY DEF TaskTypes, TaskDone, NoTask, Task

\* Clearing the model keeps its variables well typed.
LEMMA ClearTypes == ASSUME ModelTypes, ClearModel PROVE ModelTypes'
  BY DEF ModelTypes, ClearModel, Status

\* open_thread's assignments are well typed.
LEMMA OpenTypes ==
  ASSUME TypeOK, NEW t \in Threads, NEW by \in Nat, NEW launch \in Nat,
         OpenThreadBody(t, by, launch),
         inputs' \in Nat, list' \subseteq Threads
  PROVE  ViewTypes' /\ ModelTypes' /\ TaskTypes'
<1>1. [NoTask EXCEPT !.op = "read", !.thread = t, !.by = by, !.launch = launch] \in Task
  BY SpawnedTasks, 0 \in Nat DEF TypeOK
<1>2. TaskTypes'
  BY <1>1, SpawnTypes DEF OpenThreadBody, TypeOK
<1>3. ModelTypes'
  BY ClearTypes DEF OpenThreadBody, TypeOK
<1>4. loading' \in BOOLEAN /\ readOnly' \in BOOLEAN
  BY Zenon DEF OpenThreadBody
<1>5. ViewTypes'
  BY <1>4 DEF OpenThreadBody, ViewTypes
<1>6. QED BY <1>2, <1>3, <1>5

\* What the app-server's handling of a call does to its own variables.
LEMMA ServeTypes ==
  ASSUME ServerTypes, NEW t \in Threads, NEW m \in Nat, NEW n \in Nat,
         \/ ServeStartTurn(t, m) \/ ServeStartThread(t) \/ ServeResume(t)
         \/ ServeEndTurn(n)
  PROVE  ServerTypes'
<1>0. turns \in Seq(Turn) /\ queue \in Seq(TaskEvent) /\ active \subseteq 1..Len(turns)
      /\ Len(turns) \in Nat
  BY DEF ServerTypes, Turns
<1>1. [kind |-> "started", thread |-> t, turn |-> Len(turns) + 1] \in TaskEvent
      /\ [thread |-> t, msg |-> m] \in Turn
  BY <1>0 DEF TaskEvent, Turn
<1>2. CASE ServeStartTurn(t, m)
  <2>1. CASE ActiveIn(t) = {}
    <3>1. /\ turns' = Append(turns, [thread |-> t, msg |-> m])
          /\ active' = active \cup {Len(turns) + 1}
          /\ Emit("started", t, Len(turns) + 1)
          /\ UNCHANGED <<up, launches, created, subscribed>>
      BY <1>2, <2>1 DEF ServeStartTurn
    <3>2. turns' \in Seq(Turn) /\ Len(turns') = Len(turns) + 1
      BY <1>0, <1>1, <3>1
    <3>3. active' \subseteq 1..Len(turns')
      <4>1. Len(turns) + 1 \in 1..(Len(turns) + 1)
            /\ 1..Len(turns) \subseteq 1..(Len(turns) + 1)
        BY <1>0
      <4>2. active' \subseteq 1..(Len(turns) + 1)
        BY <1>0, <3>1, <4>1, Zenon
      <4>3. QED BY <3>2, <4>2
    <3>4. queue' \in Seq(TaskEvent)
      BY <1>0, <1>1, <3>1 DEF Emit
    <3>5. QED BY <3>1, <3>2, <3>3, <3>4 DEF ServerTypes, Turns
  <2>2. CASE ActiveIn(t) # {}
    BY <1>2, <2>2 DEF ServeStartTurn, ServerTypes, Turns
  <2>3. QED BY <2>1, <2>2
<1>3. CASE ServeStartThread(t) \/ ServeResume(t)
  BY <1>3 DEF ServeStartThread, ServeResume, ServerTypes, Turns
<1>4. CASE ServeEndTurn(n)
  <2>1. CASE n \in active
    <3>1. turns[n] \in Turn
      BY <1>0, <2>1
    <3>2. [kind |-> "completed", thread |-> turns[n].thread, turn |-> n] \in TaskEvent
      BY <3>1 DEF Turn, TaskEvent
    <3>3. Emit("completed", turns[n].thread, n)
      BY <1>4, <2>1 DEF ServeEndTurn
    <3>4. queue' \in Seq(TaskEvent)
      BY <1>0, <3>2, <3>3 DEF Emit
    <3>5. QED BY <1>4, <3>4 DEF ServeEndTurn, ServerTypes, Turns
  <2>2. CASE n \notin active
    BY <1>4, <2>2 DEF ServeEndTurn, ServerTypes, Turns
  <2>3. QED BY <2>1, <2>2
<1>5. QED BY <1>2, <1>3, <1>4

\* schedule_reconnect counts up to its cap.
LEMMA ScheduleTypes ==
  ASSUME ConnTypes, ScheduleReconnect
  PROVE  attempts' \in 0..MaxReconnectAttempts /\ timer' \in BOOLEAN
<1>1. attempts' \in 0..MaxReconnectAttempts
  BY SessionAssumption DEF ConnTypes, ScheduleReconnect
<1>2. timer' \in BOOLEAN
  BY Zenon DEF ConnTypes, ScheduleReconnect
<1>3. QED BY <1>1, <1>2

\* The connection's steps are well typed.
LEMMA ConnectionTypes ==
  ASSUME TypeOK, ConnectOk \/ ConnectFail \/ ReconnectTimer \/ HandleServerDisconnect
  PROVE  TypeOK'
<1>0. ConnTypes /\ ViewTypes /\ ModelTypes /\ TaskTypes /\ ServerTypes
  BY DEF TypeOK
<1>1. CASE ConnectOk
  <2>1. ConnTypes'
    <3>1. client' \in BOOLEAN /\ connecting' \in BOOLEAN /\ timer' \in BOOLEAN
      BY <1>0, <1>1, Zenon DEF ConnectOk, ConnTypes
    <3>2. attempts' \in 0..MaxReconnectAttempts
      BY <1>1, SessionAssumption DEF ConnectOk
    <3>3. serverTask' = "listening" /\ query' = query
      BY <1>1 DEF ConnectOk
    <3>4. QED BY <1>0, <3>1, <3>2, <3>3 DEF ConnTypes
  <2>2. ServerTypes'
    BY <1>0, <1>1 DEF ConnectOk, ServerTypes, Turns
  <2>3. list' \subseteq Threads /\ inputs' \in Nat /\ query.by \in Nat /\ query.thread \in Threads \cup {NoThread}
    BY <1>0, <1>1 DEF ConnectOk, ServerTypes, TaskTypes, ConnTypes, Query
  <2>4. CASE query.thread \in created
    <3>1. /\ query.thread \in Threads /\ launches + 1 \in Nat
          /\ OpenThreadBody(query.thread, query.by, launches + 1)
      BY <1>0, <1>1, <2>4 DEF ConnectOk, ServerTypes
    <3>2. ViewTypes' /\ ModelTypes' /\ TaskTypes'
      BY <2>3, <3>1, OpenTypes
    <3>3. QED BY <2>1, <2>2, <3>2 DEF TypeOK
  <2>5. CASE query.thread \notin created
    <3>1. ViewTypes'
      BY <1>0, <1>1, <2>3, <2>5 DEF ConnectOk, ViewTypes
    <3>2. ModelTypes' /\ TaskTypes'
      BY <1>0, <1>1, <2>5, Unchanged DEF ConnectOk
    <3>3. QED BY <2>1, <2>2, <3>1, <3>2 DEF TypeOK
  <2>6. QED BY <2>4, <2>5
<1>2. CASE ConnectFail
  <2>1. ConnTypes'
    <3>1. client' \in BOOLEAN /\ connecting' \in BOOLEAN
      BY <1>0, <1>2, Zenon DEF ConnectFail, ConnTypes
    <3>2. serverTask' = "idle" /\ query' = query /\ ScheduleReconnect
      BY <1>2 DEF ConnectFail
    <3>3. QED BY <1>0, <3>1, <3>2, ScheduleTypes DEF ConnTypes
  <2>2. QED BY <1>0, <1>2, <2>1, Unchanged DEF ConnectFail, TypeOK
<1>3. CASE ReconnectTimer
  <2>1. [thread |-> selected, by |-> selectedBy] \in Query
    BY <1>0 DEF ViewTypes, Query
  <2>2. ConnTypes'
    BY <1>0, <1>3, <2>1 DEF ReconnectTimer, StartConnect, ConnTypes
  <2>3. QED BY <1>0, <1>3, <2>2, Unchanged DEF ReconnectTimer, TypeOK
<1>4. CASE HandleServerDisconnect
  <2>1. ConnTypes'
    <3>1. client' \in BOOLEAN /\ connecting' \in BOOLEAN
      BY <1>4, Zenon DEF HandleServerDisconnect
    <3>2. serverTask' = "idle" /\ query' = query /\ ScheduleReconnect
      BY <1>4 DEF HandleServerDisconnect
    <3>3. QED BY <1>0, <3>1, <3>2, ScheduleTypes DEF ConnTypes
  <2>2. ViewTypes' /\ ModelTypes'
    BY <1>0, <1>4 DEF HandleServerDisconnect, ViewTypes, ModelTypes
  <2>3. QED BY <1>0, <1>4, <2>1, <2>2, Unchanged DEF HandleServerDisconnect, TypeOK
<1>5. QED BY <1>1, <1>2, <1>3, <1>4

\* The user's inputs are well typed.
LEMMA UserTypes == ASSUME TypeOK, User PROVE TypeOK'
<1>0. ConnTypes /\ ViewTypes /\ ModelTypes /\ TaskTypes /\ ServerTypes
  BY DEF TypeOK
<1>1. Input => inputs' \in Nat
  BY <1>0 DEF Input, TaskTypes
<1>2. CASE RefreshThreads
  <2>1. [Asked EXCEPT !.op = "list"] \in Task
    BY <1>0 DEF NoTask, Task, Asked, ServerTypes
  <2>2. [thread |-> selected, by |-> selectedBy] \in Query
    BY <1>0 DEF ViewTypes, Query
  <2>3. CASE client
    <3>1. ConnTypes'
      BY <1>0, <1>2, <2>3 DEF RefreshThreads, ConnTypes
    <3>2. TaskTypes'
      BY <1>0, <1>1, <1>2, <2>1, <2>3, SpawnTypes DEF RefreshThreads
    <3>3. QED BY <1>0, <1>2, <3>1, <3>2, Unchanged DEF RefreshThreads, TypeOK
  <2>4. CASE ~client
    <3>1. ConnTypes'
      <4>1. client' \in BOOLEAN /\ connecting' \in BOOLEAN /\ timer' \in BOOLEAN
        BY <1>0, <1>2, <2>4, Zenon DEF RefreshThreads, StartConnect, ConnTypes
      <4>2. attempts' \in 0..MaxReconnectAttempts
        BY <1>2, <2>4, SessionAssumption DEF RefreshThreads
      <4>3. serverTask' \in {"idle", "connecting", "listening"} /\ query' \in Query
        BY <1>0, <1>2, <2>2, <2>4 DEF RefreshThreads, StartConnect, ConnTypes
      <4>4. QED BY <4>1, <4>2, <4>3 DEF ConnTypes
    <3>2. TaskTypes'
      BY <1>0, <1>1, <1>2, <2>4 DEF RefreshThreads, TaskTypes
    <3>3. QED BY <1>0, <1>2, <3>1, <3>2, Unchanged DEF RefreshThreads, TypeOK
  <2>5. QED BY <2>3, <2>4
<1>3. ASSUME NEW t \in Threads, OpenThread(t) PROVE TypeOK'
  <2>1. /\ inputs' \in Nat /\ list' \subseteq Threads /\ launches \in Nat
        /\ OpenThreadBody(t, inputs', launches)
    BY <1>0, <1>1, <1>3 DEF OpenThread, ViewTypes, ServerTypes
  <2>2. ViewTypes' /\ ModelTypes' /\ TaskTypes'
    BY <2>1, OpenTypes
  <2>3. QED BY <1>0, <1>3, <2>2, Unchanged DEF OpenThread, TypeOK
<1>4. CASE NewTask
  <2>1. ViewTypes'
    BY <1>0, <1>1, <1>4 DEF NewTask, ViewTypes
  <2>2. ModelTypes'
    BY <1>0, <1>4, ClearTypes DEF NewTask
  <2>3. TaskTypes'
    BY <1>0, <1>1, <1>4 DEF NewTask, TaskTypes
  <2>4. QED BY <1>0, <1>4, <2>1, <2>2, <2>3, Unchanged DEF NewTask, TypeOK
<1>5. ASSUME NEW m \in Messages, Send(m) PROVE TypeOK'
  <2>1. m \in Nat /\ selectedBy \in Nat /\ selected \in Threads \cup {NoThread}
    BY <1>0, SessionAssumption DEF Messages, ViewTypes
  <2>2. [Asked EXCEPT !.op = IF selected = NoThread THEN "startThread" ELSE "startTurn",
                      !.thread = selected, !.msg = m, !.by = selectedBy] \in Task
    BY <1>0, <2>1 DEF NoTask, Task, Asked, ServerTypes
  <2>3. TaskTypes'
    BY <1>0, <1>5, <2>2, SpawnTypes DEF Send, TaskTypes
  <2>4. ModelTypes'
    BY <1>0, <1>5 DEF Send, ModelTypes, Status
  <2>5. QED BY <1>0, <1>5, <2>3, <2>4, Unchanged DEF Send, TypeOK
<1>6. CASE Stop
  <2>1. selected \in Threads /\ currentTurn \in Nat
    BY <1>0, <1>6 DEF Stop, ViewTypes, ModelTypes
  <2>2. [Asked EXCEPT !.op = "interrupt", !.thread = selected, !.turn = currentTurn] \in Task
    BY <1>0, <2>1 DEF NoTask, Task, Asked, ServerTypes
  <2>3. TaskTypes'
    BY <1>0, <1>1, <1>6, <2>2, SpawnTypes DEF Stop
  <2>4. QED BY <1>0, <1>6, <2>3, Unchanged DEF Stop, TypeOK
<1>7. QED BY <1>2, <1>3, <1>4, <1>5, <1>6 DEF User

\* The turn the app-server answers turn/start with has a number.
LEMMA TurnForNat ==
  ASSUME ServerTypes, NEW t \in Threads PROVE TurnFor(t) \in Nat
<1>1. Len(turns) \in Nat /\ active \subseteq 1..Len(turns)
  BY DEF ServerTypes, Turns
<1>2. active \subseteq Nat
  BY <1>1
<1>3. ActiveIn(t) \subseteq Nat
  BY <1>2, Zenon DEF ActiveIn
<1>4. QED BY <1>1, <1>3 DEF TurnFor

\* The continuations of request_task are well typed.
LEMMA RespondTypes == ASSUME TypeOK, Respond PROVE TypeOK'
<1>0. ConnTypes /\ ViewTypes /\ ModelTypes /\ TaskTypes /\ ServerTypes
  BY DEF TypeOK
<1>1. /\ task.op \in {"read", "resume", "startTurn", "interrupt"} => task.thread \in Threads
      /\ task.msg \in Nat /\ task.turn \in Nat /\ task.by \in Nat
  BY <1>0 DEF TaskTypes, Task
<1>2. ASSUME NEW ok \in BOOLEAN, ListDone(ok) PROVE TypeOK'
  <2>1. ConnTypes'
    BY <1>0, <1>2 DEF ListDone, ConnTypes
  <2>2. ViewTypes'
    BY <1>0, <1>2 DEF ListDone, ViewTypes, ServerTypes
  <2>3. QED BY <1>0, <1>2, <2>1, <2>2, DoneTypes, Unchanged DEF ListDone, TypeOK
<1>3. ASSUME NEW ok \in BOOLEAN, ResumeDone(ok) PROVE TypeOK'
  <2>1. task.thread \in Threads
    BY <1>1, <1>3 DEF ResumeDone
  <2>2. ViewTypes'
    BY <1>0, <1>1, <1>3, <2>1 DEF ResumeDone, ViewTypes
  <2>3. ModelTypes'
    BY <1>0, <1>3, <2>1 DEF ResumeDone, ModelTypes, Status
  <2>4. ServerTypes'
    BY <1>0, <1>3, <2>1, ServeTypes, Unchanged, 0 \in Nat DEF ResumeDone
  <2>5. QED BY <1>0, <1>3, <2>2, <2>3, <2>4, DoneTypes, Unchanged DEF ResumeDone, TypeOK
<1>4. ASSUME NEW ok \in BOOLEAN, InterruptDone(ok) PROVE TypeOK'
  <2>1. task.thread \in Threads
    BY <1>1, <1>4 DEF InterruptDone
  <2>2. ServerTypes'
    BY <1>0, <1>1, <1>4, <2>1, ServeTypes, Unchanged DEF InterruptDone
  <2>3. QED BY <1>0, <1>4, <2>2, DoneTypes, Unchanged DEF InterruptDone, TypeOK
<1>5. CASE ReadOk
  <2>1. [task EXCEPT !.op = "resume"] \in Task
    BY <1>0, <1>5 DEF ReadOk, TaskTypes, Task
  <2>2. TaskTypes'
    BY <1>0, <1>5, <2>1 DEF ReadOk, TaskTypes
  <2>3. QED BY <1>0, <1>5, <2>2, Unchanged DEF ReadOk, TypeOK
<1>6. CASE ReadFailed
  <2>1. ViewTypes'
    BY <1>0, <1>6 DEF ReadFailed, ViewTypes
  <2>2. QED BY <1>0, <1>6, <2>1, DoneTypes, Unchanged DEF ReadFailed, TypeOK
<1>7. CASE StartTurnOk
  <2>1. task.thread \in Threads
    BY <1>1, <1>7 DEF StartTurnOk
  <2>2. ViewTypes'
    BY <1>0, <1>1, <1>7, <2>1 DEF StartTurnOk, ViewTypes
  <2>3. ModelTypes'
    BY <1>0, <1>7, <2>1, TurnForNat DEF StartTurnOk, ModelTypes, SetStatus, Status
  <2>4. ServerTypes'
    BY <1>0, <1>1, <1>7, <2>1, ServeTypes DEF StartTurnOk
  <2>5. QED BY <1>0, <1>7, <2>2, <2>3, <2>4, DoneTypes, Unchanged DEF StartTurnOk, TypeOK
<1>8. CASE SendFailed
  <2>1. ModelTypes'
    BY <1>0, <1>8 DEF SendFailed, ModelTypes, SetStatus, Status
  <2>2. QED BY <1>0, <1>8, <2>1, DoneTypes, Unchanged DEF SendFailed, TypeOK
<1>9. ASSUME NEW t \in Threads, StartThreadOk(t) PROVE TypeOK'
  <2>1. [task EXCEPT !.op = "startTurn", !.thread = t] \in Task
    BY <1>0, <1>9 DEF StartThreadOk, TaskTypes, Task
  <2>2. TaskTypes'
    BY <1>0, <1>9, <2>1 DEF StartThreadOk, TaskTypes
  <2>3. ServerTypes'
    BY <1>0, <1>9, ServeTypes, 0 \in Nat DEF StartThreadOk
  <2>4. QED BY <1>0, <1>9, <2>2, <2>3, Unchanged DEF StartThreadOk, TypeOK
<1>10. QED
  BY <1>2, <1>3, <1>4, <1>5, <1>6, <1>7, <1>8, <1>9 DEF Respond

\* The event at the head of the queue is a turn notification.
LEMMA HeadTypes ==
  ASSUME ServerTypes, queue # <<>>
  PROVE  /\ Head(queue).thread \in Threads /\ Head(queue).turn \in Nat
         /\ Tail(queue) \in Seq(TaskEvent)
<1>1. Head(queue) \in TaskEvent /\ Tail(queue) \in Seq(TaskEvent)
  BY DEF ServerTypes
<1>2. QED BY <1>1 DEF TaskEvent

\* Applying an event is well typed.
LEMMA ApplyTypes == ASSUME TypeOK, Apply PROVE TypeOK'
<1>0. ConnTypes /\ ViewTypes /\ ModelTypes /\ TaskTypes /\ ServerTypes
  BY DEF TypeOK
<1>1. queue # <<>> /\ queue' = Tail(queue)
      /\ UNCHANGED <<viewVars, inputs, up, launches, created, subscribed, turns, active>>
  BY DEF Apply, ApplyIgnored, ApplyStarted, ApplyCompleted
<1>2. ServerTypes'
  BY <1>0, <1>1, HeadTypes DEF ServerTypes, Turns
<1>3. CASE ApplyIgnored
  BY <1>0, <1>2, <1>3, Unchanged DEF ApplyIgnored, TypeOK
<1>4. CASE ApplyStarted
  <2>1. ModelTypes'
    BY <1>0, <1>1, <1>4, HeadTypes DEF ApplyStarted, ModelTypes
  <2>2. QED BY <1>0, <1>2, <1>4, <2>1, Unchanged DEF ApplyStarted, TypeOK
<1>5. CASE ApplyCompleted
  <2>1. ConnTypes'
    BY <1>0, <1>5 DEF ApplyCompleted, ConnTypes
  <2>2. ModelTypes'
    BY <1>0, <1>1, <1>5, HeadTypes DEF ApplyCompleted, ModelTypes, Status
  <2>3. [Asked EXCEPT !.op = "list"] \in Task
    BY <1>0 DEF NoTask, Task, Asked, ServerTypes
  <2>4. TaskTypes'
    BY <1>0, <1>5, <2>3, SpawnTypes DEF ApplyCompleted, TaskTypes
  <2>5. QED BY <1>0, <1>1, <1>2, <2>1, <2>2, <2>4, Unchanged DEF TypeOK
<1>6. QED BY <1>3, <1>4, <1>5 DEF Apply

\* The app-server's own steps are well typed.
LEMMA ServerStepTypes == ASSUME TypeOK, Server PROVE TypeOK'
<1>0. ConnTypes /\ ViewTypes /\ ModelTypes /\ TaskTypes /\ ServerTypes
  BY DEF TypeOK
<1>1. ASSUME ServerVarsOnly, orphans' \subseteq orphans
      PROVE  ConnTypes' /\ ViewTypes' /\ ModelTypes' /\ TaskTypes'
  <2>1. TaskTypes'
    BY <1>0, <1>1 DEF TaskTypes, ServerVarsOnly
  <2>2. QED BY <1>0, <1>1, <2>1, Unchanged DEF ServerVarsOnly
<1>2. ASSUME NEW n \in active, TurnEnds(n) PROVE TypeOK'
  <2>1. n \in Nat /\ turns[n].thread \in Threads
    <3>1. turns \in Seq(Turn) /\ active \subseteq 1..Len(turns)
      BY <1>0 DEF ServerTypes, Turns
    <3>2. n \in 1..Len(turns) /\ turns[n] \in Turn
      BY <3>1
    <3>3. QED BY <3>1, <3>2 DEF Turn
  <2>2. ServerTypes'
    BY <1>0, <1>2, <2>1, ServeTypes DEF TurnEnds
  <2>3. QED BY <1>1, <1>2, <2>2 DEF TurnEnds, TypeOK
<1>3. ASSUME NEW o \in orphans, NEW t \in Threads, ServeOrphan(o, t) PROVE TypeOK'
  <2>1. o \in Task /\ HasEffect(o)
    BY <1>0 DEF TaskTypes
  <2>2. /\ o.msg \in Nat /\ o.turn \in Nat
        /\ o.op \in {"resume", "startTurn"} => o.thread \in Threads
    BY <2>1 DEF Task
  <2>3. \/ o.op = "resume" /\ ServeResume(o.thread)
        \/ ServeStartThread(t)
        \/ o.op = "startTurn" /\ ServeStartTurn(o.thread, o.msg)
        \/ ServeEndTurn(o.turn)
    BY <1>3, <2>1 DEF ServeOrphan, HasEffect
  <2>4. ServerTypes'
    BY <1>0, <2>2, <2>3, ServeTypes
  <2>5. QED BY <1>1, <1>3, <2>4 DEF ServeOrphan, TypeOK
<1>4. CASE ServerDies
  <2>1. ServerTypes'
    BY <1>0, <1>4 DEF ServerDies, ServerTypes, Turns
  <2>2. QED BY <1>1, <1>4, <2>1 DEF ServerDies, TypeOK
<1>5. QED BY <1>2, <1>3, <1>4 DEF Server

\* Every step keeps the types.
LEMMA StepTypeOK == ASSUME TypeOK, [Next]_vars PROVE TypeOK'
<1>1. CASE UNCHANGED vars
  BY <1>1, Unchanged DEF vars, TypeOK
<1>2. QED
  BY <1>1, ConnectionTypes, UserTypes, RespondTypes, ApplyTypes, ServerStepTypes DEF Next

\* The session's variables keep their types: the retry counter stays within its
\* bound, and a cancelled call is one that the app-server can still carry out.
THEOREM SessionTypes == Spec => []TypeOK
  BY InitTypeOK, StepTypeOK, PTL DEF Spec

----------------------------------------------------------------------------
(* The turn that Stop interrupts.  TurnOfSelected is not inductive alone:  *)
(* an event queued before a switch could bring in a turn of another        *)
(* thread, so the invariant also says what the queue holds.                *)

\* At start-up no turn is current and no event queued.
LEMMA InitTurnInv == Init => TurnInv
  BY DEF Init, TurnInv, QueueInv, TurnOfSelected

\* The app-server's handling of a call keeps the turns there are, and only queues
\* events of turns that were started.
LEMMA ServeTurns ==
  ASSUME ServerTypes, QueueInv, NEW t \in Threads, NEW m \in Nat, NEW n \in Nat,
         \/ ServeStartTurn(t, m) \/ ServeStartThread(t) \/ ServeResume(t)
         \/ ServeEndTurn(n)
  PROVE  /\ QueueInv'
         /\ Len(turns') \in Nat /\ Len(turns) \in Nat /\ Len(turns) <= Len(turns')
         /\ \A k \in 1..Len(turns) : turns'[k] = turns[k]
<1>0. /\ turns \in Seq(Turn) /\ queue \in Seq(TaskEvent) /\ active \subseteq 1..Len(turns)
      /\ Len(turns) \in Nat /\ Len(queue) \in Nat
  BY DEF ServerTypes, Turns
<1>1. CASE UNCHANGED <<turns, queue>>
  BY <1>0, <1>1 DEF QueueInv, Turns
<1>2. CASE ServeStartTurn(t, m) /\ ActiveIn(t) = {}
  <2>1. /\ turns' = Append(turns, [thread |-> t, msg |-> m])
        /\ Emit("started", t, Len(turns) + 1)
    BY <1>2 DEF ServeStartTurn
  <2>2. [thread |-> t, msg |-> m] \in Turn
    BY DEF Turn
  <2>3. /\ Len(turns') = Len(turns) + 1
        /\ \A k \in 1..Len(turns) : turns'[k] = turns[k]
        /\ turns'[Len(turns) + 1] = [thread |-> t, msg |-> m]
    BY <1>0, <2>1, <2>2
  <2>4. \A i \in 1..Len(queue) : queue[i].turn \in 1..Len(turns')
                                 /\ turns'[queue[i].turn].thread = queue[i].thread
    BY <1>0, <2>3 DEF QueueInv, Turns
  <2>5. CASE t \notin subscribed
    BY <1>0, <2>1, <2>3, <2>4, <2>5 DEF Emit, QueueInv, Turns
  <2>6. CASE t \in subscribed
    <3> DEFINE e == [kind |-> "started", thread |-> t, turn |-> Len(turns) + 1]
    <3>1. queue' = Append(queue, e) /\ e \in TaskEvent
      BY <1>0, <2>1, <2>6 DEF Emit, TaskEvent
    <3>2. e.turn \in 1..Len(turns') /\ turns'[e.turn].thread = e.thread
      BY <1>0, <2>3
    <3> HIDE DEF e
    <3>3. /\ Len(queue') = Len(queue) + 1
          /\ \A i \in 1..Len(queue) : queue'[i] = queue[i]
          /\ queue'[Len(queue) + 1] = e
      BY <1>0, <3>1
    <3>4. ASSUME NEW i \in 1..Len(queue')
          PROVE  queue'[i].turn \in 1..Len(turns')
                 /\ turns'[queue'[i].turn].thread = queue'[i].thread
      <4>1. i \in 1..Len(queue) \/ i = Len(queue) + 1
        BY <1>0, <3>3
      <4>2. QED BY <2>4, <3>2, <3>3, <4>1
    <3>5. QED BY <1>0, <2>3, <3>4 DEF QueueInv, Turns
  <2>7. QED BY <2>5, <2>6
<1>3. CASE ServeEndTurn(n) /\ n \in active /\ turns[n].thread \in subscribed
  <2>1. n \in 1..Len(turns) /\ turns[n] \in Turn
    BY <1>0, <1>3
  <2> DEFINE e == [kind |-> "completed", thread |-> turns[n].thread, turn |-> n]
  <2>2. queue' = Append(queue, e) /\ turns' = turns
    BY <1>3 DEF ServeEndTurn, Emit
  <2>3. e \in TaskEvent /\ e.turn \in 1..Len(turns) /\ turns[e.turn].thread = e.thread
    BY <2>1 DEF TaskEvent, Turn
  <2> HIDE DEF e
  <2>4. /\ Len(queue') = Len(queue) + 1
        /\ \A i \in 1..Len(queue) : queue'[i] = queue[i]
        /\ queue'[Len(queue) + 1] = e
    BY <1>0, <2>2, <2>3
  <2>5. ASSUME NEW i \in 1..Len(queue')
        PROVE  queue'[i].turn \in 1..Len(turns)
               /\ turns[queue'[i].turn].thread = queue'[i].thread
    <3>1. i \in 1..Len(queue) \/ i = Len(queue) + 1
      BY <1>0, <2>4
    <3>2. QED BY <2>3, <2>4, <3>1 DEF QueueInv, Turns
  <2>6. QED BY <1>0, <2>2, <2>5 DEF QueueInv, Turns
<1>4. \/ UNCHANGED <<turns, queue>>
      \/ ServeStartTurn(t, m) /\ ActiveIn(t) = {}
      \/ ServeEndTurn(n) /\ n \in active /\ turns[n].thread \in subscribed
  BY DEF ServeStartTurn, ServeStartThread, ServeResume, ServeEndTurn, Emit
<1>5. QED BY <1>1, <1>2, <1>3, <1>4

\* A step of the app-server that leaves the model and the selection alone keeps TurnInv.
LEMMA ServeTurnInv ==
  ASSUME ServerTypes, TurnInv, NEW t \in Threads, NEW m \in Nat, NEW n \in Nat,
         \/ ServeStartTurn(t, m) \/ ServeStartThread(t) \/ ServeResume(t)
         \/ ServeEndTurn(n),
         UNCHANGED <<selected, currentTurn>>
  PROVE  TurnInv'
<1>1. /\ QueueInv'
      /\ Len(turns') \in Nat /\ Len(turns) \in Nat /\ Len(turns) <= Len(turns')
      /\ \A k \in 1..Len(turns) : turns'[k] = turns[k]
  BY ServeTurns DEF TurnInv
<1>2. currentTurn \in 0..Len(turns) /\ TurnOfSelected
  BY DEF TurnInv
<1>3. currentTurn' \in 0..Len(turns')
  BY <1>1, <1>2
<1>4. TurnOfSelected'
  BY <1>1, <1>2 DEF TurnOfSelected
<1>5. QED BY <1>1, <1>3, <1>4 DEF TurnInv

\* Dropping the event at the head of the queue keeps what the queue holds.
LEMMA TailQueue ==
  ASSUME ServerTypes, QueueInv, queue # <<>>, queue' = Tail(queue), turns' = turns
  PROVE  QueueInv' /\ Head(queue).turn \in Turns
         /\ turns[Head(queue).turn].thread = Head(queue).thread
<1>1. queue \in Seq(TaskEvent) /\ Len(queue) \in Nat
  BY DEF ServerTypes
<1>2. /\ Len(queue') = Len(queue) - 1 /\ Len(queue) >= 1
      /\ \A i \in 1..Len(queue') : queue'[i] = queue[i + 1]
      /\ Head(queue) = queue[1]
  BY <1>1
<1>3. \A i \in 1..Len(queue') : i + 1 \in 1..Len(queue)
  BY <1>1, <1>2
<1>4. 1 \in 1..Len(queue)
  BY <1>1, <1>2
<1>5. QueueInv'
  BY <1>2, <1>3 DEF QueueInv, Turns
<1>6. QED BY <1>2, <1>4, <1>5 DEF QueueInv

\* The turn that turn/start is answered with was started in that thread.
LEMMA TurnForThread ==
  ASSUME ServerTypes, NEW t \in Threads, NEW m \in Nat, ServeStartTurn(t, m)
  PROVE  TurnFor(t) \in 1..Len(turns') /\ turns'[TurnFor(t)].thread = t
<1>1. turns \in Seq(Turn) /\ active \subseteq 1..Len(turns) /\ Len(turns) \in Nat
  BY DEF ServerTypes, Turns
<1>2. CASE ActiveIn(t) = {}
  <2>1. TurnFor(t) = Len(turns) + 1 /\ turns' = Append(turns, [thread |-> t, msg |-> m])
    BY <1>2 DEF TurnFor, ServeStartTurn
  <2>2. [thread |-> t, msg |-> m] \in Turn
    BY DEF Turn
  <2>3. Len(turns') = Len(turns) + 1 /\ turns'[Len(turns) + 1] = [thread |-> t, msg |-> m]
    BY <1>1, <2>1, <2>2
  <2>4. QED BY <1>1, <2>1, <2>3
<1>3. CASE ActiveIn(t) # {}
  <2>1. TurnFor(t) \in ActiveIn(t) /\ turns' = turns
    BY <1>3 DEF TurnFor, ServeStartTurn
  <2>2. QED BY <1>1, <2>1 DEF ActiveIn
<1>4. QED BY <1>2, <1>3

\* Every step keeps the current turn in the selected thread.
LEMMA StepTurnInv == ASSUME TypeOK, TurnInv, [Next]_vars PROVE TurnInv'
<1>0. ServerTypes /\ TaskTypes /\ QueueInv /\ Len(turns) \in Nat
  BY DEF TypeOK, TurnInv, ServerTypes
<1>1. ASSUME UNCHANGED <<turns, queue>>,
             UNCHANGED <<selected, currentTurn>> \/ currentTurn' = 0
      PROVE  TurnInv'
  <2>1. currentTurn' \in 0..Len(turns')
    BY <1>0, <1>1 DEF TurnInv
  <2>2. TurnOfSelected'
    BY <1>1 DEF TurnInv, TurnOfSelected
  <2>3. QueueInv'
    BY <1>0, <1>1 DEF QueueInv, Turns
  <2>4. QED BY <2>1, <2>2, <2>3 DEF TurnInv
<1>2. CASE ConnectOk
  BY <1>1, <1>2 DEF ConnectOk, OpenThreadBody, ClearModel, modelVars
<1>3. CASE ConnectFail \/ ReconnectTimer \/ HandleServerDisconnect
  BY <1>1, <1>3 DEF ConnectFail, ReconnectTimer, HandleServerDisconnect, viewVars, modelVars,
     serverVars
<1>4. CASE User
  BY <1>1, <1>4 DEF User, RefreshThreads, NewTask, Stop, OpenThread, OpenThreadBody, ClearModel,
     Send, viewVars, modelVars, serverVars
<1>5. CASE Respond
  <2>1. /\ task.op \in {"read", "resume", "startTurn", "interrupt"} => task.thread \in Threads
        /\ task.msg \in Nat /\ task.turn \in Nat
    BY <1>0 DEF TaskTypes, Task
  <2>2. ASSUME NEW ok \in BOOLEAN, ListDone(ok) PROVE TurnInv'
    BY <1>1, <2>2 DEF ListDone, modelVars, serverVars
  <2>3. ASSUME NEW ok \in BOOLEAN, ResumeDone(ok) PROVE TurnInv'
    BY <1>1, <2>3 DEF ResumeDone, ServeResume, serverVars
  <2>4. ASSUME NEW ok \in BOOLEAN, InterruptDone(ok) PROVE TurnInv'
    <3>1. UNCHANGED <<selected, currentTurn>> /\ task.thread \in Threads
      BY <2>1, <2>4 DEF InterruptDone, viewVars, modelVars
    <3>2. ServeEndTurn(task.turn) \/ UNCHANGED <<turns, queue>>
      BY <2>4 DEF InterruptDone, serverVars
    <3>3. QED BY <1>0, <1>1, <2>1, <3>1, <3>2, ServeTurnInv
  <2>5. CASE ReadOk \/ ReadFailed \/ SendFailed
    BY <1>1, <2>5 DEF ReadOk, ReadFailed, SendFailed, viewVars, modelVars, serverVars
  <2>6. ASSUME NEW t \in Threads, StartThreadOk(t) PROVE TurnInv'
    BY <1>1, <2>6 DEF StartThreadOk, ServeStartThread, viewVars, modelVars
  <2>7. CASE StartTurnOk
    <3>1. task.thread \in Threads /\ ServeStartTurn(task.thread, task.msg)
          /\ selected' = task.thread /\ currentTurn' = TurnFor(task.thread)
      BY <2>1, <2>7 DEF StartTurnOk
    <3>2. currentTurn' \in 1..Len(turns') /\ turns'[currentTurn'].thread = selected'
      BY <1>0, <2>1, <3>1, TurnForThread
    <3>3. QueueInv'
      BY <1>0, <2>1, <3>1, ServeTurns
    <3>4. QED BY <3>2, <3>3 DEF TurnInv, TurnOfSelected
  <2>8. QED BY <1>5, <2>2, <2>3, <2>4, <2>5, <2>6, <2>7 DEF Respond
<1>6. CASE Apply
  <2>1. queue # <<>> /\ queue' = Tail(queue) /\ turns' = turns /\ selected' = selected
    BY <1>6 DEF Apply, ApplyIgnored, ApplyStarted, ApplyCompleted, viewVars
  <2>2. QueueInv' /\ Head(queue).turn \in Turns
        /\ turns[Head(queue).turn].thread = Head(queue).thread
    BY <1>0, <2>1, TailQueue
  <2>3. CASE ApplyIgnored \/ ApplyCompleted
    <3>1. currentTurn' = currentTurn \/ currentTurn' = 0
      BY <2>3 DEF ApplyIgnored, ApplyCompleted, modelVars
    <3>2. currentTurn' \in 0..Len(turns')
      BY <1>0, <2>1, <3>1 DEF TurnInv
    <3>3. TurnOfSelected'
      BY <2>1, <3>1 DEF TurnInv, TurnOfSelected
    <3>4. QED BY <2>2, <3>2, <3>3 DEF TurnInv
  <2>4. CASE ApplyStarted
    <3>1. currentTurn' = Head(queue).turn
          /\ (selected = NoThread \/ Head(queue).thread = selected)
      BY <2>4 DEF ApplyStarted, EventMatches
    <3>2. currentTurn' \in 0..Len(turns')
      BY <1>0, <2>1, <2>2, <3>1 DEF Turns
    <3>3. TurnOfSelected'
      BY <2>1, <2>2, <3>1 DEF TurnOfSelected
    <3>4. QED BY <2>2, <3>2, <3>3 DEF TurnInv
  <2>5. QED BY <1>6, <2>3, <2>4 DEF Apply
<1>7. CASE Server
  <2>0. UNCHANGED <<selected, currentTurn>>
    BY <1>7 DEF Server, TurnEnds, ServeOrphan, ServerDies, ServerVarsOnly, viewVars, modelVars
  <2>1. ASSUME NEW n \in active, TurnEnds(n) PROVE TurnInv'
    <3>1. turns \in Seq(Turn) /\ active \subseteq 1..Len(turns)
      BY <1>0 DEF ServerTypes, Turns
    <3>2. n \in 1..Len(turns) /\ turns[n] \in Turn
      BY <3>1
    <3>3. n \in Nat /\ turns[n].thread \in Threads
      BY <3>2 DEF Turn
    <3>4. QED BY <1>0, <2>0, <2>1, <3>3, ServeTurnInv, 0 \in Nat DEF TurnEnds
  <2>2. ASSUME NEW o \in orphans, NEW t \in Threads, ServeOrphan(o, t) PROVE TurnInv'
    <3>1. o \in Task /\ HasEffect(o)
      BY <1>0 DEF TaskTypes
    <3>2. /\ o.msg \in Nat /\ o.turn \in Nat
          /\ o.op \in {"resume", "startTurn"} => o.thread \in Threads
      BY <3>1 DEF Task
    <3>3. \/ o.op = "resume" /\ ServeResume(o.thread)
          \/ ServeStartThread(t)
          \/ o.op = "startTurn" /\ ServeStartTurn(o.thread, o.msg)
          \/ ServeEndTurn(o.turn)
      BY <2>2, <3>1 DEF ServeOrphan, HasEffect
    <3>4. QED BY <1>0, <2>0, <3>2, <3>3, ServeTurnInv
  <2>3. CASE ServerDies
    BY <1>1, <2>0, <2>3 DEF ServerDies
  <2>4. QED BY <1>7, <2>1, <2>2, <2>3 DEF Server
<1>8. CASE UNCHANGED vars
  BY <1>1, <1>8 DEF vars, viewVars, modelVars, serverVars
<1>9. QED
  BY <1>2, <1>3, <1>4, <1>5, <1>6, <1>7, <1>8 DEF Next

\* Stop only ever interrupts a turn of the thread on the screen: whatever order
\* switches, late events and completions of sends come in, current_turn_id is None
\* or a turn of selected_thread_id.
THEOREM StopAddressesSelected == Spec => []TurnOfSelected
<1>1. Spec => [](TypeOK /\ TurnInv)
  BY InitTypeOK, InitTurnInv, StepTypeOK, StepTurnInv, PTL DEF Spec
<1>2. TurnInv => TurnOfSelected
  BY DEF TurnInv
<1>3. QED BY <1>1, <1>2, PTL
============================================================================
