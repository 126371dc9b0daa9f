---------------------- MODULE RequestLifecycleProofs -----------------------
(***************************************************************************)
(* Proofs about RequestLifecycle for any set of request ids and threads:   *)
(* types, at most one reply per request, no revival of historical          *)
(* requests, surfaces that follow the live requests, and no request left   *)
(* without an answer but by the end of a load.                             *)
(***************************************************************************)
EXTENDS RequestLifecycle, SequenceTheorems, TLAPS

----------------------------------------------------------------------------
(* Types, group by group.                                                  *)

\* The initial state is well typed.
LEMMA InitTypeOK == Init => TypeOK
<1> SUFFICES ASSUME Init PROVE TypeOK
  OBVIOUS
<1>1. NoItem \in Item
  BY DEF NoItem, Item
<1>2. ViewTypes /\ CardTypes
  BY <1>1 DEF Init, ViewTypes, CardTypes, Surface
<1>3. LinkTypes
  BY DEF Init, LinkTypes
<1>4. ServerTypes
  BY DEF Init, ServerTypes
<1>5. QED BY <1>2, <1>3, <1>4 DEF TypeOK

\* A group whose variables are unchanged keeps its types.
LEMMA Unchanged ==
  /\ ViewTypes /\ UNCHANGED viewVars => ViewTypes'
  /\ CardTypes /\ UNCHANGED cardVars => CardTypes'
  /\ LinkTypes /\ UNCHANGED linkVars => LinkTypes'
  /\ ServerTypes /\ UNCHANGED serverVars => ServerTypes'
<1>1. ViewTypes /\ UNCHANGED viewVars => ViewTypes'
  BY DEF ViewTypes, viewVars
<1>2. CardTypes /\ UNCHANGED cardVars => CardTypes'
  BY DEF CardTypes, cardVars
<1>3. LinkTypes /\ UNCHANGED linkVars => LinkTypes'
  BY DEF LinkTypes, linkVars
<1>4. ServerTypes /\ UNCHANGED serverVars => ServerTypes'
  BY DEF ServerTypes, serverVars
<1>5. QED BY <1>1, <1>2, <1>3, <1>4

\* A task of a reply for a request.
LEMMA ReplyTaskType ==
  ASSUME NEW id \in Ids
  PROVE  [id |-> id, by |-> "app"] \in ReplyTask /\ [id |-> id, by |-> "user"] \in ReplyTask
  BY DEF ReplyTask

\* What is left of the queue after a batch.
LEMMA RestOfQueue ==
  ASSUME ServerTypes, NEW n \in 1..Len(queue), queue' = SubSeq(queue, n + 1, Len(queue))
  PROVE  /\ queue' \in Seq(Event)
         /\ Len(queue) \in Nat /\ n \in Nat /\ Len(queue') = Len(queue) - n
         /\ \A i \in 1..Len(queue') : n + i \in 1..Len(queue) /\ queue'[i] = queue[n + i]
<1>1. queue \in Seq(Event) /\ Len(queue) \in Nat /\ n \in Nat
  BY DEF ServerTypes
<1>2. n + 1 \in Int /\ Len(queue) \in Int /\ \A i \in (n + 1)..Len(queue) : queue[i] \in Event
  BY <1>1
<1>3. /\ queue' \in Seq(Event)
      /\ Len(queue') = IF n + 1 <= Len(queue) THEN Len(queue) - (n + 1) + 1 ELSE 0
      /\ \A i \in 1..(Len(queue) - (n + 1) + 1) : queue'[i] = queue[(n + 1) + i - 1]
  BY <1>2, SubSeqProperties
<1>4. Len(queue') = Len(queue) - n
  BY <1>1, <1>3
<1>5. ASSUME NEW i \in 1..Len(queue')
      PROVE  n + i \in 1..Len(queue) /\ queue'[i] = queue[n + i]
  <2>1. i \in 1..(Len(queue) - (n + 1) + 1) /\ (n + 1) + i - 1 = n + i
    BY <1>1, <1>4
  <2>2. QED BY <1>1, <1>3, <1>4, <2>1
<1>6. QED BY <1>1, <1>3, <1>4, <1>5

\* Closing a task is well typed.
LEMMA CloseTypes ==
  ASSUME CardTypes, replyTasks \subseteq ReplyTask, CloseTask
  PROVE  CardTypes' /\ replyTasks' \subseteq ReplyTask
<1>1. NoItem \in Item
  BY DEF NoItem, Item
<1>2. CardTypes'
  BY <1>1 DEF CardTypes, CloseTask
<1>3. replyTasks' \subseteq ReplyTask
  BY ReplyTaskType DEF CardTypes, CloseTask, RejectPendingRequests
<1>4. QED BY <1>2, <1>3

\* thread/resume only adds threads.
LEMMA ResumeTypes ==
  ASSUME ServerTypes, ViewTypes, MayResume PROVE ServerTypes'
<1>1. subscribed' \subseteq Threads
  BY DEF ServerTypes, ViewTypes, MayResume, Resumable
<1>2. QED BY <1>1 DEF ServerTypes, MayResume

\* A batch of events is well typed.
LEMMA BatchTypes ==
  ASSUME TypeOK, NEW n \in 1..Len(queue), ApplyBatch(n) PROVE TypeOK'
<1>0. ViewTypes /\ CardTypes /\ LinkTypes /\ ServerTypes
  BY DEF TypeOK
<1>1. Arrived(n) \subseteq Ids /\ Resolved(n) \subseteq Ids /\ Refused(n) \subseteq Ids
  BY DEF Arrived, Resolved, Refused
<1>2. ServerTypes'
  <2>1. queue' \in Seq(Event)
    BY <1>0, RestOfQueue DEF ApplyBatch
  <2>2. QED BY <1>0, <2>1 DEF ApplyBatch, ServerTypes
<1>3. items' \in [Ids -> Item]
  <2>1. \A id \in Ids : items[id] \in Item /\ items[id].conn \in Nat
    BY <1>0 DEF CardTypes, Item
  <2>2. ASSUME NEW id \in Ids, NEW c \in Nat, NEW b \in BOOLEAN
        PROVE  [conn |-> c, resolved |-> b, status |-> IF b THEN "resolved" ELSE "waiting"] \in Item
    BY DEF Item
  <2>3. conn \in Nat
    BY <1>0 DEF LinkTypes
  <2> DEFINE new(id) == [conn |-> IF id \in Arrived(n) THEN conn ELSE items[id].conn,
                         resolved |-> id \in Resolved(n),
                         status |-> IF id \in Resolved(n) THEN "resolved" ELSE "waiting"]
  <2>4. ASSUME NEW id \in Ids PROVE new(id) \in Item
    <3>1. (IF id \in Arrived(n) THEN conn ELSE items[id].conn) \in Nat
      BY <2>1, <2>3
    <3>2. (id \in Resolved(n)) \in BOOLEAN
      OBVIOUS
    <3>3. QED BY <2>2, <3>1, <3>2
  <2> HIDE DEF new
  <2>5. items' = [id \in Ids |-> IF id \in Arrived(n) \cup Resolved(n) THEN new(id) ELSE items[id]]
    BY Zenon DEF ApplyBatch, new
  <2>6. QED BY <2>1, <2>4, <2>5
<1>4. CardTypes'
  <2>1. live' \subseteq Ids /\ surfaces' = surfaces
    BY <1>0, <1>1 DEF ApplyBatch, CardTypes
  <2>2. dirty' \subseteq Ids
    BY <1>0, <1>1 DEF ApplyBatch, CardTypes, MarkTouched
  <2>3. QED BY <1>0, <1>3, <2>1, <2>2 DEF CardTypes
<1>5. LinkTypes'
  BY <1>0, <1>1, ReplyTaskType DEF ApplyBatch, LinkTypes
<1>6. QED BY <1>0, <1>2, <1>4, <1>5, Unchanged DEF ApplyBatch, TypeOK

\* Drawing a frame is well typed.
LEMMA SyncTypes == ASSUME TypeOK, SyncRequestSurfaces PROVE TypeOK'
<1>0. ViewTypes /\ CardTypes /\ LinkTypes /\ ServerTypes
  BY DEF TypeOK
<1>1. CardTypes'
  BY <1>0 DEF SyncRequestSurfaces, CardTypes, Surface
<1>2. QED BY <1>0, <1>1, Unchanged DEF SyncRequestSurfaces, TypeOK

\* Marking a card keeps it a card of the same connection.
LEMMA MarkedItem ==
  ASSUME NEW it \in Item, NEW b \in BOOLEAN,
         NEW st \in {"waiting", "responding", "completed", "response failed"}
  PROVE  /\ Marked(it, b, st) \in Item
         /\ Marked(it, b, st).resolved = b /\ Marked(it, b, st).conn = it.conn
  BY DEF Marked, Item

\* The user's answer is well typed.
LEMMA RespondTypes ==
  ASSUME TypeOK, NEW id \in Ids, SurfaceRespond(id) \/ CardRespond(id) PROVE TypeOK'
<1>0. ViewTypes /\ CardTypes /\ LinkTypes /\ ServerTypes
  BY DEF TypeOK
<1>1. UNCHANGED <<viewVars, serverVars, live, dirty, client, conn, outbound, answers>>
  BY DEF SurfaceRespond, CardRespond
<1>2. surfaces' \in [Ids -> Surface]
  BY <1>0 DEF SurfaceRespond, CardRespond, CardTypes, Surface
<1>3. RespondWithValue(id) \/ UNCHANGED <<items, replyTasks>>
  BY DEF SurfaceRespond, CardRespond
<1>4. items' \in [Ids -> Item]
  <2>1. items \in [Ids -> Item] /\ Marked(items[id], TRUE, "responding") \in Item
    BY <1>0, MarkedItem DEF CardTypes
  <2>2. items' = items \/ items' = [items EXCEPT ![id] = Marked(items[id], TRUE, "responding")]
    BY <1>3 DEF RespondWithValue
  <2>3. QED BY <2>1, <2>2
<1>5. replyTasks' \subseteq ReplyTask
  <2>1. replyTasks' = replyTasks \/ replyTasks' = replyTasks \cup {[id |-> id, by |-> "user"]}
    BY <1>3 DEF RespondWithValue
  <2>2. replyTasks \subseteq ReplyTask /\ [id |-> id, by |-> "user"] \in ReplyTask
    BY <1>0, ReplyTaskType DEF LinkTypes
  <2>3. QED BY <2>1, <2>2, Zenon
<1>6. CardTypes' /\ LinkTypes'
  BY <1>0, <1>1, <1>2, <1>4, <1>5 DEF CardTypes, LinkTypes
<1>7. QED BY <1>0, <1>1, <1>6, Unchanged DEF TypeOK

\* The continuation of a reply is well typed.
LEMMA ReplyTypes == ASSUME TypeOK, NEW r \in replyTasks, ReplyDone(r) PROVE TypeOK'
<1>0. ViewTypes /\ CardTypes /\ LinkTypes /\ ServerTypes
  BY DEF TypeOK
<1>1. r.id \in Ids /\ outbound \in BOOLEAN
  BY <1>0 DEF LinkTypes, ReplyTask
<1>2. answers' \in [Ids -> Nat]
  BY <1>0, <1>1 DEF ReplyDone, LinkTypes
<1>3. LinkTypes'
  <2>1. replyTasks' \subseteq ReplyTask /\ UNCHANGED <<client, conn, outbound>>
    BY <1>0, Zenon DEF ReplyDone, LinkTypes
  <2>2. QED BY <1>0, <1>2, <2>1 DEF LinkTypes
<1>4. CardTypes'
  <2>1. CASE r.by = "user" /\ items[r.id] # NoItem
    <3>1. items' \in [Ids -> Item]
      <4>1. items \in [Ids -> Item] /\ Marked(items[r.id], outbound, ReplyStatus) \in Item
        BY <1>0, <1>1, MarkedItem DEF CardTypes, ReplyStatus
      <4>2. items' = [items EXCEPT ![r.id] = Marked(items[r.id], outbound, ReplyStatus)]
        BY <2>1 DEF ReplyDone
      <4>3. QED BY <4>1, <4>2
    <3>2. surfaces' \in [Ids -> Surface] /\ dirty' \subseteq Ids /\ live' = live
      BY <1>0, <1>1, <2>1 DEF ReplyDone, CardTypes, Surface
    <3>3. QED BY <1>0, <3>1, <3>2 DEF CardTypes
  <2>2. CASE ~(r.by = "user" /\ items[r.id] # NoItem)
    BY <1>0, <2>2 DEF ReplyDone, CardTypes
  <2>3. QED BY <2>1, <2>2
<1>5. QED BY <1>0, <1>3, <1>4, Unchanged DEF ReplyDone, TypeOK

\* Switching, saving and loading are well typed.
LEMMA TaskTypes ==
  ASSUME TypeOK,
         \/ TurnCompleted \/ NewTask \/ RefreshThreads \/ Load
         \/ \E t \in Threads : OpenThread(t) \/ SendDone(t)
  PROVE  TypeOK'
<1>0. ViewTypes /\ CardTypes /\ LinkTypes /\ ServerTypes
  BY DEF TypeOK
<1>1. CASE TurnCompleted
  <2>1. ViewTypes'
    BY <1>0, <1>1 DEF TurnCompleted, ViewTypes, CardTypes, MayResume
  <2>2. QED BY <1>0, <1>1, <2>1, ResumeTypes, Unchanged DEF TurnCompleted, TypeOK
<1>2. CASE NewTask
  <2>1. ViewTypes'
    BY <1>0, <1>2 DEF NewTask, ViewTypes, Input
  <2>2. CardTypes' /\ replyTasks' \subseteq ReplyTask
    BY <1>0, <1>2, CloseTypes DEF NewTask, LinkTypes
  <2>3. LinkTypes'
    BY <1>0, <1>2, <2>2 DEF NewTask, LinkTypes
  <2>4. QED BY <1>0, <1>2, <2>1, <2>2, <2>3, Unchanged DEF NewTask, TypeOK
<1>3. CASE RefreshThreads
  <2>1. ViewTypes'
    <3>1. loadLost' \in BOOLEAN
      BY <1>3, Zenon DEF RefreshThreads, MayResume
    <3>2. inputs' \in Nat
      BY <1>0, <1>3 DEF RefreshThreads, ViewTypes, Input
    <3>3. QED BY <1>0, <1>3, <3>1, <3>2 DEF RefreshThreads, ViewTypes
  <2>2. QED BY <1>0, <1>3, <2>1, ResumeTypes, Unchanged DEF RefreshThreads, TypeOK
<1>4. ASSUME NEW t \in Threads, OpenThread(t) PROVE TypeOK'
  <2>1. ViewTypes'
    <3>1. loadLost' \in BOOLEAN
      BY <1>4, Zenon DEF OpenThread, MayResume
    <3>2. inputs' \in Nat
      BY <1>0, <1>4 DEF OpenThread, ViewTypes, Input
    <3>3. QED BY <1>0, <1>4, <3>1, <3>2 DEF OpenThread, ViewTypes
  <2>2. CardTypes' /\ replyTasks' \subseteq ReplyTask
    BY <1>0, <1>4, CloseTypes DEF OpenThread, LinkTypes
  <2>3. LinkTypes'
    BY <1>0, <1>4, <2>2 DEF OpenThread, LinkTypes
  <2>4. QED BY <1>0, <1>4, <2>1, <2>2, <2>3, ResumeTypes DEF OpenThread, TypeOK
<1>5. ASSUME NEW t \in Threads, SendDone(t) PROVE TypeOK'
  <2>1. ViewTypes' /\ ServerTypes'
    BY <1>0, <1>5 DEF SendDone, ViewTypes, ServerTypes
  <2>2. QED BY <1>0, <1>5, <2>1, Unchanged DEF SendDone, TypeOK
<1>6. CASE LoadFailed
  <2>1. ViewTypes'
    BY <1>0, <1>6 DEF LoadFailed, ViewTypes
  <2>2. QED BY <1>0, <1>6, <2>1, Unchanged DEF LoadFailed, TypeOK
<1>7. ASSUME NEW restored \in SUBSET Ids, LoadThread(restored) PROVE TypeOK'
  <2>1. ViewTypes'
    BY <1>0, <1>7 DEF LoadThread, ViewTypes, MayResume
  <2>2. loadTask \in Threads /\ snapshot[loadTask] \in [Ids -> Item]
    BY <1>0, <1>7 DEF LoadThread, ViewTypes
  <2>3. items' \in [Ids -> Item]
    BY <1>7, <2>2 DEF LoadThread, NoItem, Item
  <2>4. CardTypes'
    BY <1>0, <1>7, <2>3 DEF LoadThread, RetireAllRequestSurfaces, CardTypes
  <2>5. QED BY <1>0, <1>7, <2>1, <2>4, ResumeTypes, Unchanged DEF LoadThread, TypeOK
<1>8. QED BY <1>1, <1>2, <1>3, <1>4, <1>5, <1>6, <1>7 DEF Load

\* Losing and regaining the connection is well typed.
LEMMA LinkStepTypes ==
  ASSUME TypeOK, HandleServerDisconnect \/ \E t \in Threads \cup {NoThread} : Connect(t)
  PROVE  TypeOK'
<1>0. ViewTypes /\ CardTypes /\ LinkTypes /\ ServerTypes
  BY DEF TypeOK
<1>1. CASE HandleServerDisconnect
  <2>1. items' \in [Ids -> Item]
    BY <1>0, <1>1 DEF HandleServerDisconnect, CardTypes, Item
  <2>2. CardTypes'
    BY <1>0, <1>1, <2>1 DEF HandleServerDisconnect, RetireAllRequestSurfaces, CardTypes
  <2>3. LinkTypes'
    BY <1>0, <1>1 DEF HandleServerDisconnect, LinkTypes
  <2>4. ViewTypes'
    <3>1. loadLost' \in BOOLEAN
      BY <1>1, Zenon DEF HandleServerDisconnect
    <3>2. QED BY <1>0, <1>1, <3>1 DEF HandleServerDisconnect, ViewTypes
  <2>5. QED BY <1>0, <1>1, <2>2, <2>3, <2>4, Unchanged DEF HandleServerDisconnect, TypeOK
<1>2. ASSUME NEW t \in Threads \cup {NoThread}, Connect(t) PROVE TypeOK'
  <2>1. CardTypes' /\ replyTasks' \subseteq ReplyTask
    <3>1. CASE t = NoThread
      BY <1>0, <1>2, <3>1, Unchanged DEF Connect, LinkTypes
    <3>2. CASE t # NoThread
      BY <1>0, <1>2, <3>2, CloseTypes DEF Connect, LinkTypes
    <3>3. QED BY <3>1, <3>2
  <2>2. ViewTypes'
    BY <1>0, <1>2 DEF Connect, ViewTypes
  <2>3. client' = TRUE /\ outbound' = TRUE /\ conn' \in Nat /\ answers' \in [Ids -> Nat]
    BY <1>0, <1>2 DEF Connect, LinkTypes
  <2>4. LinkTypes'
    BY <2>1, <2>3 DEF LinkTypes
  <2>5. ServerTypes'
    BY <1>2 DEF Connect, ServerTypes
  <2>6. QED BY <2>1, <2>2, <2>4, <2>5 DEF TypeOK
<1>3. QED BY <1>1, <1>2

\* The app-server's steps are well typed.
LEMMA ServerStepTypes == ASSUME TypeOK, Server PROVE TypeOK'
<1>0. ViewTypes /\ CardTypes /\ LinkTypes /\ ServerTypes
  BY DEF TypeOK
<1>1. ASSUME NEW id \in Ids, NEW t \in Threads \cup {NoThread}, NEW valid \in BOOLEAN,
             ServerRequest(id, t, valid)
      PROVE  TypeOK'
  <2>1. [kind |-> "request", id |-> id, thread |-> t, valid |-> valid] \in Event
    BY DEF Event
  <2>2. queue' \in Seq(Event)
    BY <1>0, <1>1, <2>1 DEF ServerRequest, ServerTypes
  <2>3. ServerTypes'
    BY <1>0, <1>1, <2>2 DEF ServerRequest, ServerTypes
  <2>4. QED BY <1>0, <1>1, <2>3, Unchanged DEF ServerRequest, TypeOK
<1>2. ASSUME NEW id \in Ids, ServerSettles(id) PROVE TypeOK'
  <2>1. [kind |-> "resolved", id |-> id, thread |-> origin[id], valid |-> TRUE] \in Event
    BY <1>0 DEF Event, ServerTypes
  <2>2. queue' \in Seq(Event)
    BY <1>0, <1>2, <2>1 DEF ServerSettles, ServerTypes
  <2>3. ServerTypes'
    BY <1>0, <1>2, <2>2 DEF ServerSettles, ServerTypes
  <2>4. QED BY <1>0, <1>2, <2>3, Unchanged DEF ServerSettles, TypeOK
<1>3. CASE ServerDies
  <2>1. ServerTypes'
    BY <1>0, <1>3 DEF ServerDies, ServerTypes
  <2>2. QED BY <1>0, <1>3, <2>1, Unchanged DEF ServerDies, TypeOK
<1>4. CASE OutboundCloses
  <2>1. LinkTypes'
    BY <1>0, <1>4 DEF OutboundCloses, LinkTypes
  <2>2. QED BY <1>0, <1>4, <2>1, Unchanged DEF OutboundCloses, TypeOK
<1>5. QED BY <1>1, <1>2, <1>3, <1>4 DEF Server

\* Every step keeps the types.
LEMMA StepTypeOK == ASSUME TypeOK, [Next]_vars PROVE TypeOK'
<1>1. CASE UNCHANGED vars
  BY <1>1, Unchanged DEF vars, TypeOK
<1>2. CASE Apply
  BY <1>2, BatchTypes DEF Apply
<1>3. CASE Reply
  BY <1>3, ReplyTypes DEF Reply
<1>4. CASE User
  BY <1>4, RespondTypes, TaskTypes DEF User
<1>5. CASE Load \/ TurnCompleted \/ \E t \in Threads : SendDone(t)
  BY <1>5, TaskTypes
<1>6. QED
  BY <1>1, <1>2, <1>3, <1>4, <1>5, SyncTypes, LinkStepTypes, ServerStepTypes DEF Next

\* The request state of HarnessApp keeps its types for every number of requests,
\* threads and connections.
THEOREM RequestTypes == Spec => []TypeOK
  BY InitTypeOK, StepTypeOK, PTL DEF Spec

----------------------------------------------------------------------------
(* The inductive invariant.  A reply is counted once because a request     *)
(* leaves the queue once (QueueInv, FreshInv) and from then on is either   *)
(* waiting under a live key or has its one reply under way (ReplyInv).     *)

\* The initial state satisfies the invariant.
LEMMA InitIInv == Init => IInv
  BY DEF Init, IInv, QueueInv, FreshInv, ReplyInv, AtMostOneReply, LiveIsCurrent,
     LiveInOpenTask, SurfaceInv, LiveHasSurface, Mounted

\* Whether a request is still unseen only depends on the queue and on asked.
LEMMA FreshFrame ==
  ASSUME UNCHANGED <<queue, asked>> PROVE \A id : Fresh(id)' = Fresh(id)
  BY DEF Fresh, Queued

\* Steps that touch nothing the invariant is about.
LEMMA FrameIInv ==
  ASSUME IInv, UNCHANGED <<conn, client, selected, items, live, surfaces, dirty, replyTasks,
                           answers, asked, origin, queue>>
  PROVE  IInv'
<1>1. QueueInv'
  BY DEF IInv, QueueInv
<1>2. FreshInv'
  BY FreshFrame DEF IInv, FreshInv, Mounted
<1>3. ReplyInv'
  BY DEF IInv, ReplyInv, AtMostOneReply, Unresolved
<1>4. LiveIsCurrent' /\ LiveInOpenTask'
  BY DEF IInv, LiveIsCurrent, LiveInOpenTask
<1>5. SurfaceInv'
  BY DEF IInv, SurfaceInv, LiveHasSurface, Mounted, Unresolved
<1>6. QED BY <1>1, <1>2, <1>3, <1>4, <1>5 DEF IInv

\* Retiring every surface leaves no live key, and every surface for the next frame.
LEMMA RetireIInv ==
  ASSUME IInv, live' = {}, \A id \in Ids : Mounted(id) => id \in dirty',
         UNCHANGED <<conn, surfaces, answers, asked, origin, queue>>,
         \A r \in replyTasks' \ replyTasks : r.id \in live /\ Unresolved(r.id),
         replyTasks \subseteq replyTasks',
         \A r \in replyTasks' \ replyTasks : r.by = "app",
         replyTasks' \subseteq ReplyTask
  PROVE  IInv'
<1>1. QueueInv'
  BY DEF IInv, QueueInv
<1>2. FreshInv'
  BY FreshFrame DEF IInv, FreshInv, Mounted
<1>3. ReplyInv'
  <2>1. ASSUME NEW r \in replyTasks' PROVE answers[r.id] = 0
    BY <2>1 DEF IInv, ReplyInv
  <2>2. ASSUME NEW r \in replyTasks', NEW q \in replyTasks', q.id = r.id PROVE q = r
    <3>1. CASE r \in replyTasks /\ q \in replyTasks
      BY <2>2, <3>1 DEF IInv, ReplyInv
    <3>2. CASE r \notin replyTasks /\ q \notin replyTasks
      BY <2>2, <3>2 DEF ReplyTask
    <3>3. CASE (r \in replyTasks /\ q \notin replyTasks) \/ (r \notin replyTasks /\ q \in replyTasks)
      BY <2>2, <3>3 DEF IInv, ReplyInv
    <3>4. QED BY <3>1, <3>2, <3>3
  <2>3. QED BY <2>1, <2>2 DEF IInv, ReplyInv, AtMostOneReply
<1>4. LiveIsCurrent' /\ LiveInOpenTask'
  BY DEF LiveIsCurrent, LiveInOpenTask
<1>5. SurfaceInv'
  BY DEF SurfaceInv, LiveHasSurface, Mounted
<1>6. QED BY <1>1, <1>2, <1>3, <1>4, <1>5 DEF IInv

\* Opening, closing and loading tasks, and losing the connection.
LEMMA TaskIInv ==
  ASSUME TypeOK, TypeOK', IInv,
         \/ TurnCompleted \/ NewTask \/ RefreshThreads \/ Load \/ HandleServerDisconnect
         \/ \E t \in Threads : OpenThread(t) \/ SendDone(t)
  PROVE  IInv'
<1>0. replyTasks \subseteq ReplyTask /\ replyTasks' \subseteq ReplyTask /\ live \subseteq Ids
  BY DEF TypeOK, LinkTypes, CardTypes
<1>1. CASE TurnCompleted
  BY <1>1, FrameIInv DEF TurnCompleted, MayResume, cardVars, linkVars
<1>2. CASE RefreshThreads
  BY <1>2, FrameIInv DEF RefreshThreads, MayResume, cardVars, linkVars
<1>3. CASE LoadFailed
  BY <1>3, FrameIInv DEF LoadFailed, serverVars, cardVars, linkVars
<1>4. CASE HandleServerDisconnect \/ \E restored \in SUBSET Ids : LoadThread(restored)
  <2>1. /\ live' = {} /\ dirty' = dirty \cup {id \in Ids : Mounted(id)}
        /\ UNCHANGED <<conn, surfaces, answers, asked, origin, queue, replyTasks>>
    BY <1>4 DEF HandleServerDisconnect, LoadThread, MayResume, RetireAllRequestSurfaces,
       serverVars, linkVars
  <2>2. QED BY <1>0, <2>1, RetireIInv
<1>5. CASE NewTask \/ \E t \in Threads : OpenThread(t)
  <2>1. CloseTask /\ UNCHANGED <<conn, answers, asked, origin, queue>>
    BY <1>5 DEF NewTask, OpenThread, MayResume, serverVars
  <2>2. /\ live' = {} /\ UNCHANGED surfaces
        /\ \A id \in Ids : Mounted(id) => id \in dirty'
        /\ replyTasks' = replyTasks \cup {[id |-> id, by |-> "app"] : id \in {k \in live : Unresolved(k)}}
    BY <2>1 DEF CloseTask, RejectPendingRequests
  <2>3. /\ replyTasks \subseteq replyTasks'
        /\ \A r \in replyTasks' \ replyTasks : r.id \in live /\ Unresolved(r.id) /\ r.by = "app"
    BY <2>2
  <2>4. QED BY <1>0, <2>1, <2>2, <2>3, RetireIInv
<1>6. ASSUME NEW t \in Threads, SendDone(t) PROVE IInv'
  <2>0. UNCHANGED <<conn, client, items, live, surfaces, dirty, replyTasks, answers, asked, origin, queue>>
    BY <1>6 DEF SendDone, cardVars, linkVars
  <2>1. QueueInv'
    BY <2>0 DEF IInv, QueueInv
  <2>2. FreshInv'
    BY <2>0, FreshFrame DEF IInv, FreshInv, Mounted
  <2>3. ReplyInv'
    BY <2>0 DEF IInv, ReplyInv, AtMostOneReply, Unresolved
  <2>4. LiveIsCurrent'
    BY <2>0 DEF IInv, LiveIsCurrent
  <2>5. LiveInOpenTask'
    BY <1>6, <2>0 DEF IInv, LiveInOpenTask, SendDone
  <2>6. SurfaceInv'
    BY <2>0 DEF IInv, SurfaceInv, LiveHasSurface, Mounted, Unresolved
  <2>7. QED BY <2>0, <2>1, <2>2, <2>3, <2>4, <2>5, <2>6 DEF IInv
<1>7. QED BY <1>1, <1>2, <1>3, <1>4, <1>5, <1>6 DEF Load

\* On a new connection nothing was asked and nothing is left of the old one.
LEMMA ConnectIInv ==
  ASSUME TypeOK, IInv, NEW t \in Threads \cup {NoThread}, Connect(t) PROVE IInv'
<1>1. live = {} /\ dirty = {} /\ replyTasks = {} /\ ~client
  BY DEF IInv, LiveIsCurrent, Connect
<1>2. \A id \in Ids : ~Mounted(id)
  BY <1>1 DEF IInv, SurfaceInv
<1>3. /\ live' = {} /\ replyTasks' = {} /\ UNCHANGED surfaces
      /\ queue' = <<>> /\ asked' = {} /\ answers' = [id \in Ids |-> 0]
  BY <1>1 DEF Connect, CloseTask, RejectPendingRequests, cardVars
<1>4. conn' # 0
  BY DEF Connect, TypeOK, LinkTypes
<1>5. QueueInv' /\ LiveIsCurrent' /\ LiveInOpenTask'
  BY <1>3 DEF QueueInv, LiveIsCurrent, LiveInOpenTask
<1>6. FreshInv' /\ ReplyInv'
  BY <1>2, <1>3 DEF FreshInv, ReplyInv, AtMostOneReply, Mounted
<1>7. SurfaceInv'
  BY <1>2, <1>3 DEF SurfaceInv, LiveHasSurface, Mounted
<1>8. QED BY <1>4, <1>5, <1>6, <1>7 DEF IInv

\* Drawing a frame keeps the invariant.
LEMMA SyncIInv == ASSUME TypeOK, IInv, SyncRequestSurfaces PROVE IInv'
<1>0. /\ surfaces \in [Ids -> Surface] /\ live \subseteq Ids /\ dirty \subseteq Ids
      /\ UNCHANGED <<conn, client, selected, items, replyTasks, answers, asked, origin, queue>>
      /\ live' \subseteq live
  BY DEF TypeOK, CardTypes, SyncRequestSurfaces, serverVars, linkVars, viewVars
<1>1. QueueInv'
  BY <1>0 DEF IInv, QueueInv
<1>2. FreshInv'
  <2>1. ASSUME NEW id \in Ids, Fresh(id) PROVE ~Mounted(id)'
    <3>1. surfaces[id] = "none" /\ id \notin live
      BY <2>1 DEF IInv, FreshInv, Mounted
    <3>2. surfaces'[id] = "none"
      BY <1>0, <3>1 DEF SyncRequestSurfaces, Upserted
    <3>3. QED BY <3>2 DEF Mounted
  <2>2. QED BY <1>0, <2>1, FreshFrame DEF IInv, FreshInv
<1>3. ReplyInv'
  BY <1>0 DEF IInv, ReplyInv, AtMostOneReply, Unresolved
<1>4. LiveIsCurrent' /\ LiveInOpenTask'
  BY <1>0 DEF IInv, LiveIsCurrent, LiveInOpenTask
<1>5. SurfaceInv'
  <2>1. ASSUME NEW id \in Ids PROVE Mounted(id)' => id \in live'
    <3>1. CASE id \in Removed
      BY <1>0, <3>1 DEF SyncRequestSurfaces, Mounted
    <3>2. CASE id \notin Removed
      <4>1. id \in live \/ id \notin dirty
        BY <3>2 DEF Removed
      <4>2. CASE id \in live
        BY <3>2, <4>2 DEF SyncRequestSurfaces
      <4>3. CASE id \notin live /\ id \notin dirty
        <5>1. ~Mounted(id)
          BY <4>3 DEF IInv, SurfaceInv
        <5>2. surfaces'[id] = surfaces[id]
          BY <1>0, <3>2, <4>3 DEF SyncRequestSurfaces, Upserted
        <5>3. QED BY <5>1, <5>2 DEF Mounted
      <4>4. QED BY <4>1, <4>2, <4>3
    <3>3. QED BY <3>1, <3>2
  <2>2. ASSUME NEW id \in live', surfaces'[id] = "responding"
        PROVE  [id |-> id, by |-> "user"] \in replyTasks'
    <3>1. id \in live /\ surfaces[id] = "responding"
      BY <1>0, <2>2 DEF SyncRequestSurfaces
    <3>2. QED BY <1>0, <3>1 DEF IInv, SurfaceInv
  <2>3. ASSUME NEW id \in live', Unresolved(id)' PROVE Mounted(id)'
    <3>1. id \in Ids /\ id \in live /\ id \notin Removed /\ Unresolved(id)
      BY <1>0, <2>3 DEF SyncRequestSurfaces, Unresolved
    <3>2. CASE Mounted(id)
      BY <1>0, <3>1, <3>2 DEF SyncRequestSurfaces, Mounted
    <3>3. CASE ~Mounted(id)
      <4>1. id \in Upserted
        BY <3>1, <3>3 DEF IInv, SurfaceInv, LiveHasSurface, Upserted
      <4>2. QED BY <1>0, <3>1, <3>3, <4>1 DEF SyncRequestSurfaces, Mounted
    <3>4. QED BY <3>2, <3>3
  <2>4. QED BY <1>0, <2>1, <2>2, <2>3 DEF SurfaceInv, LiveHasSurface
<1>6. QED BY <1>0, <1>1, <1>2, <1>3, <1>4, <1>5 DEF IInv

\* The user's answer keeps the invariant.
LEMMA RespondIInv ==
  ASSUME TypeOK, IInv, NEW id \in Ids, SurfaceRespond(id) \/ CardRespond(id) PROVE IInv'
<1>0. /\ surfaces \in [Ids -> Surface] /\ live \subseteq Ids /\ items \in [Ids -> Item]
      /\ replyTasks \subseteq ReplyTask
      /\ UNCHANGED <<conn, client, selected, live, dirty, answers, asked, origin, queue>>
      /\ Unresolved(id)
  BY DEF TypeOK, CardTypes, LinkTypes, SurfaceRespond, CardRespond, serverVars, viewVars
<1>1. \/ id \in live /\ RespondWithValue(id)
      \/ id \notin live /\ UNCHANGED <<items, replyTasks>>
  BY DEF SurfaceRespond, CardRespond
<1>2. /\ \A k \in Ids : k # id => surfaces'[k] = surfaces[k]
      /\ Mounted(id)' <=> Mounted(id)
  BY <1>0 DEF SurfaceRespond, CardRespond, Mounted
<1>3. ~Fresh(id)
  BY <1>0 DEF IInv, FreshInv, SurfaceRespond, CardRespond, Mounted
<1>4. QueueInv'
  BY <1>0 DEF IInv, QueueInv
<1>5. /\ \A k \in Ids : items'[k].conn = items[k].conn
      /\ \A k \in Ids : k # id => items'[k] = items[k]
      /\ id \in live => items'[id].resolved = TRUE
  <2>1. CASE id \in live
    <3>1. items' = [items EXCEPT ![id] = Marked(items[id], TRUE, "responding")]
      BY <1>1, <2>1 DEF RespondWithValue
    <3>2. Marked(items[id], TRUE, "responding").resolved = TRUE
          /\ Marked(items[id], TRUE, "responding").conn = items[id].conn
      BY <1>0, MarkedItem
    <3>3. QED BY <1>0, <3>1, <3>2
  <2>2. CASE id \notin live
    BY <1>1, <2>2
  <2>3. QED BY <2>1, <2>2
<1>6. replyTasks \subseteq replyTasks'
      /\ \A r \in replyTasks' : r \in replyTasks \/ (id \in live /\ r = [id |-> id, by |-> "user"])
  BY <1>1 DEF RespondWithValue
<1>7. FreshInv'
  <2>1. ASSUME NEW k \in Ids, Fresh(k) PROVE k # id
    BY <1>3, <2>1
  <2>2. ASSUME NEW k \in Ids, Fresh(k)
        PROVE  ~Mounted(k)' /\ \A r \in replyTasks' : r.id # k
    BY <1>2, <1>6, <2>1, <2>2 DEF IInv, FreshInv, Mounted
  <2>3. QED BY <1>0, <2>2, FreshFrame DEF IInv, FreshInv
<1>8. ReplyInv'
  <2>1. id \in live => answers[id] = 0 /\ \A r \in replyTasks : r.id # id
    BY <1>0 DEF IInv, ReplyInv
  <2>2. ASSUME NEW r \in replyTasks'
        PROVE  answers[r.id] = 0 /\ \A q \in replyTasks' : q.id = r.id => q = r
    BY <1>6, <2>1 DEF IInv, ReplyInv
  <2>3. ASSUME NEW k \in live, ~items'[k].resolved
        PROVE  answers[k] = 0 /\ \A r \in replyTasks' : r.id # k
    <3>1. k # id /\ k \in Ids
      BY <1>0, <1>5, <2>3
    <3>2. answers[k] = 0 /\ \A r \in replyTasks : r.id # k
      BY <1>5, <2>3, <3>1 DEF IInv, ReplyInv, Unresolved
    <3>3. QED BY <1>6, <3>1, <3>2
  <2>4. QED BY <1>0, <2>2, <2>3 DEF IInv, ReplyInv, AtMostOneReply, Unresolved
<1>9. LiveIsCurrent' /\ LiveInOpenTask'
  BY <1>0, <1>5 DEF IInv, LiveIsCurrent, LiveInOpenTask
<1>10. SurfaceInv'
  <2>1. ASSUME NEW k \in Ids, Mounted(k)', k \notin live PROVE k \in dirty
    BY <1>2, <2>1 DEF IInv, SurfaceInv, Mounted
  <2>2. ASSUME NEW k \in live, surfaces'[k] = "responding"
        PROVE  [id |-> k, by |-> "user"] \in replyTasks'
    <3>1. CASE k = id
      BY <1>1, <2>2, <3>1 DEF RespondWithValue
    <3>2. CASE k # id
      BY <1>0, <1>2, <1>6, <2>2, <3>2 DEF IInv, SurfaceInv
    <3>3. QED BY <3>1, <3>2
  <2>3. ASSUME NEW k \in live, ~items'[k].resolved PROVE Mounted(k)' \/ k \in dirty
    <3>1. k # id /\ k \in Ids
      BY <1>0, <1>5, <2>3
    <3>2. QED BY <1>2, <1>5, <2>3, <3>1 DEF IInv, SurfaceInv, LiveHasSurface, Unresolved, Mounted
  <2>4. QED BY <1>0, <2>1, <2>2, <2>3 DEF SurfaceInv, LiveHasSurface, Unresolved
<1>11. QED BY <1>0, <1>4, <1>7, <1>8, <1>9, <1>10 DEF IInv

\* The continuation of a reply keeps the invariant: a card is only reopened when the
\* one reply it had was not taken.
LEMMA ReplyIInv == ASSUME TypeOK, IInv, NEW r \in replyTasks, ReplyDone(r) PROVE IInv'
<1>0. /\ surfaces \in [Ids -> Surface] /\ live \subseteq Ids /\ items \in [Ids -> Item]
      /\ dirty \subseteq Ids
      /\ replyTasks \subseteq ReplyTask /\ answers \in [Ids -> Nat] /\ outbound \in BOOLEAN
      /\ UNCHANGED <<conn, client, selected, live, asked, origin, queue>>
      /\ replyTasks' = replyTasks \ {r}
  BY DEF TypeOK, CardTypes, LinkTypes, ReplyDone, serverVars, viewVars
<1>1. r.id \in Ids /\ r.by \in {"user", "app"} /\ r = [id |-> r.id, by |-> r.by]
  BY <1>0 DEF ReplyTask
<1>2. answers[r.id] = 0 /\ \A q \in replyTasks' : q.id # r.id
  BY <1>0 DEF IInv, ReplyInv
<1>3. /\ \A k \in Ids : k # r.id => answers'[k] = answers[k]
      /\ answers'[r.id] = IF outbound THEN 1 ELSE 0
  BY <1>0, <1>1, <1>2 DEF ReplyDone
<1>4. /\ \A k \in Ids : items'[k].conn = items[k].conn
      /\ \A k \in Ids : k # r.id => items'[k] = items[k]
      /\ items'[r.id] # items[r.id] => items'[r.id].resolved = outbound
      /\ r.by = "user" /\ items[r.id] # NoItem => items'[r.id].resolved = outbound
  <2>1. CASE r.by = "user" /\ items[r.id] # NoItem
    <3>1. items' = [items EXCEPT ![r.id] = Marked(items[r.id], outbound, ReplyStatus)]
      BY <2>1 DEF ReplyDone
    <3>2. Marked(items[r.id], outbound, ReplyStatus).resolved = outbound
          /\ Marked(items[r.id], outbound, ReplyStatus).conn = items[r.id].conn
      BY <1>0, <1>1, MarkedItem DEF ReplyStatus
    <3>3. QED BY <1>0, <1>1, <3>1, <3>2
  <2>2. CASE ~(r.by = "user" /\ items[r.id] # NoItem)
    BY <2>2 DEF ReplyDone
  <2>3. QED BY <2>1, <2>2
<1>5. /\ \A k \in Ids : k # r.id => surfaces'[k] = surfaces[k]
      /\ Mounted(r.id)' <=> Mounted(r.id)
      /\ dirty \subseteq dirty'
      /\ r.by = "user" /\ items[r.id] # NoItem => r.id \in dirty' /\ surfaces'[r.id] # "responding"
      /\ ~(r.by = "user" /\ items[r.id] # NoItem) => surfaces'[r.id] = surfaces[r.id]
  BY <1>0, <1>1 DEF ReplyDone, Mounted
<1>6. ~Fresh(r.id)
  BY <1>1 DEF IInv, FreshInv
<1>7. QueueInv'
  BY <1>0 DEF IInv, QueueInv
<1>8. FreshInv'
  <2>1. ASSUME NEW k \in Ids, Fresh(k)
        PROVE  answers'[k] = 0 /\ k \notin live /\ ~Mounted(k)' /\ \A q \in replyTasks' : q.id # k
    <3>1. k # r.id
      BY <1>6, <2>1
    <3>2. answers[k] = 0 /\ k \notin live /\ ~Mounted(k) /\ \A q \in replyTasks : q.id # k
      BY <2>1 DEF IInv, FreshInv
    <3>3. QED BY <1>0, <1>3, <1>5, <3>1, <3>2 DEF Mounted
  <2>2. QED BY <1>0, <2>1, FreshFrame DEF FreshInv
<1>9. ReplyInv'
  <2>1. ASSUME NEW q \in replyTasks'
        PROVE  answers'[q.id] = 0 /\ \A p \in replyTasks' : p.id = q.id => p = q
    <3>1. q \in replyTasks /\ q.id \in Ids /\ q.id # r.id
      BY <1>0, <1>2, <2>1 DEF ReplyTask
    <3>2. QED BY <1>0, <1>3, <3>1 DEF IInv, ReplyInv
  <2>2. ASSUME NEW k \in live, ~items'[k].resolved
        PROVE  answers'[k] = 0 /\ \A q \in replyTasks' : q.id # k
    <3>1. CASE k # r.id
      BY <1>0, <1>3, <1>4, <2>2, <3>1 DEF IInv, ReplyInv, Unresolved
    <3>2. CASE k = r.id
      <4>1. items'[k] # items[k]
        BY <2>2, <3>2 DEF IInv, ReplyInv, Unresolved
      <4>2. ~outbound
        BY <1>4, <2>2, <3>2, <4>1
      <4>3. QED BY <1>2, <1>3, <3>2, <4>2
    <3>3. QED BY <3>1, <3>2
  <2>3. \A k \in Ids : answers'[k] <= 1
    <3>1. \A k \in Ids : answers[k] <= 1
      BY DEF IInv, ReplyInv, AtMostOneReply
    <3>2. answers'[r.id] <= 1
      BY <1>0, <1>3
    <3>3. QED BY <1>3, <3>1, <3>2
  <2>4. QED BY <1>0, <2>1, <2>2, <2>3 DEF ReplyInv, AtMostOneReply, Unresolved
<1>10. LiveIsCurrent' /\ LiveInOpenTask'
  BY <1>0, <1>4 DEF IInv, LiveIsCurrent, LiveInOpenTask
<1>11. SurfaceInv'
  <2>1. ASSUME NEW k \in Ids, Mounted(k)', k \notin live PROVE k \in dirty'
    BY <1>5, <2>1 DEF IInv, SurfaceInv, Mounted
  <2>2. ASSUME NEW k \in live, surfaces'[k] = "responding"
        PROVE  [id |-> k, by |-> "user"] \in replyTasks'
    <3>1. CASE k # r.id
      <4>1. [id |-> k, by |-> "user"] \in replyTasks
        BY <1>0, <1>5, <2>2, <3>1 DEF IInv, SurfaceInv
      <4>2. [id |-> k, by |-> "user"] # r
        BY <3>1
      <4>3. QED BY <1>0, <4>1, <4>2
    <3>2. CASE k = r.id
      <4>1. items[k] # NoItem
        BY <2>2 DEF IInv, LiveIsCurrent, NoItem
      <4>2. r.by # "user" /\ surfaces[k] = "responding"
        BY <1>5, <2>2, <3>2, <4>1
      <4>3. [id |-> k, by |-> "user"] \in replyTasks
        BY <2>2, <4>2 DEF IInv, SurfaceInv
      <4>4. [id |-> k, by |-> "user"] = r
        BY <3>2, <4>3 DEF IInv, ReplyInv
      <4>5. QED BY <4>2, <4>4
    <3>3. QED BY <3>1, <3>2
  <2>3. ASSUME NEW k \in live, ~items'[k].resolved PROVE Mounted(k)' \/ k \in dirty'
    <3>1. CASE k # r.id
      BY <1>0, <1>4, <1>5, <2>3, <3>1 DEF IInv, SurfaceInv, LiveHasSurface, Unresolved, Mounted
    <3>2. CASE k = r.id
      <4>1. items'[k] # items[k]
        BY <2>3, <3>2 DEF IInv, ReplyInv, Unresolved
      <4>2. r.by = "user" /\ items[r.id] # NoItem
        BY <3>2, <4>1 DEF ReplyDone
      <4>3. QED BY <1>5, <3>2, <4>2
    <3>3. QED BY <3>1, <3>2
  <2>4. QED BY <1>0, <2>1, <2>2, <2>3 DEF SurfaceInv, LiveHasSurface, Unresolved
<1>12. QED BY <1>0, <1>7, <1>8, <1>9, <1>10, <1>11 DEF IInv

\* A batch takes requests out of the queue, and each of them goes one way.
LEMMA BatchRequests ==
  ASSUME TypeOK, IInv, NEW n \in 1..Len(queue), ApplyBatch(n)
  PROVE  /\ QueueInv'
         /\ \A id \in Arrived(n) \cup Refused(n) : Fresh(id) /\ id \in asked /\ ~Fresh(id)'
         /\ \A id \in Ids : Fresh(id)' => Fresh(id)
         /\ Arrived(n) \cap Refused(n) = {}
         /\ \A id \in Arrived(n) : origin[id] \in {NoThread, selected}
<1>0. /\ queue' = SubSeq(queue, n + 1, Len(queue)) /\ UNCHANGED <<asked, origin>>
      /\ ServerTypes
  BY DEF ApplyBatch, TypeOK
<1>1. /\ Len(queue) \in Nat /\ n \in Nat /\ Len(queue') = Len(queue) - n
      /\ \A i \in 1..Len(queue') : n + i \in 1..Len(queue) /\ queue'[i] = queue[n + i]
  BY <1>0, RestOfQueue
<1>2. QueueInv'
  <2>1. ASSUME NEW i \in 1..Len(queue'), queue'[i].kind = "request"
        PROVE  /\ queue'[i].id \in asked /\ queue'[i].thread = origin[queue'[i].id]
               /\ \A j \in 1..Len(queue') :
                    queue'[j].kind = "request" /\ queue'[j].id = queue'[i].id => j = i
    <3>1. n + i \in 1..Len(queue) /\ queue'[i] = queue[n + i]
      BY <1>1
    <3>2. /\ queue'[i].id \in asked /\ queue'[i].thread = origin[queue'[i].id]
          /\ \A j \in 1..Len(queue) :
               queue[j].kind = "request" /\ queue[j].id = queue'[i].id => j = n + i
      BY <2>1, <3>1 DEF IInv, QueueInv
    <3>3. ASSUME NEW j \in 1..Len(queue'), queue'[j].kind = "request", queue'[j].id = queue'[i].id
          PROVE  j = i
      <4>1. n + j \in 1..Len(queue) /\ queue'[j] = queue[n + j]
        BY <1>1
      <4>2. n + j = n + i
        BY <3>2, <3>3, <4>1
      <4>3. QED BY <1>1, <4>2
    <3>4. QED BY <3>2, <3>3
  <2>2. QED BY <1>0, <2>1 DEF QueueInv
<1>3. ASSUME NEW id, NEW e \in Batch(n), e.kind = "request", e.id = id
      PROVE  /\ Fresh(id) /\ id \in asked /\ ~Fresh(id)' /\ e.thread = origin[id]
             /\ \A f \in Batch(n) : f.kind = "request" /\ f.id = id => f = e
  <2>1. PICK i \in 1..n : e = queue[i]
    BY DEF Batch
  <2>2. i \in 1..Len(queue)
    BY <1>1
  <2>3. /\ id \in asked /\ e.thread = origin[id]
        /\ \A j \in 1..Len(queue) : queue[j].kind = "request" /\ queue[j].id = id => j = i
    BY <1>3, <2>1, <2>2 DEF IInv, QueueInv
  <2>4. Fresh(id)
    BY <1>3, <2>1, <2>2 DEF Fresh, Queued
  <2>5. ASSUME NEW j \in 1..Len(queue'), queue'[j].kind = "request", queue'[j].id = id
        PROVE  FALSE
    <3>1. n + j \in 1..Len(queue) /\ queue'[j] = queue[n + j]
      BY <1>1
    <3>2. n + j = i
      BY <2>3, <2>5, <3>1
    <3>3. QED BY <1>1, <3>2
  <2>6. ~Fresh(id)'
    BY <1>0, <2>3, <2>5 DEF Fresh, Queued
  <2>7. ASSUME NEW f \in Batch(n), f.kind = "request", f.id = id PROVE f = e
    <3>1. PICK j \in 1..n : f = queue[j]
      BY DEF Batch
    <3>2. j \in 1..Len(queue)
      BY <1>1
    <3>3. QED BY <2>1, <2>3, <2>7, <3>1, <3>2
  <2>8. QED BY <2>3, <2>4, <2>6, <2>7
<1>4. \A id \in Arrived(n) \cup Refused(n) : Fresh(id) /\ id \in asked /\ ~Fresh(id)'
  BY <1>3 DEF Arrived, Refused
<1>5. ASSUME NEW id \in Ids, Fresh(id)' PROVE Fresh(id)
  <2>1. CASE id \notin asked
    BY <2>1 DEF Fresh
  <2>2. CASE id \in asked
    <3>1. PICK i \in 1..Len(queue') : queue'[i].kind = "request" /\ queue'[i].id = id
      BY <1>0, <1>5, <2>2 DEF Fresh, Queued
    <3>2. QED BY <1>1, <3>1 DEF Fresh, Queued
  <2>3. QED BY <2>1, <2>2
<1>6. ASSUME NEW id \in Arrived(n), id \in Refused(n) PROVE FALSE
  <2>1. PICK e \in Batch(n) : e.kind = "request" /\ e.id = id /\ Interactive(e)
    BY DEF Arrived
  <2>2. PICK f \in Batch(n) : f.kind = "request" /\ f.id = id /\ ~Interactive(f)
    BY <1>6 DEF Refused
  <2>3. f = e
    BY <1>3, <2>1, <2>2
  <2>4. QED BY <2>1, <2>2, <2>3
<1>7. ASSUME NEW id \in Arrived(n) PROVE origin[id] \in {NoThread, selected}
  <2>1. PICK e \in Batch(n) : e.kind = "request" /\ e.id = id /\ Interactive(e)
    BY DEF Arrived
  <2>2. e.thread = origin[id]
    BY <1>3, <2>1
  <2>3. QED BY <2>1, <2>2 DEF Interactive
<1>8. QED BY <1>2, <1>4, <1>5, <1>6, <1>7

\* Applying a batch of events keeps the invariant.
LEMMA BatchIInv ==
  ASSUME TypeOK, IInv, NEW n \in 1..Len(queue), ApplyBatch(n) PROVE IInv'
<1>0. /\ live \subseteq Ids /\ items \in [Ids -> Item]
      /\ Arrived(n) \subseteq Ids /\ Refused(n) \subseteq Ids
      /\ UNCHANGED <<conn, client, selected, surfaces, answers, asked, origin>>
      /\ client
  BY DEF TypeOK, CardTypes, ApplyBatch, viewVars, Arrived, Refused
<1>1. /\ QueueInv'
      /\ \A id \in Arrived(n) \cup Refused(n) : Fresh(id) /\ id \in asked /\ ~Fresh(id)'
      /\ \A id \in Ids : Fresh(id)' => Fresh(id)
      /\ Arrived(n) \cap Refused(n) = {}
      /\ \A id \in Arrived(n) : origin[id] \in {NoThread, selected}
  BY BatchRequests
<1>2. \A id \in Ids : Fresh(id) =>
        answers[id] = 0 /\ id \notin live /\ ~Mounted(id) /\ \A r \in replyTasks : r.id # id
  BY DEF IInv, FreshInv
<1>3. /\ live' = live \cup (Arrived(n) \ Resolved(n))
      /\ live' \subseteq Ids
      /\ replyTasks' = replyTasks \cup {[id |-> id, by |-> "app"] : id \in Refused(n)}
  BY <1>0 DEF ApplyBatch
<1>4. ASSUME NEW id \in Ids
      PROVE  /\ items'[id].conn = IF id \in Arrived(n) THEN conn ELSE items[id].conn
             /\ id \in Resolved(n) => items'[id].resolved
             /\ id \notin Arrived(n) \cup Resolved(n) => items'[id] = items[id]
  BY DEF ApplyBatch
<1>5. \A r \in replyTasks' : r \in replyTasks \/ (r.id \in Refused(n) /\ r = [id |-> r.id, by |-> "app"])
  BY <1>3
<1>6. FreshInv'
  <2>1. ASSUME NEW id \in Ids, Fresh(id)'
        PROVE  answers[id] = 0 /\ id \notin live' /\ ~Mounted(id) /\ \A r \in replyTasks' : r.id # id
    <3>1. Fresh(id) /\ id \notin Arrived(n) /\ id \notin Refused(n)
      BY <1>1, <2>1
    <3>2. QED BY <1>2, <1>3, <1>5, <3>1
  <2>2. QED BY <1>0, <2>1 DEF FreshInv, Mounted
<1>7. ReplyInv'
  <2>1. ASSUME NEW r \in replyTasks', NEW q \in replyTasks', q.id = r.id
        PROVE  answers[r.id] = 0 /\ q = r
    <3>1. CASE r \in replyTasks /\ q \in replyTasks
      BY <2>1, <3>1 DEF IInv, ReplyInv
    <3>2. CASE r.id \in Refused(n)
      <4>1. r.id \in Ids /\ Fresh(r.id)
        BY <1>0, <1>1, <3>2
      <4>2. r \notin replyTasks /\ q \notin replyTasks /\ answers[r.id] = 0
        BY <1>2, <2>1, <4>1
      <4>3. QED BY <1>5, <2>1, <4>2
    <3>3. QED BY <1>5, <2>1, <3>1, <3>2
  <2>2. ASSUME NEW id \in live', ~items'[id].resolved
        PROVE  answers[id] = 0 /\ \A r \in replyTasks' : r.id # id
    <3>0. id \in Ids /\ id \notin Resolved(n)
      BY <1>3, <1>4, <2>2
    <3>1. CASE id \in Arrived(n)
      <4>1. id \notin Refused(n) /\ Fresh(id)
        BY <1>1, <3>1
      <4>2. QED BY <1>2, <1>5, <3>0, <4>1
    <3>2. CASE id \notin Arrived(n)
      <4>1. id \in live /\ items'[id] = items[id]
        BY <1>3, <1>4, <3>0, <3>2
      <4>2. answers[id] = 0 /\ \A r \in replyTasks : r.id # id
        BY <2>2, <4>1 DEF IInv, ReplyInv, Unresolved
      <4>3. id \notin Refused(n)
        BY <1>0, <1>1, <1>2, <4>1
      <4>4. QED BY <1>5, <4>2, <4>3
    <3>3. QED BY <3>1, <3>2
  <2>3. QED BY <1>0, <2>1, <2>2 DEF IInv, ReplyInv, AtMostOneReply, Unresolved
<1>8. LiveIsCurrent'
  <2>1. ASSUME NEW id \in live' PROVE id \in asked /\ items'[id].conn = conn
    <3>1. CASE id \in Arrived(n)
      BY <1>0, <1>1, <1>4, <3>1
    <3>2. CASE id \notin Arrived(n)
      BY <1>0, <1>3, <1>4, <3>2 DEF IInv, LiveIsCurrent
    <3>3. QED BY <3>1, <3>2
  <2>2. QED BY <1>0, <2>1 DEF LiveIsCurrent
<1>9. LiveInOpenTask'
  BY <1>0, <1>1, <1>3 DEF IInv, LiveInOpenTask
<1>10. SurfaceInv'
  <2>1. dirty \subseteq dirty' /\ \A id \in Arrived(n) \ Resolved(n) : id \in dirty'
    BY <1>3 DEF ApplyBatch, MarkTouched
  <2>2. ASSUME NEW id \in Ids, Mounted(id), id \notin live' PROVE id \in dirty'
    BY <1>3, <2>1, <2>2 DEF IInv, SurfaceInv
  <2>3. ASSUME NEW id \in live', surfaces[id] = "responding"
        PROVE  [id |-> id, by |-> "user"] \in replyTasks'
    <3>1. id \in live
      BY <1>0, <1>1, <1>2, <1>3, <2>3 DEF Mounted
    <3>2. QED BY <1>3, <2>3, <3>1 DEF IInv, SurfaceInv
  <2>4. ASSUME NEW id \in live', ~items'[id].resolved PROVE Mounted(id) \/ id \in dirty'
    <3>0. id \in Ids /\ id \notin Resolved(n)
      BY <1>3, <1>4, <2>4
    <3>1. CASE id \in Arrived(n)
      BY <2>1, <3>0, <3>1
    <3>2. CASE id \notin Arrived(n)
      BY <1>3, <1>4, <2>1, <2>4, <3>0, <3>2 DEF IInv, SurfaceInv, LiveHasSurface, Unresolved
    <3>3. QED BY <3>1, <3>2
  <2>5. QED BY <1>0, <2>2, <2>3, <2>4 DEF SurfaceInv, LiveHasSurface, Mounted, Unresolved
<1>11. QED BY <1>0, <1>1, <1>6, <1>7, <1>8, <1>9, <1>10 DEF IInv

\* The app-server's steps keep the invariant.
LEMMA ServerIInv == ASSUME TypeOK, IInv, Server PROVE IInv'
<1>a. UNCHANGED <<conn, client, selected, items, live, surfaces, dirty, replyTasks, answers>>
  <2>1. ASSUME NEW id \in Ids, NEW t \in Threads \cup {NoThread}, NEW valid \in BOOLEAN,
               ServerRequest(id, t, valid)
        PROVE  UNCHANGED <<conn, client, selected, items, live, surfaces, dirty, replyTasks,
                           answers>>
    BY <2>1 DEF ServerRequest, viewVars, cardVars, linkVars
  <2>2. ASSUME NEW id \in Ids, ServerSettles(id)
        PROVE  UNCHANGED <<conn, client, selected, items, live, surfaces, dirty, replyTasks,
                           answers>>
    BY <2>2 DEF ServerSettles, viewVars, cardVars, linkVars
  <2>3. CASE ServerDies
    BY <2>3 DEF ServerDies, viewVars, cardVars, linkVars
  <2>4. CASE OutboundCloses
    BY <2>4 DEF OutboundCloses, viewVars, cardVars
  <2>5. QED BY <2>1, <2>2, <2>3, <2>4, Zenon DEF Server
<1>b. queue \in Seq(Event)
  BY DEF TypeOK, ServerTypes
<1>0. /\ UNCHANGED <<conn, client, selected, items, live, surfaces, dirty, replyTasks, answers>>
      /\ queue \in Seq(Event) /\ Len(queue) \in Nat
  BY <1>a, <1>b
<1>1. CASE ServerDies \/ OutboundCloses
  BY <1>0, <1>1, FrameIInv DEF ServerDies, OutboundCloses, serverVars
<1>2. ReplyInv'
  BY <1>0 DEF IInv, ReplyInv, AtMostOneReply, Unresolved
<1>3. SurfaceInv'
  BY <1>0 DEF IInv, SurfaceInv, LiveHasSurface, Mounted, Unresolved
<1>4. ASSUME NEW id \in Ids, NEW t \in Threads \cup {NoThread}, NEW valid \in BOOLEAN,
             ServerRequest(id, t, valid)
      PROVE  IInv'
  <2> DEFINE e == [kind |-> "request", id |-> id, thread |-> t, valid |-> valid]
  <2>1. /\ id \notin asked /\ asked' = asked \cup {id}
        /\ queue' = Append(queue, e) /\ e \in Event
        /\ origin' = [origin EXCEPT ![id] = t] /\ origin \in [Ids -> Threads \cup {NoThread}]
    BY <1>4 DEF ServerRequest, Event, TypeOK, ServerTypes
  <2>2. e.kind = "request" /\ e.id = id /\ e.thread = t
    OBVIOUS
  <2> HIDE DEF e
  <2>3. /\ Len(queue') = Len(queue) + 1 /\ queue'[Len(queue) + 1] = e
        /\ \A i \in 1..Len(queue) : queue'[i] = queue[i]
        /\ \A i \in 1..Len(queue') : i \in 1..Len(queue) \/ i = Len(queue) + 1
    BY <1>0, <2>1
  <2>4. origin'[id] = t /\ \A k \in Ids : k # id => origin'[k] = origin[k]
    BY <2>1
  <2>5. asked \subseteq Ids
    BY DEF TypeOK, ServerTypes
  <2>6. \A i \in 1..Len(queue) : queue[i].kind = "request" => queue[i].id \in asked
    BY DEF IInv, QueueInv
  <2>7. QueueInv'
    <3>1. ASSUME NEW i \in 1..Len(queue'), queue'[i].kind = "request"
          PROVE  /\ queue'[i].id \in asked' /\ queue'[i].thread = origin'[queue'[i].id]
                 /\ \A j \in 1..Len(queue') :
                      queue'[j].kind = "request" /\ queue'[j].id = queue'[i].id => j = i
      <4>1. CASE i = Len(queue) + 1
        <5>1. queue'[i] = e
          BY <2>3, <4>1
        <5>2. \A j \in 1..Len(queue) : queue'[j].kind = "request" => queue'[j].id # id
          BY <2>1, <2>3, <2>6
        <5>3. QED BY <2>1, <2>2, <2>3, <2>4, <4>1, <5>1, <5>2
      <4>2. CASE i \in 1..Len(queue)
        <5>1. queue'[i] = queue[i] /\ queue[i].id \in asked /\ queue[i].id # id
          BY <2>1, <2>3, <2>6, <3>1, <4>2
        <5>2. queue[i].thread = origin[queue[i].id]
              /\ \A j \in 1..Len(queue) :
                   queue[j].kind = "request" /\ queue[j].id = queue[i].id => j = i
          BY <3>1, <4>2, <5>1 DEF IInv, QueueInv
        <5>3. QED BY <2>1, <2>2, <2>3, <2>4, <2>5, <5>1, <5>2
      <4>3. QED BY <2>3, <4>1, <4>2
    <3>2. QED BY <3>1 DEF QueueInv
  <2>8. ASSUME NEW k \in Ids, Fresh(k)' PROVE Fresh(k)
    <3>1. CASE k \notin asked
      BY <3>1 DEF Fresh
    <3>2. CASE k \in asked
      <4>1. PICK i \in 1..Len(queue') : queue'[i].kind = "request" /\ queue'[i].id = k
        BY <2>1, <2>8, <3>2 DEF Fresh, Queued
      <4>2. k # id
        BY <2>1, <3>2
      <4>3. i \in 1..Len(queue) /\ queue[i] = queue'[i]
        BY <2>2, <2>3, <4>1, <4>2
      <4>4. QED BY <4>1, <4>3 DEF Fresh, Queued
    <3>3. QED BY <3>1, <3>2
  <2>9. FreshInv'
    BY <1>0, <2>8 DEF IInv, FreshInv, Mounted
  <2>10. LiveIsCurrent' /\ LiveInOpenTask'
    <3>1. \A k \in live : k \in asked /\ k \in Ids /\ k # id
      BY <2>1, <2>5 DEF IInv, LiveIsCurrent
    <3>2. QED BY <1>0, <2>1, <2>4, <3>1 DEF IInv, LiveIsCurrent, LiveInOpenTask
  <2>11. QED BY <1>0, <1>2, <1>3, <2>7, <2>9, <2>10 DEF IInv
<1>5. ASSUME NEW id \in Ids, ServerSettles(id) PROVE IInv'
  <2> DEFINE e == [kind |-> "resolved", id |-> id, thread |-> origin[id], valid |-> TRUE]
  <2>1. queue' = Append(queue, e) /\ e \in Event /\ UNCHANGED <<asked, origin>>
    BY <1>5 DEF ServerSettles, Event, TypeOK, ServerTypes
  <2>2. e.kind # "request"
    OBVIOUS
  <2> HIDE DEF e
  <2>3. /\ Len(queue') = Len(queue) + 1 /\ queue'[Len(queue) + 1] = e
        /\ \A i \in 1..Len(queue) : queue'[i] = queue[i] /\ i \in 1..Len(queue')
        /\ \A i \in 1..Len(queue') : i \in 1..Len(queue) \/ i = Len(queue) + 1
    BY <1>0, <2>1
  <2>4. \A i \in 1..Len(queue') : queue'[i].kind = "request" =>
          i \in 1..Len(queue) /\ queue'[i] = queue[i]
    BY <2>2, <2>3
  <2>5. QueueInv'
    BY <2>1, <2>4 DEF IInv, QueueInv
  <2>6. ASSUME NEW k \in Ids, Fresh(k)' PROVE Fresh(k)
    BY <2>1, <2>4, <2>6 DEF Fresh, Queued
  <2>7. FreshInv'
    BY <1>0, <2>6 DEF IInv, FreshInv, Mounted
  <2>8. LiveIsCurrent' /\ LiveInOpenTask'
    BY <1>0, <2>1 DEF IInv, LiveIsCurrent, LiveInOpenTask
  <2>9. QED BY <1>0, <1>2, <1>3, <2>5, <2>7, <2>8 DEF IInv
<1>6. QED BY <1>1, <1>4, <1>5 DEF Server

\* Every step keeps the invariant.
LEMMA StepIInv == ASSUME TypeOK, TypeOK', IInv, [Next]_vars PROVE IInv'
<1>1. CASE UNCHANGED vars
  BY <1>1, FrameIInv DEF vars, viewVars, cardVars, serverVars, linkVars
<1>2. CASE Apply
  BY <1>2, BatchIInv DEF Apply
<1>3. CASE Reply
  BY <1>3, ReplyIInv DEF Reply
<1>4. CASE User
  BY <1>4, RespondIInv, TaskIInv DEF User
<1>5. CASE Load \/ TurnCompleted \/ HandleServerDisconnect \/ \E t \in Threads : SendDone(t)
  BY <1>5, TaskIInv
<1>6. CASE \E t \in Threads \cup {NoThread} : Connect(t)
  BY <1>6, ConnectIInv
<1>7. QED
  BY <1>1, <1>2, <1>3, <1>4, <1>5, <1>6, SyncIInv, ServerIInv DEF Next

\* The invariant holds in every reachable state.
LEMMA InvariantIInv == Spec => []IInv
<1>1. TypeOK /\ IInv /\ [Next]_vars => (TypeOK /\ IInv)'
  BY StepTypeOK, StepIInv
<1>2. QED BY InitTypeOK, InitIInv, <1>1, PTL DEF Spec

\* A server request gets at most one reply from the harness, whichever of the user,
\* the router and a closing task answers it.
THEOREM OneReply == Spec => []AtMostOneReply
<1>1. IInv => AtMostOneReply
  BY DEF IInv, ReplyInv
<1>2. QED BY <1>1, InvariantIInv, PTL

\* No card of an earlier connection, restored from disk or left on the screen, is ever
\* presented as a live control.
THEOREM NoRevival == Spec => []LiveIsCurrent
<1>1. IInv => LiveIsCurrent
  BY DEF IInv
<1>2. QED BY <1>1, InvariantIInv, PTL

\* No request of another task is presented in the open one.
THEOREM NoCrossTaskRequest == Spec => []LiveInOpenTask
<1>1. IInv => LiveInOpenTask
  BY DEF IInv
<1>2. QED BY <1>1, InvariantIInv, PTL

\* A request that waits for the user has a surface, or is marked to get one.
THEOREM LiveIsActionable == Spec => []LiveHasSurface
<1>1. IInv => LiveHasSurface
  BY DEF IInv, SurfaceInv
<1>2. QED BY <1>1, InvariantIInv, PTL

\* No surface stays latched without a reply under way.
THEOREM LatchIsReleased == Spec => []LatchReleased
<1>1. IInv => LatchReleased
  BY DEF IInv, SurfaceInv, LatchReleased, Mounted
<1>2. QED BY <1>1, InvariantIInv, PTL
----------------------------------------------------------------------------
(* A request is left without an answer by nothing but the end of a load.   *)

\* It holds initially.
LEMMA InitLossInv == Init => LossInv
  BY DEF Init, LossInv

\* Steps that leave the link and the queue alone.
LEMMA LossFrame ==
  ASSUME LossInv, up' = up, UNCHANGED <<outbound, queue, settled>>
  PROVE  LossInv'
  BY DEF LossInv

\* An event appended by the app-server.
LEMMA LossAppend ==
  ASSUME TypeOK, LossInv, UNCHANGED <<up, outbound>>, settled \subseteq settled', NEW e,
         queue' = Append(queue, e), e.kind = "resolved" => e.id \in settled'
  PROVE  LossInv'
<1>1. queue \in Seq(Event)
  BY DEF TypeOK, ServerTypes
<1>2. \A i \in 1..Len(queue') :
        \/ i \in 1..Len(queue) /\ queue'[i] = queue[i]
        \/ queue'[i] = e
  BY <1>1
<1>3. QED BY <1>2 DEF LossInv

\* Every step keeps it.
LEMMA StepLossInv == ASSUME TypeOK, LossInv, [Next]_vars PROVE LossInv'
<1> USE DEF viewVars, cardVars, serverVars, linkVars
<1>1. ASSUME NEW n \in 1..Len(queue), ApplyBatch(n) PROVE LossInv'
  <2>1. queue' = SubSeq(queue, n + 1, Len(queue)) /\ UNCHANGED <<up, outbound, settled>>
    BY <1>1 DEF ApplyBatch
  <2>2. \A i \in 1..Len(queue') : n + i \in 1..Len(queue) /\ queue'[i] = queue[n + i]
    BY <2>1, RestOfQueue DEF TypeOK
  <2>3. QED BY <2>1, <2>2 DEF LossInv
<1>2. CASE TurnCompleted \/ SyncRequestSurfaces \/ Reply \/ User \/ Load
  <2>1. UNCHANGED <<up, outbound, queue, settled>>
    BY <1>2 DEF TurnCompleted, SyncRequestSurfaces, Reply, ReplyDone, User, SurfaceRespond,
       CardRespond, OpenThread, NewTask, RefreshThreads, MayResume, Load, LoadFailed, LoadThread
  <2>2. QED BY <2>1, LossFrame
<1>3. CASE HandleServerDisconnect \/ \E t \in Threads : SendDone(t)
  BY <1>3, LossFrame DEF HandleServerDisconnect, SendDone
<1>4. CASE \E t \in Threads \cup {NoThread} : Connect(t)
  BY <1>4 DEF Connect, LossInv
<1>5. ASSUME NEW id \in Ids, NEW t \in Threads \cup {NoThread}, NEW valid \in BOOLEAN,
             ServerRequest(id, t, valid)
      PROVE  LossInv'
  BY <1>5, LossAppend DEF ServerRequest
<1>6. ASSUME NEW id \in Ids, ServerSettles(id) PROVE LossInv'
  BY <1>6, LossAppend DEF ServerSettles
<1>7. CASE ServerDies \/ OutboundCloses
  BY <1>7 DEF ServerDies, OutboundCloses, LossInv
<1>8. CASE UNCHANGED vars
  BY <1>8, LossFrame DEF vars
<1>9. QED BY <1>1, <1>2, <1>3, <1>4, <1>5, <1>6, <1>7, <1>8 DEF Next, Apply, Server

----------------------------------------------------------------------------
(* No step but the end of a load loses a request.                          *)

\* A step that leaves the app-server alone, takes no reply back, and keeps a request that
\* waits for the user or replies to it.
LEMMA KeptOrAnswered ==
  ASSUME NEW id \in Ids, Inert(id)',
         up' = up, client' = client, UNCHANGED <<asked, settled, queue, answers>>,
         replyTasks \subseteq replyTasks',
         id \in live /\ Unresolved(id) =>
            (id \in live' /\ Unresolved(id)') \/ \E r \in replyTasks' : r.id = id
  PROVE  Inert(id)
<1>1. ~Queued(id)
  BY DEF Inert, Queued
<1>2. QED BY <1>1 DEF Inert

\* Closing a task replies to whatever waits for the user.
LEMMA CloseAnswers ==
  ASSUME NEW id \in Ids, CloseTask, id \in live, Unresolved(id)
  PROVE  replyTasks \subseteq replyTasks' /\ \E r \in replyTasks' : r.id = id
<1>1. [id |-> id, by |-> "app"] \in replyTasks'
  BY DEF CloseTask, RejectPendingRequests
<1>2. QED BY <1>1 DEF CloseTask, RejectPendingRequests

\* The steps of the user.
LEMMA UserKeeps == ASSUME TypeOK, User, NEW id \in Ids, Inert(id)' PROVE Inert(id)
<1> USE DEF viewVars, serverVars, linkVars
<1>1. CASE \E k \in Ids : SurfaceRespond(k) \/ CardRespond(k)
  <2>1. PICK k \in Ids : SurfaceRespond(k) \/ CardRespond(k)
    BY <1>1
  <2>2. /\ up' = up /\ client' = client /\ UNCHANGED <<asked, settled, queue, answers>>
        /\ live' = live
    BY <2>1 DEF SurfaceRespond, CardRespond
  <2>3. \/ UNCHANGED <<items, replyTasks>>
        \/ RespondWithValue(k)
    BY <2>1 DEF SurfaceRespond, CardRespond
  <2>4. CASE UNCHANGED <<items, replyTasks>>
    BY <2>2, <2>4, KeptOrAnswered DEF Unresolved
  <2>5. CASE RespondWithValue(k)
    <3>1. /\ replyTasks' = replyTasks \cup {[id |-> k, by |-> "user"]}
          /\ id # k => items'[id] = items[id]
      BY <2>5 DEF RespondWithValue, TypeOK, CardTypes
    <3>2. id = k => \E r \in replyTasks' : r.id = id
      <4>1. [id |-> k, by |-> "user"] \in replyTasks'
        BY <3>1
      <4>2. QED BY <4>1
    <3>3. QED BY <2>2, <3>1, <3>2, KeptOrAnswered DEF Unresolved
  <2>6. QED BY <2>3, <2>4, <2>5
<1>2. CASE (\E t \in Threads : OpenThread(t)) \/ NewTask
  <2>1. /\ up' = up /\ client' = client /\ UNCHANGED <<asked, settled, queue, answers>>
        /\ CloseTask
    BY <1>2 DEF OpenThread, NewTask, MayResume
  <2>2. replyTasks \subseteq replyTasks'
    BY <2>1 DEF CloseTask, RejectPendingRequests
  <2>3. QED BY <2>1, <2>2, CloseAnswers, KeptOrAnswered
<1>3. CASE RefreshThreads
  <2>1. /\ up' = up /\ client' = client /\ UNCHANGED <<asked, settled, queue, answers>>
        /\ UNCHANGED <<items, live, replyTasks>>
    BY <1>3 DEF RefreshThreads, MayResume, cardVars
  <2>2. QED BY <2>1, KeptOrAnswered DEF Unresolved
<1>4. QED BY <1>1, <1>2, <1>3 DEF User

\* Turns end, sends select their thread, loads fail, frames are drawn.
LEMMA ViewKeeps ==
  ASSUME TypeOK,
         TurnCompleted \/ LoadFailed \/ SyncRequestSurfaces \/ \E t \in Threads : SendDone(t),
         NEW id \in Ids, Inert(id)'
  PROVE  Inert(id)
<1> USE DEF viewVars, serverVars, linkVars, cardVars
<1>1. CASE TurnCompleted \/ LoadFailed \/ \E t \in Threads : SendDone(t)
  <2>1. /\ up' = up /\ client' = client /\ UNCHANGED <<asked, settled, queue, answers>>
        /\ UNCHANGED <<items, live, replyTasks>>
    BY <1>1 DEF TurnCompleted, LoadFailed, SendDone, MayResume
  <2>2. QED BY <2>1, KeptOrAnswered DEF Unresolved
<1>2. CASE SyncRequestSurfaces
  <2>1. /\ up' = up /\ client' = client /\ UNCHANGED <<asked, settled, queue, answers>>
        /\ UNCHANGED <<items, replyTasks>> /\ live' = live \ Removed
    BY <1>2 DEF SyncRequestSurfaces
  <2>2. id \in live /\ Unresolved(id) => id \notin Removed
    BY DEF Removed
  <2>3. QED BY <2>1, <2>2, KeptOrAnswered DEF Unresolved
<1>3. QED BY <1>1, <1>2

\* A reply that is polled reaches a running app-server.
LEMMA ReplyKeeps ==
  ASSUME TypeOK, LossInv, NEW q \in replyTasks, ReplyDone(q), NEW id \in Ids, Inert(id)'
  PROVE  Inert(id)
<1> USE DEF viewVars, serverVars
<1>1. /\ up' = up /\ client' = client /\ UNCHANGED <<asked, settled, queue, live>>
      /\ replyTasks' = replyTasks \ {q}
      /\ answers' = IF outbound THEN [answers EXCEPT ![q.id] = @ + 1] ELSE answers
  BY DEF ReplyDone
<1>2. q.id \in Ids /\ answers \in [Ids -> Nat] /\ items \in [Ids -> Item]
  BY DEF TypeOK, LinkTypes, CardTypes, ReplyTask
<1>3. outbound
  BY <1>1 DEF Inert, LossInv
<1>4. id # q.id
  BY <1>1, <1>2, <1>3 DEF Inert
<1>5. answers'[id] = answers[id] /\ items'[id] = items[id]
  BY <1>1, <1>2, <1>4 DEF ReplyDone
<1>6. ~Queued(id)
  BY <1>1 DEF Inert, Queued
<1>7. QED BY <1>1, <1>4, <1>5, <1>6 DEF Inert, Unresolved

\* A batch puts each of its requests before the user or replies to it, and what it resolves
\* the app-server no longer waits for.
LEMMA BatchKeeps ==
  ASSUME TypeOK, IInv, LossInv, NEW n \in 1..Len(queue), ApplyBatch(n), NEW id \in Ids, Inert(id)'
  PROVE  Inert(id)
<1> USE DEF viewVars
<1>1. /\ up' = up /\ client' = client /\ UNCHANGED <<asked, settled, answers>>
      /\ queue' = SubSeq(queue, n + 1, Len(queue))
      /\ live' = live \cup (Arrived(n) \ Resolved(n))
      /\ replyTasks' = replyTasks \cup {[id |-> k, by |-> "app"] : k \in Refused(n)}
  BY DEF ApplyBatch
<1>2. id \notin Resolved(n)
  <2>1. ASSUME id \in Resolved(n) PROVE FALSE
    <3>1. PICK i \in 1..n : queue[i].kind = "resolved" /\ queue[i].id = id
      BY <2>1 DEF Resolved, Batch
    <3>2. i \in 1..Len(queue)
      BY RestOfQueue, <1>1 DEF TypeOK
    <3>3. id \in settled
      BY <3>1, <3>2 DEF LossInv
    <3>4. QED BY <1>1, <3>3 DEF Inert
  <2>2. QED BY <2>1
<1>3. id \notin Refused(n)
  <2>1. id \in Refused(n) => [id |-> id, by |-> "app"] \in replyTasks'
    BY <1>1
  <2>2. QED BY <2>1 DEF Inert
<1>4. id \notin Arrived(n)
  <2>1. ASSUME id \in Arrived(n) PROVE FALSE
    <3>1. id \in live' /\ ~items'[id].resolved
      BY <1>1, <1>2, <2>1 DEF ApplyBatch
    <3>2. QED BY <3>1 DEF Inert, Unresolved
  <2>2. QED BY <2>1
<1>5. items'[id] = items[id]
  BY <1>2, <1>4 DEF ApplyBatch
<1>6. ~Queued(id)
  <2>1. ASSUME NEW i \in 1..Len(queue), queue[i].kind = "request", queue[i].id = id PROVE FALSE
    <3>1. CASE i \in 1..n
      <4>1. queue[i] \in Batch(n)
        BY <3>1 DEF Batch
      <4>2. QED BY <1>3, <1>4, <2>1, <4>1 DEF Arrived, Refused
    <3>2. CASE i \notin 1..n
      <4>1. queue \in Seq(Event) /\ n \in 1..Len(queue) /\ Len(queue) \in Nat
        BY DEF TypeOK, ServerTypes
      <4>2. /\ Len(queue') = Len(queue) - n
            /\ \A j \in 1..Len(queue') : queue'[j] = queue[n + j]
        BY <1>1, RestOfQueue DEF TypeOK
      <4>3. i - n \in 1..Len(queue') /\ n + (i - n) = i
        BY <3>2, <4>1, <4>2
      <4>4. queue'[i - n] = queue[i]
        BY <4>2, <4>3
      <4>5. QED BY <2>1, <4>3, <4>4 DEF Inert, Queued
    <3>3. QED BY <3>1, <3>2
  <2>2. QED BY <2>1 DEF Queued
<1>7. QED BY <1>1, <1>5, <1>6 DEF Inert, Unresolved

\* The steps of the app-server.
LEMMA ServerKeeps == ASSUME TypeOK, Server, NEW id \in Ids, Inert(id)' PROVE Inert(id)
<1> USE DEF viewVars, cardVars, linkVars, serverVars
<1>0. queue \in Seq(Event) /\ Len(queue) \in Nat
  BY DEF TypeOK, ServerTypes
<1>1. ASSUME NEW e, queue' = Append(queue, e)
      PROVE  /\ \A i \in 1..Len(queue) : i \in 1..Len(queue') /\ queue'[i] = queue[i]
             /\ Len(queue') \in 1..Len(queue') /\ queue'[Len(queue')] = e
  BY <1>0, <1>1
<1>2. ASSUME NEW k \in Ids, NEW t \in Threads \cup {NoThread}, NEW valid \in BOOLEAN,
             ServerRequest(k, t, valid)
      PROVE  Inert(id)
  <2> DEFINE e == [kind |-> "request", id |-> k, thread |-> t, valid |-> valid]
  <2>1. /\ up' = up /\ client' = client /\ UNCHANGED <<settled, answers, replyTasks, live, items>>
        /\ asked' = asked \cup {k} /\ queue' = Append(queue, e)
    BY <1>2 DEF ServerRequest
  <2>2. k # id
    <3>1. Len(queue') \in 1..Len(queue') /\ queue'[Len(queue')] = e
      BY <1>1, <2>1
    <3>2. e.kind = "request" /\ e.id = k
      OBVIOUS
    <3>3. QED BY <3>1, <3>2 DEF Inert, Queued
  <2>3. ~Queued(id)
    BY <1>1, <2>1 DEF Inert, Queued
  <2>4. QED BY <2>1, <2>2, <2>3 DEF Inert, Unresolved
<1>3. ASSUME NEW k \in Ids, ServerSettles(k) PROVE Inert(id)
  <2>1. /\ up' = up /\ client' = client
        /\ UNCHANGED <<asked, answers, replyTasks, live, items>> /\ settled' = settled \cup {k}
        /\ \E e : queue' = Append(queue, e)
    BY <1>3 DEF ServerSettles
  <2>2. ~Queued(id)
    BY <1>1, <2>1 DEF Inert, Queued
  <2>3. QED BY <2>1, <2>2 DEF Inert, Unresolved
<1>4. CASE ServerDies \/ OutboundCloses
  BY <1>4 DEF ServerDies, OutboundCloses, Inert
<1>5. QED BY <1>2, <1>3, <1>4 DEF Server

\* A request the app-server waits for is left without an answer by nothing but the end of
\* a load: switching, closing, answering, drawing, failing and reconnecting never do it.
THEOREM LossOnlyAtLoad == Spec => LostOnlyByLoad
<1> DEFINE Kept == (\A restored \in SUBSET Ids : ~LoadThread(restored)) =>
                      \A id \in Ids : Inert(id)' => Inert(id)
<1>1. ASSUME TypeOK, IInv, LossInv, [Next]_vars PROVE Kept
  <2> SUFFICES ASSUME \A restored \in SUBSET Ids : ~LoadThread(restored),
                      NEW id \in Ids, Inert(id)'
               PROVE  Inert(id)
    OBVIOUS
  <2>1. CASE Apply
    BY <1>1, <2>1, BatchKeeps DEF Apply
  <2>2. CASE Reply
    BY <1>1, <2>2, ReplyKeeps DEF Reply
  <2>3. CASE User
    BY <1>1, <2>3, UserKeeps
  <2>4. CASE TurnCompleted \/ Load \/ SyncRequestSurfaces \/ \E t \in Threads : SendDone(t)
    BY <1>1, <2>4, ViewKeeps DEF Load
  <2>5. CASE HandleServerDisconnect
    BY <2>5 DEF HandleServerDisconnect, Inert
  <2>6. CASE \E t \in Threads \cup {NoThread} : Connect(t)
    BY <2>6 DEF Connect, Inert
  <2>7. CASE Server
    BY <1>1, <2>7, ServerKeeps
  <2>8. CASE UNCHANGED vars
    BY <2>8, KeptOrAnswered DEF vars, viewVars, cardVars, serverVars, linkVars, Unresolved
  <2>9. QED
    BY <1>1, <2>1, <2>2, <2>3, <2>4, <2>5, <2>6, <2>7, <2>8 DEF Next
<1>2. TypeOK /\ IInv /\ LossInv /\ [Next]_vars => (TypeOK /\ IInv /\ LossInv)'
  BY StepTypeOK, StepIInv, StepLossInv
<1>3. QED
  BY InitTypeOK, InitIInv, InitLossInv, <1>1, <1>2, PTL DEF Spec, LostOnlyByLoad
============================================================================
