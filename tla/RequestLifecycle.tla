-------------------------- MODULE RequestLifecycle -------------------------
(***************************************************************************)
(* Server requests (approvals, questions, forms) in HarnessApp             *)
(* (crates/harness_app/src/main.rs, request_surface.rs): how a request is  *)
(* routed, becomes a transcript card with a live key and a surface, and is *)
(* answered by the user, declined when its task closes, resolved by the    *)
(* app-server or lost with the connection.                                 *)
(*                                                                         *)
(* Request ids count from the start on every connection, so the key        *)
(* "request:<id>" of a card restored from disk may be that of a new        *)
(* request.  An action is one handler or one poll of a task on the UI      *)
(* thread; surfaces are only brought up to date when a frame is drawn.     *)
(***************************************************************************)
EXTENDS Naturals, Sequences, FiniteSets

CONSTANTS
  Ids,          \* request ids of a connection
  Threads,
  NoThread,
  MaxConns,     \* bound: connections
  MaxInputs     \* bound: opens, new tasks and refreshes

ASSUME RequestAssumption ==
  NoThread \notin Threads /\ MaxConns \in Nat \ {0} /\ MaxInputs \in Nat

VARIABLES
  client,       \* HarnessApp.client is Some
  conn,         \* number of the connection
  selected,     \* selected_thread_id
  loadTask,     \* the thread that request_task is loading
  loadLost,     \* the connection it is loading it on has ended
  items,        \* the request cards in the transcript model
  live,         \* live_request_keys
  surfaces,     \* request_surfaces, with the response latch of each
  dirty,        \* dirty_request_surfaces
  replyTasks,   \* spawned replies that were not polled yet
  snapshot,     \* request cards in the transcript on disk, per thread
  inputs,       \* user inputs so far
  up,           \* the app-server process runs
  outbound,     \* the client's outbound channel is open
  subscribed,   \* threads this connection started or resumed
  asked,        \* requests the app-server made on this connection
  origin,       \* the thread each of them belongs to
  settled,      \* those it no longer waits for
  answers,      \* replies handed to the transport, per request
  queue         \* events emitted and not yet applied

viewVars   == <<selected, loadTask, loadLost, inputs, snapshot>>
cardVars   == <<items, live, surfaces, dirty>>
serverVars == <<up, subscribed, asked, origin, settled, queue>>
linkVars   == <<client, conn, outbound, answers, replyTasks>>
vars       == <<viewVars, cardVars, serverVars, linkVars>>

Item      == [conn : Nat, resolved : BOOLEAN,
              status : {"absent", "waiting", "responding", "completed", "response failed",
                        "resolved", "inactive"}]
NoItem    == [conn |-> 0, resolved |-> TRUE, status |-> "absent"]
Surface   == {"none", "ready", "responding"}
ReplyTask == [id : Ids, by : {"user", "app"}]
Event     == [kind : {"request", "resolved"}, id : Ids, thread : Threads \cup {NoThread},
              valid : BOOLEAN]

Unresolved(id) == ~items[id].resolved
Mounted(id)    == surfaces[id] # "none"

Init ==
  /\ client = TRUE /\ conn = 1 /\ outbound = TRUE
  /\ answers = [id \in Ids |-> 0] /\ replyTasks = {}
  /\ selected = NoThread /\ loadTask = NoThread /\ loadLost = FALSE /\ inputs = 0
  /\ snapshot = [t \in Threads |-> [id \in Ids |-> NoItem]]
  /\ items = [id \in Ids |-> NoItem] /\ live = {} /\ dirty = {}
  /\ surfaces = [id \in Ids |-> "none"]
  /\ up = TRUE /\ asked = {} /\ settled = {} /\ queue = <<>>
  /\ origin = [id \in Ids |-> NoThread] /\ subscribed = {}

----------------------------------------------------------------------------
(* Events.                                                                 *)

\* Mutant: a request of a task that is not open is shown in the open one.
RouteAnywhere(e) == e.valid

\* route_server_request: a card if the request belongs to the selected task, or to
\* none, and can be answered; otherwise a reply at once.
Interactive(e) == e.valid /\ (e.thread = NoThread \/ e.thread = selected)

\* event_matches_thread.
Matches(e) == selected = NoThread \/ e.thread = NoThread \/ e.thread = selected

\* Mutant: only cards that already have a surface are looked at again.
MarkMounted(touched) == dirty \cup {id \in touched : Mounted(id)}

\* track_live_request_updates, its second half.
MarkTouched(touched) == dirty \cup {id \in touched : id \in live' \/ Mounted(id)}

\* dispatch_server_requests: the requests of a batch that become cards, those that
\* are answered at once, and the cards that the batch resolves.
Batch(n)    == {queue[i] : i \in 1..n}
Arrived(n)  == {id \in Ids : \E e \in Batch(n) : e.kind = "request" /\ e.id = id /\ Interactive(e)}
Refused(n)  == {id \in Ids : \E e \in Batch(n) : e.kind = "request" /\ e.id = id /\ ~Interactive(e)}
Resolved(n) == {id \in Ids : /\ \E e \in Batch(n) : e.kind = "resolved" /\ e.id = id /\ Matches(e)
                             /\ id \in Arrived(n) \/ items[id] # NoItem}

\* apply_event_batch on the events that arrived during one STREAM_FRAME.
ApplyBatch(n) ==
  /\ client
  /\ queue' = SubSeq(queue, n + 1, Len(queue))
  /\ items' = [id \in Ids |->
       IF id \in Arrived(n) \cup Resolved(n)
       THEN [conn     |-> IF id \in Arrived(n) THEN conn ELSE items[id].conn,
             resolved |-> id \in Resolved(n),
             status   |-> IF id \in Resolved(n) THEN "resolved" ELSE "waiting"]
       ELSE items[id]]
  /\ live' = live \cup (Arrived(n) \ Resolved(n))
  /\ dirty' = MarkTouched(Arrived(n) \cup Resolved(n))
  /\ replyTasks' = replyTasks \cup {[id |-> id, by |-> "app"] : id \in Refused(n)}
  /\ UNCHANGED <<viewVars, surfaces, up, subscribed, asked, origin, settled, client, conn,
                 outbound, answers>>

\* The app-server carries out the thread/resume of a load, or never got it.
Resumable == IF loadLost THEN {} ELSE {loadTask} \ {NoThread}
MayResume ==
  /\ loadLost' = FALSE
  /\ subscribed' \in {subscribed, subscribed \cup Resumable}
  /\ UNCHANGED <<up, asked, origin, settled, queue>>

\* turn/completed of the open task: the transcript is saved, if the disk allows,
\* and refresh_threads takes over request_task.
TurnCompleted ==
  /\ client
  /\ loadTask' = NoThread /\ MayResume
  /\ \/ UNCHANGED snapshot
     \/ selected # NoThread /\ snapshot' = [snapshot EXCEPT ![selected] = items]
  /\ UNCHANGED <<selected, inputs, cardVars, linkVars>>

----------------------------------------------------------------------------
(* Drawing a frame.                                                        *)

\* Mutant: a surface is refreshed but never created.
SyncExisting ==
  /\ dirty # {}
  /\ dirty' = {}
  /\ surfaces' = [id \in Ids |-> IF id \in dirty \ live THEN "none" ELSE surfaces[id]]
  /\ UNCHANGED <<items, live, viewVars, serverVars, linkVars>>

\* surface_sync_decision: which surfaces go, and which requests must have one.
Removed  == {id \in dirty : id \notin live \/ (~Unresolved(id) /\ surfaces[id] = "ready")}
Upserted == {id \in dirty \cap live : Unresolved(id)}

\* sync_request_surfaces.
SyncRequestSurfaces ==
  /\ dirty # {}
  /\ dirty' = {}
  /\ surfaces' = [id \in Ids |->
       IF id \in Removed THEN "none"
       ELSE IF id \in Upserted /\ ~Mounted(id) THEN "ready" ELSE surfaces[id]]
  /\ live' = live \ Removed
  /\ UNCHANGED <<items, viewVars, serverVars, linkVars>>

----------------------------------------------------------------------------
(* Answers.                                                                *)

Marked(item, resolved, status) == [item EXCEPT !.resolved = resolved, !.status = status]
ReplyStatus == IF outbound THEN "completed" ELSE "response failed"

\* respond_with_value, past its guards, and the latch of the surface.
RespondWithValue(id) ==
  /\ items' = [items EXCEPT ![id] = Marked(@, TRUE, "responding")]
  /\ replyTasks' = replyTasks \cup {[id |-> id, by |-> "user"]}

\* The shared surface emits Respond: handle_request_surface_response.
SurfaceRespond(id) ==
  /\ surfaces[id] = "ready" /\ Unresolved(id) /\ client
  /\ surfaces' = [surfaces EXCEPT ![id] = "responding"]
  /\ IF id \in live THEN RespondWithValue(id) ELSE UNCHANGED <<items, replyTasks>>
  /\ UNCHANGED <<live, dirty, viewVars, serverVars, client, conn, outbound, answers>>

\* The card's own controls, before its surface is mounted.
CardRespond(id) ==
  /\ ~Mounted(id) /\ Unresolved(id) /\ client /\ id \in live
  /\ RespondWithValue(id)
  /\ UNCHANGED <<live, dirty, surfaces, viewVars, serverVars, client, conn, outbound, answers>>

\* Mutant: the latch is not released.
ReplyDoneKeepsLatch(r) ==
  /\ r \in replyTasks
  /\ replyTasks' = replyTasks \ {r}
  /\ answers' = IF outbound THEN [answers EXCEPT ![r.id] = @ + 1] ELSE answers
  /\ IF r.by = "user" /\ items[r.id] # NoItem
     THEN items' = [items EXCEPT ![r.id] = Marked(@, outbound, ReplyStatus)]
     ELSE UNCHANGED items
  /\ UNCHANGED <<live, surfaces, dirty, viewVars, serverVars, client, conn, outbound>>

\* The spawned reply is polled: the unbounded channel takes it or is closed, and the
\* continuation updates the card with that key, whichever model holds it by now.
ReplyDone(r) ==
  /\ r \in replyTasks
  /\ replyTasks' = replyTasks \ {r}
  /\ answers' = IF outbound THEN [answers EXCEPT ![r.id] = @ + 1] ELSE answers
  /\ IF r.by = "user" /\ items[r.id] # NoItem
     THEN /\ items' = [items EXCEPT ![r.id] = Marked(@, outbound, ReplyStatus)]
          /\ surfaces' = [surfaces EXCEPT ![r.id] = IF @ = "none" THEN "none" ELSE "ready"]
          /\ dirty' = dirty \cup {r.id}
     ELSE UNCHANGED <<items, surfaces, dirty>>
  /\ UNCHANGED <<live, viewVars, serverVars, client, conn, outbound>>

----------------------------------------------------------------------------
(* Tasks are opened, closed and loaded.                                    *)

\* Mutant: the requests of the task that closes are forgotten.
DeclineNothing == UNCHANGED replyTasks

\* Mutant: requests that were answered are declined as well.
DeclineLive ==
  replyTasks' = replyTasks \cup {[id |-> id, by |-> "app"] : id \in live}

\* reject_pending_requests; the cards it marks are cleared by the caller.
RejectPendingRequests ==
  replyTasks' = replyTasks \cup {[id |-> id, by |-> "app"] : id \in {k \in live : Unresolved(k)}}

\* Mutant: surfaces are retired and live keys kept.
RetireSurfaces ==
  /\ dirty' = dirty \cup {id \in Ids : Mounted(id)}
  /\ UNCHANGED live

\* retire_all_request_surfaces.
RetireAllRequestSurfaces ==
  /\ live' = {}
  /\ dirty' = dirty \cup {id \in Ids : Mounted(id)}

\* What open_thread and new_task have in common.
CloseTask ==
  /\ RejectPendingRequests
  /\ items' = [id \in Ids |-> NoItem]
  /\ live' = {}
  /\ dirty' = dirty \cup {id \in live : Unresolved(id)} \cup {id \in Ids : Mounted(id)}
  /\ UNCHANGED surfaces

Input == inputs < MaxInputs /\ inputs' = inputs + 1

OpenThread(t) ==
  /\ Input /\ client
  /\ CloseTask
  /\ selected' = t /\ loadTask' = t /\ MayResume
  /\ UNCHANGED <<snapshot, client, conn, outbound, answers>>

NewTask ==
  /\ Input
  /\ CloseTask
  /\ selected' = NoThread
  /\ UNCHANGED <<snapshot, loadTask, loadLost, serverVars, client, conn, outbound, answers>>

\* refresh_threads replaces request_task.
RefreshThreads ==
  /\ Input /\ client
  /\ loadTask' = NoThread /\ MayResume
  /\ UNCHANGED <<selected, snapshot, cardVars, linkVars>>

\* The first send of a new task selects the thread it was given.
SendDone(t) ==
  /\ client /\ selected = NoThread /\ loadTask = NoThread
  /\ selected' = t /\ subscribed' = subscribed \cup {t}
  /\ UNCHANGED <<loadTask, loadLost, inputs, snapshot, cardVars, up, asked, origin, settled,
                 queue, linkVars>>

\* load_thread: the history, a part of the saved transcript merged into it, and
\* mark_unbacked_requests_inactive before the live keys are retired.
LoadThread(restored) ==
  /\ loadTask # NoThread
  /\ loadTask' = NoThread /\ selected' = loadTask
  /\ items' = [id \in Ids |->
       LET old == snapshot[loadTask][id] IN
       IF id \notin restored THEN NoItem
       ELSE IF ~old.resolved /\ id \notin live THEN [old EXCEPT !.status = "inactive"]
       ELSE old]
  /\ RetireAllRequestSurfaces
  /\ MayResume
  /\ UNCHANGED <<inputs, snapshot, surfaces, linkVars>>

LoadFailed ==
  /\ loadTask # NoThread
  /\ loadTask' = NoThread /\ loadLost' = FALSE
  /\ UNCHANGED <<selected, inputs, snapshot, cardVars, serverVars, linkVars>>

----------------------------------------------------------------------------
(* The connection.                                                         *)

\* handle_server_disconnect.  The calls of a load have failed, but request_task may
\* still have to run on that: it opens the history read-only, or reports the failure.
HandleServerDisconnect ==
  /\ client /\ ~up /\ queue = <<>>
  /\ client' = FALSE
  /\ loadLost' = (loadTask # NoThread)
  /\ RetireAllRequestSurfaces
  /\ items' = [id \in Ids |-> IF Unresolved(id) THEN [items[id] EXCEPT !.status = "inactive"]
                              ELSE items[id]]
  /\ UNCHANGED <<selected, loadTask, inputs, snapshot, surfaces, serverVars, conn, outbound,
                 answers, replyTasks>>

\* A new connection reopens a thread or none.  A launch takes longer than a poll of
\* a reply, which never waits, and than a frame.
Connect(t) ==
  /\ ~client /\ conn < MaxConns /\ replyTasks = {} /\ dirty = {}
  /\ client' = TRUE /\ conn' = conn + 1 /\ outbound' = TRUE
  /\ answers' = [id \in Ids |-> 0]
  /\ up' = TRUE /\ asked' = {} /\ settled' = {} /\ queue' = <<>>
  /\ origin' = [id \in Ids |-> NoThread] /\ subscribed' = {}
  /\ IF t = NoThread THEN UNCHANGED <<cardVars, replyTasks, selected, loadTask, loadLost>>
     ELSE CloseTask /\ selected' = t /\ loadTask' = t /\ loadLost' = FALSE
  /\ UNCHANGED <<inputs, snapshot>>

----------------------------------------------------------------------------
(* The app-server.                                                         *)

ServerRequest(id, t, valid) ==
  /\ up /\ id \notin asked /\ t \in subscribed \cup {NoThread}
  /\ asked' = asked \cup {id} /\ origin' = [origin EXCEPT ![id] = t]
  /\ queue' = Append(queue, [kind |-> "request", id |-> id, thread |-> t, valid |-> valid])
  /\ UNCHANGED <<up, subscribed, settled, viewVars, cardVars, linkVars>>

\* The request was answered, or its turn ended: serverRequest/resolved.
ServerSettles(id) ==
  /\ up /\ id \in asked \ settled
  /\ settled' = settled \cup {id}
  /\ queue' = Append(queue, [kind |-> "resolved", id |-> id, thread |-> origin[id], valid |-> TRUE])
  /\ UNCHANGED <<up, subscribed, asked, origin, viewVars, cardVars, linkVars>>

ServerDies ==
  /\ up /\ up' = FALSE
  /\ UNCHANGED <<subscribed, asked, origin, settled, queue, viewVars, cardVars, linkVars>>

\* The writer task ends and drops the receiving end of the channel.
OutboundCloses ==
  /\ ~up /\ outbound
  /\ outbound' = FALSE
  /\ UNCHANGED <<client, conn, answers, replyTasks, viewVars, cardVars, serverVars>>

----------------------------------------------------------------------------
Apply == \E n \in 1..Len(queue) : ApplyBatch(n)

Reply == \E r \in replyTasks : ReplyDone(r)

User == \/ \E id \in Ids : SurfaceRespond(id) \/ CardRespond(id)
        \/ \E t \in Threads : OpenThread(t)
        \/ NewTask \/ RefreshThreads

Load == LoadFailed \/ \E restored \in SUBSET Ids : LoadThread(restored)

Server == \/ \E id \in Ids, t \in Threads \cup {NoThread}, valid \in BOOLEAN :
               ServerRequest(id, t, valid)
          \/ \E id \in Ids : ServerSettles(id)
          \/ ServerDies \/ OutboundCloses

Next == \/ Apply \/ TurnCompleted \/ SyncRequestSurfaces \/ Reply \/ User \/ Load
        \/ \E t \in Threads : SendDone(t)
        \/ HandleServerDisconnect \/ \E t \in Threads \cup {NoThread} : Connect(t)
        \/ Server

\* The event loop runs, frames are drawn and spawned replies are polled.
Fairness == WF_vars(Apply) /\ WF_vars(SyncRequestSurfaces) /\ WF_vars(Reply)

Spec     == Init /\ [][Next]_vars
FairSpec == Spec /\ Fairness

----------------------------------------------------------------------------
(* Properties.                                                             *)

\* A request that HarnessApp has not seen yet.
Queued(id) == \E i \in 1..Len(queue) : queue[i].kind = "request" /\ queue[i].id = id
Fresh(id)  == id \notin asked \/ Queued(id)

ViewTypes ==
  /\ selected \in Threads \cup {NoThread} /\ loadTask \in Threads \cup {NoThread}
  /\ loadLost \in BOOLEAN /\ inputs \in Nat
  /\ snapshot \in [Threads -> [Ids -> Item]]

CardTypes ==
  /\ items \in [Ids -> Item]
  /\ live \subseteq Ids /\ dirty \subseteq Ids
  /\ surfaces \in [Ids -> Surface]

LinkTypes ==
  /\ client \in BOOLEAN /\ conn \in Nat /\ outbound \in BOOLEAN
  /\ answers \in [Ids -> Nat]
  /\ replyTasks \subseteq ReplyTask

ServerTypes ==
  /\ up \in BOOLEAN
  /\ asked \subseteq Ids /\ settled \subseteq asked
  /\ origin \in [Ids -> Threads \cup {NoThread}] /\ subscribed \subseteq Threads
  /\ queue \in Seq(Event)

\* The values every variable takes.
TypeOK == ViewTypes /\ CardTypes /\ LinkTypes /\ ServerTypes

\* A request is answered at most once, whichever of the user, a closing task and
\* the router gets to it, and however replies in flight, failures, loads and
\* restored cards with the same key interleave.
AtMostOneReply == \A id \in Ids : answers[id] <= 1

\* docs/quality-gates.md: "Persisted historical requests never revive as live
\* controls": a live key belongs to a request of this connection.
LiveIsCurrent == \A id \in live : client /\ id \in asked /\ items[id].conn = conn

\* A request of another task is never put before the user in the open one, however
\* switches and the completion of sends and loads overtake queued requests.
LiveInOpenTask == \A id \in live : origin[id] \in {NoThread, selected}

\* A request that waits for the user has its surface, or gets it with the next frame.
LiveHasSurface == \A id \in live : Unresolved(id) => Mounted(id) \/ id \in dirty

\* A surface whose latch is set has a reply under way, or goes with the next frame.
LatchReleased ==
  \A id \in Ids : surfaces[id] = "responding" =>
    [id |-> id, by |-> "user"] \in replyTasks \/ id \in dirty

\* The app-server waits for an answer that nobody will give.
Inert(id) ==
  /\ up /\ client /\ id \in asked \ settled
  /\ ~Queued(id)
  /\ answers[id] = 0 /\ \A r \in replyTasks : r.id # id
  /\ ~(id \in live /\ Unresolved(id))

\* docs/quality-gates.md: "Every ServerRequest is either rendered as an actionable live
\* surface or answered immediately [...] No request may become an inert transcript
\* card or hang the turn."
NoInertRequest == \A id \in Ids : ~Inert(id)

\* Only the end of a load can leave a request unanswered: switching, closing,
\* answering, drawing and disconnecting never do.
LostOnlyByLoad ==
  [][(\A restored \in SUBSET Ids : ~LoadThread(restored)) =>
       \A id \in Ids : Inert(id)' => Inert(id)]_vars

\* Every request the app-server makes is eventually mounted as a surface, answered or
\* settled, unless the connection or a load takes it away.
RequestsSurface ==
  \A id \in Ids : (id \in asked /\ up /\ client) ~>
    (Mounted(id) \/ answers[id] > 0 \/ id \in settled \/ ~up \/ ~client \/ Inert(id))

----------------------------------------------------------------------------
(* The invariant the proofs rest on.                                       *)

\* Each request is queued once, under the thread it belongs to.
QueueInv ==
  \A i \in 1..Len(queue) : queue[i].kind = "request" =>
    /\ queue[i].id \in asked /\ queue[i].thread = origin[queue[i].id]
    /\ \A j \in 1..Len(queue) : queue[j].kind = "request" /\ queue[j].id = queue[i].id => j = i

\* A request still unseen left no trace.
FreshInv ==
  \A id \in Ids : Fresh(id) =>
    answers[id] = 0 /\ id \notin live /\ ~Mounted(id) /\ \A r \in replyTasks : r.id # id

\* A reply under way is the only one, and a request that waits for the user has none.
ReplyInv ==
  /\ \A r \in replyTasks : answers[r.id] = 0 /\ \A q \in replyTasks : q.id = r.id => q = r
  /\ \A id \in live : Unresolved(id) => answers[id] = 0 /\ \A r \in replyTasks : r.id # id
  /\ AtMostOneReply

\* A surface without a live key goes with the next frame; a latched one with a live
\* key has its reply under way.
SurfaceInv ==
  /\ \A id \in Ids : Mounted(id) /\ id \notin live => id \in dirty
  /\ \A id \in live : surfaces[id] = "responding" => [id |-> id, by |-> "user"] \in replyTasks
  /\ LiveHasSurface

IInv ==
  /\ conn # 0
  /\ QueueInv /\ FreshInv /\ ReplyInv /\ LiveIsCurrent /\ LiveInOpenTask /\ SurfaceInv

\* What LostOnlyByLoad adds: the channel of a running app-server is open, and a resolution
\* under way is of a request it has settled.
LossInv ==
  /\ up => outbound
  /\ \A i \in 1..Len(queue) : queue[i].kind = "resolved" => queue[i].id \in settled
============================================================================
