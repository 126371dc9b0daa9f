-------------------------- MODULE AppServerClient --------------------------
(***************************************************************************)
(* The stdio JSON-RPC client of crates/codex_app_server_client: one child  *)
(* process, a reader and a writer task on the smol executor, the table of  *)
(* pending requests they share with the callers on the UI thread, the      *)
(* unbounded outbound and event channels, and the host that consumes the   *)
(* event stream and retires the client.                                    *)
(*                                                                         *)
(* A step is the code one party runs between two points where another      *)
(* thread can see a difference: Client::request is split at the outbound   *)
(* send, disconnect() at the send of Disconnected and at events.close(),   *)
(* and the writer once more where leaving its loop drops the outbound      *)
(* receiver.  The reader and the writer share IoThreads executor threads.  *)
(***************************************************************************)
EXTENDS Naturals, Sequences, FiniteSets

CONSTANTS
  Calls,          \* the request() futures the host may create, each once
  AutoRequests,   \* server requests the client answers by itself
  UserRequests,   \* server requests that go to the host as events
  NoCall,         \* not a call
  NoRequest,      \* not a server request
  MaxNoise,       \* bound: notifications, repeated answers and bad lines
  IoThreads       \* executor threads (SMOL_THREADS, 1 by default)

ASSUME ConstantsAssumption ==
  /\ NoCall \notin Calls
  /\ NoRequest \notin AutoRequests \cup UserRequests
  /\ AutoRequests \cap UserRequests = {}
  /\ MaxNoise \in Nat
  /\ IoThreads \in Nat \ {0}

VARIABLES
  callPc,      \* progress of each request() future
  reqId,       \* the JSON-RPC id the future drew from next_id
  answer,      \* what the future's oneshot slot, then its result, holds
  nextId,      \* Client.next_id
  pending,     \* Client.pending: id -> call, the shared HashMap
  outbound,    \* queue of the outbound channel
  io,          \* progress of the "reader" and the "writer" task
  events,      \* queue of the event channel
  eventsOpen,  \* FALSE after events.close()
  host,        \* the host's use of the client
  held,        \* server requests the host took from the stream, unanswered
  heardEnd,    \* the host has consumed Event::Disconnected
  alive,       \* the child process is running
  inbox,       \* requests the child has read from its stdin
  answered,    \* those it has already answered
  stdout,      \* lines the child wrote that the reader has not read
  asked,       \* server requests the child has sent
  replied,     \* server requests whose reply reached the child
  noise        \* notifications, repeats and bad lines sent so far

callVars   == <<callPc, reqId, answer, nextId, pending>>
eventVars  == <<events, eventsOpen>>
hostVars   == <<host, held, heardEnd>>
serverVars == <<alive, inbox, answered, stdout, asked, replied, noise>>
vars       == <<callVars, outbound, io, eventVars, hostVars, serverVars>>

Requests == AutoRequests \cup UserRequests
Tasks    == {"reader", "writer"}
Other(t) == IF t = "reader" THEN "writer" ELSE "reader"

(***************************************************************************)
(* Messages.  A request or a response carries the id on the wire and, for  *)
(* the properties only, the call it was made for.                          *)
(***************************************************************************)
Message == [kind : {"request"}, id : Nat, call : Calls]
           \cup [kind : {"reply"}, request : Requests]
           \cup [kind : {"notify"}]
Line    == [kind : {"response"}, id : Nat, call : Calls, tag : {"ok", "rpc"}]
           \cup [kind : {"request"}, request : Requests]
           \cup [kind : {"notification", "bad"}]
Event   == [kind : {"notification", "unmatched", "disconnected"}]
           \cup [kind : {"request"}, request : UserRequests]
Answer  == [tag : {"none", "ok", "rpc", "closed"}, call : Calls \cup {NoCall}]

NoEntries == [i \in {} |-> NoCall]
NoAnswer == [tag |-> "none", call |-> NoCall]
TransportClosed == [tag |-> "closed", call |-> NoCall]

Outstanding(c) == callPc[c] \in {"registered", "awaiting"}
OutboundClosed == io["writer"] = "ended"
ClientLive     == host # "dropped"

\* The executor: a task in the middle of disconnect() never yields, so the
\* other one runs only if there is a second thread.
HasThread(t) == IoThreads > 1 \/ io[Other(t)] \in {"run", "ended"}

Init ==
  /\ callPc = [c \in Calls |-> "idle"]
  /\ reqId = [c \in Calls |-> 0]
  /\ answer = [c \in Calls |-> NoAnswer]
  /\ nextId = 0
  /\ pending = NoEntries
  /\ outbound = <<>>
  /\ io = [t \in Tasks |-> "run"]
  /\ events = <<>> /\ eventsOpen = TRUE
  /\ host = "handshake" /\ held = {} /\ heardEnd = FALSE
  /\ alive = TRUE /\ inbox = {} /\ answered = {} /\ stdout = <<>>
  /\ asked = {} /\ replied = {} /\ noise = 0

----------------------------------------------------------------------------
(* Client::request, on the host's thread.                                  *)

Insert(m, k, v) == [x \in DOMAIN m \cup {k} |-> IF x = k THEN v ELSE m[x]]
\* Mutant: the entry stays in the table.
RemoveNothing(m, k) == m

Remove(m, k)    == [x \in DOMAIN m \ {k} |-> m[x]]

\* Mutant: next_id is read but not advanced.
RegisterSameId(c) ==
  /\ ClientLive
  /\ callPc[c] = "idle"
  /\ callPc' = [callPc EXCEPT ![c] = "registered"]
  /\ reqId' = [reqId EXCEPT ![c] = nextId]
  /\ pending' = Insert(pending, nextId, c)
  /\ UNCHANGED <<answer, nextId, outbound, io, eventVars, hostVars, serverVars>>

\* Draw an id and insert the oneshot sender.
Register(c) ==
  /\ ClientLive
  /\ callPc[c] = "idle"
  /\ callPc' = [callPc EXCEPT ![c] = "registered"]
  /\ reqId' = [reqId EXCEPT ![c] = nextId]
  /\ pending' = Insert(pending, nextId, c)
  /\ nextId' = nextId + 1
  /\ UNCHANGED <<answer, outbound, io, eventVars, hostVars, serverVars>>

\* outbound.send(): fails when the writer has dropped its receiver.
SendOk(c) ==
  /\ callPc[c] = "registered"
  /\ ~OutboundClosed
  /\ callPc' = [callPc EXCEPT ![c] = "awaiting"]
  /\ outbound' = Append(outbound, [kind |-> "request", id |-> reqId[c], call |-> c])
  /\ UNCHANGED <<reqId, answer, nextId, pending, io, eventVars, hostVars, serverVars>>

SendFailed(c) ==
  /\ callPc[c] = "registered"
  /\ OutboundClosed
  /\ callPc' = [callPc EXCEPT ![c] = "done"]
  /\ pending' = Remove(pending, reqId[c])
  /\ answer' = [answer EXCEPT ![c] = TransportClosed]
  /\ UNCHANGED <<reqId, nextId, outbound, io, eventVars, hostVars, serverVars>>

\* response_rx.await completes.
Finish(c) ==
  /\ callPc[c] = "awaiting"
  /\ answer[c].tag # "none"
  /\ callPc' = [callPc EXCEPT ![c] = "done"]
  /\ UNCHANGED <<reqId, answer, nextId, pending, outbound, io, eventVars, hostVars, serverVars>>

\* The task that awaits the future is dropped by its owner.
Cancel(c) ==
  /\ callPc[c] = "awaiting"
  /\ callPc' = [callPc EXCEPT ![c] = "dropped"]
  /\ UNCHANGED <<reqId, answer, nextId, pending, outbound, io, eventVars, hostVars, serverVars>>

----------------------------------------------------------------------------
(* disconnect(), shared by both I/O tasks.                                 *)

\* Mutant: the table is cleared, its receivers are not failed.
ForgetPending ==
  /\ pending' = NoEntries
  /\ UNCHANGED <<answer, callPc, reqId, nextId>>

\* Drain the table and fail every receiver that still exists.
DrainPending ==
  /\ answer' = [c \in Calls |->
       IF \E i \in DOMAIN pending : pending[i] = c /\ callPc[c] # "dropped"
       THEN TransportClosed ELSE answer[c]]
  /\ pending' = NoEntries
  /\ UNCHANGED <<callPc, reqId, nextId>>

Announce(t) ==
  /\ io[t] = "announce"
  /\ HasThread(t)
  /\ io' = [io EXCEPT ![t] = "close"]
  /\ events' = IF eventsOpen THEN Append(events, [kind |-> "disconnected"]) ELSE events
  /\ UNCHANGED <<callVars, outbound, eventsOpen, hostVars, serverVars>>

\* Mutant: the event channel is left open.
CloseNothing(t) ==
  /\ io[t] = "close"
  /\ HasThread(t)
  /\ io' = [io EXCEPT ![t] = IF t = "writer" THEN "break" ELSE "ended"]
  /\ UNCHANGED <<callVars, outbound, eventVars, hostVars, serverVars>>

\* events.close(); the reader then returns, the writer has yet to break.
Close(t) ==
  /\ io[t] = "close"
  /\ HasThread(t)
  /\ eventsOpen' = FALSE
  /\ io' = [io EXCEPT ![t] = IF t = "writer" THEN "break" ELSE "ended"]
  /\ UNCHANGED <<callVars, outbound, events, hostVars, serverVars>>

\* The writer's loop ends and drops outbound_rx.
WriterBreak ==
  /\ io["writer"] = "break"
  /\ HasThread("writer")
  /\ io' = [io EXCEPT !["writer"] = "ended"]
  /\ UNCHANGED <<callVars, outbound, eventVars, hostVars, serverVars>>

----------------------------------------------------------------------------
(* The writer task.                                                        *)

WriterReady == io["writer"] = "run" /\ HasThread("writer") /\ outbound # <<>>

WriterWrite ==
  /\ WriterReady
  /\ alive
  /\ LET m == Head(outbound) IN
       /\ inbox' = IF m.kind = "request" THEN inbox \cup {m} ELSE inbox
       /\ replied' = IF m.kind = "reply" THEN replied \cup {m.request} ELSE replied
  /\ outbound' = Tail(outbound)
  /\ UNCHANGED <<callVars, io, eventVars, hostVars, alive, answered, stdout, asked, noise>>

\* The pipe is broken: disconnect() begins.
WriterFail ==
  /\ WriterReady
  /\ ~alive
  /\ outbound' = Tail(outbound)
  /\ io' = [io EXCEPT !["writer"] = "announce"]
  /\ DrainPending
  /\ UNCHANGED <<eventVars, hostVars, serverVars>>

----------------------------------------------------------------------------
(* The reader task: one action per kind of line, and the end of the file.  *)

ReaderReady == io["reader"] = "run" /\ HasThread("reader")
ReaderLine(kind) == ReaderReady /\ stdout # <<>> /\ Head(stdout).kind = kind
ConsumeLine == stdout' = Tail(stdout) /\ UNCHANGED <<alive, inbox, answered, asked, replied, noise>>

\* events.send(): the reader returns when the channel is closed.
Emit(e) ==
  IF eventsOpen
  THEN events' = Append(events, e) /\ UNCHANGED io
  ELSE io' = [io EXCEPT !["reader"] = "ended"] /\ UNCHANGED events

ReadResponse ==
  /\ ReaderLine("response")
  /\ ConsumeLine
  /\ LET l == Head(stdout) IN
       IF l.id \in DOMAIN pending
       THEN LET c == pending[l.id] IN
            /\ pending' = Remove(pending, l.id)
            /\ answer' = IF callPc[c] = "dropped" THEN answer
                         ELSE [answer EXCEPT ![c] = [tag |-> l.tag, call |-> l.call]]
            /\ UNCHANGED <<io, events>>
       ELSE Emit([kind |-> "unmatched"]) /\ UNCHANGED <<pending, answer>>
  /\ UNCHANGED <<callPc, reqId, nextId, outbound, eventsOpen, hostVars>>

ReadNotification ==
  /\ ReaderLine("notification")
  /\ ConsumeLine
  /\ Emit([kind |-> "notification"])
  /\ UNCHANGED <<callVars, outbound, eventsOpen, hostVars>>

\* Mutant: requests the client answers itself are forwarded as well.
ReadAnyRequest ==
  /\ ReaderLine("request")
  /\ ConsumeLine
  /\ Emit([kind |-> "request", request |-> Head(stdout).request])
  /\ UNCHANGED <<callVars, outbound, eventsOpen, hostVars>>

ReadUserRequest ==
  /\ ReaderLine("request")
  /\ Head(stdout).request \in UserRequests
  /\ ConsumeLine
  /\ Emit([kind |-> "request", request |-> Head(stdout).request])
  /\ UNCHANGED <<callVars, outbound, eventsOpen, hostVars>>

\* Mutant: the canned reply is built but not sent.
ReadAutoRequestSilently ==
  /\ ReaderLine("request")
  /\ Head(stdout).request \in AutoRequests
  /\ ConsumeLine
  /\ UNCHANGED <<callVars, outbound, io, eventVars, hostVars>>

\* outbound.try_send() of the canned reply; disconnect() if it is closed.
ReadAutoRequest ==
  /\ ReaderLine("request")
  /\ Head(stdout).request \in AutoRequests
  /\ ConsumeLine
  /\ IF OutboundClosed
     THEN DrainPending /\ io' = [io EXCEPT !["reader"] = "announce"] /\ UNCHANGED outbound
     ELSE /\ outbound' = Append(outbound, [kind |-> "reply", request |-> Head(stdout).request])
          /\ UNCHANGED <<callVars, io>>
  /\ UNCHANGED <<eventVars, hostVars>>

\* decode_line or the read itself fails: disconnect() begins.
ReadBadLine ==
  /\ ReaderLine("bad")
  /\ ConsumeLine
  /\ io' = [io EXCEPT !["reader"] = "announce"]
  /\ DrainPending
  /\ UNCHANGED <<outbound, eventVars, hostVars>>

\* Mutant: the reader returns at the end of the file without disconnect().
ReadEofSilently ==
  /\ ReaderReady
  /\ stdout = <<>> /\ ~alive
  /\ io' = [io EXCEPT !["reader"] = "ended"]
  /\ UNCHANGED <<callVars, outbound, eventVars, hostVars, serverVars>>

ReadEof ==
  /\ ReaderReady
  /\ stdout = <<>> /\ ~alive
  /\ io' = [io EXCEPT !["reader"] = "announce"]
  /\ DrainPending
  /\ UNCHANGED <<outbound, eventVars, hostVars, serverVars>>

----------------------------------------------------------------------------
(* The host: HarnessApp::connect's handshake, its event loop, its replies. *)

HostUnchanged == UNCHANGED <<callVars, outbound, io, eventVars, serverVars>>

\* The handshake calls succeeded and the event loop starts.
HostListen ==
  /\ host = "handshake"
  /\ \E c \in Calls : callPc[c] = "done" /\ answer[c].tag = "ok"
  /\ host' = "listening"
  /\ UNCHANGED <<held, heardEnd>> /\ HostUnchanged

HostRecv ==
  /\ host = "listening"
  /\ events # <<>>
  /\ events' = Tail(events)
  /\ LET e == Head(events) IN
       /\ held' = IF e.kind = "request" THEN held \cup {e.request} ELSE held
       /\ heardEnd' = (heardEnd \/ e.kind = "disconnected")
  /\ UNCHANGED <<callVars, outbound, io, eventsOpen, host, serverVars>>

\* recv() fails on a closed and empty channel: the loop ends.
HostStreamEnd ==
  /\ host = "listening"
  /\ events = <<>> /\ ~eventsOpen
  /\ host' = "ended"
  /\ UNCHANGED <<held, heardEnd>> /\ HostUnchanged

\* Client::respond, respond_error: lost when the writer is gone.
HostReply(r) ==
  /\ ClientLive
  /\ r \in held
  /\ held' = held \ {r}
  /\ outbound' = IF OutboundClosed THEN outbound
                 ELSE Append(outbound, [kind |-> "reply", request |-> r])
  /\ UNCHANGED <<callVars, io, eventVars, host, heardEnd, serverVars>>

\* Client::notify, sent once after initialize.
HostNotify ==
  /\ ClientLive
  /\ noise < MaxNoise
  /\ noise' = noise + 1
  /\ outbound' = IF OutboundClosed THEN outbound ELSE Append(outbound, [kind |-> "notify"])
  /\ UNCHANGED <<callVars, io, eventVars, hostVars, alive, inbox, answered, stdout, asked, replied>>

\* The last Rc<Client> goes: its futures borrow the client, so none may be
\* left.  Dropping it cancels both tasks and kills the child.
DropClient ==
  /\ \/ host = "ended"
     \/ host = "handshake" /\ \E c \in Calls : callPc[c] = "done" /\ answer[c].tag # "ok"
  /\ \A c \in Calls : ~Outstanding(c)
  /\ host' = "dropped"
  /\ io' = [t \in Tasks |-> "ended"]
  /\ alive' = FALSE
  /\ pending' = NoEntries
  /\ outbound' = <<>> /\ stdout' = <<>> /\ events' = <<>> /\ eventsOpen' = FALSE
  /\ UNCHANGED <<callPc, reqId, answer, nextId, held, heardEnd,
                 inbox, answered, asked, replied, noise>>

----------------------------------------------------------------------------
(* The child process, as the client uses it.                               *)

ServerUnchanged == UNCHANGED <<callVars, outbound, io, eventVars, hostVars, alive, inbox, replied>>

ServerAnswer(m, tag) ==
  /\ alive
  /\ m \in inbox \ answered
  /\ answered' = answered \cup {m}
  /\ stdout' = Append(stdout, [kind |-> "response", id |-> m.id, call |-> m.call, tag |-> tag])
  /\ UNCHANGED <<asked, noise>> /\ ServerUnchanged

ServerRepeat(m) ==
  /\ alive
  /\ m \in answered
  /\ noise < MaxNoise
  /\ noise' = noise + 1
  /\ stdout' = Append(stdout, [kind |-> "response", id |-> m.id, call |-> m.call, tag |-> "rpc"])
  /\ UNCHANGED <<answered, asked>> /\ ServerUnchanged

ServerEmit(kind) ==
  /\ alive
  /\ noise < MaxNoise
  /\ noise' = noise + 1
  /\ stdout' = Append(stdout, [kind |-> kind])
  /\ UNCHANGED <<answered, asked>> /\ ServerUnchanged

ServerAsk(r) ==
  /\ alive
  /\ r \notin asked
  /\ asked' = asked \cup {r}
  /\ stdout' = Append(stdout, [kind |-> "request", request |-> r])
  /\ UNCHANGED <<answered, noise>> /\ ServerUnchanged

ServerExit ==
  /\ alive
  /\ alive' = FALSE
  /\ UNCHANGED <<callVars, outbound, io, eventVars, hostVars, inbox, answered, stdout,
                 asked, replied, noise>>

----------------------------------------------------------------------------
Caller(c) == Register(c) \/ SendOk(c) \/ SendFailed(c) \/ Finish(c) \/ Cancel(c)
Writer    == WriterWrite \/ WriterFail \/ WriterBreak \/ Announce("writer") \/ Close("writer")
Reader    == \/ ReadResponse \/ ReadNotification \/ ReadUserRequest \/ ReadAutoRequest
             \/ ReadBadLine \/ ReadEof \/ Announce("reader") \/ Close("reader")
Host      == HostListen \/ HostRecv \/ HostStreamEnd \/ HostNotify \/ DropClient
             \/ \E r \in UserRequests : HostReply(r)
Server    == \/ \E m \in inbox, tag \in {"ok", "rpc"} : ServerAnswer(m, tag)
             \/ \E m \in inbox : ServerRepeat(m)
             \/ \E kind \in {"notification", "bad"} : ServerEmit(kind)
             \/ \E r \in Requests : ServerAsk(r)
             \/ ServerExit

Next == (\E c \in Calls : Caller(c)) \/ Writer \/ Reader \/ Host \/ Server

\* Tasks are polled when they are ready; the host keeps draining its stream
\* and drops a finished client; the child answers what it has read.  Users,
\* cancellation, notifications and crashes are not fair.
Fairness ==
  /\ \A c \in Calls : WF_vars(SendOk(c) \/ SendFailed(c) \/ Finish(c))
  /\ WF_vars(Writer) /\ WF_vars(Reader)
  /\ WF_vars(HostRecv \/ HostStreamEnd \/ DropClient)
  /\ \A c \in Calls : WF_vars(\E m \in inbox, tag \in {"ok", "rpc"} :
                                m.call = c /\ ServerAnswer(m, tag))

Spec     == Init /\ [][Next]_vars
FairSpec == Spec /\ Fairness

----------------------------------------------------------------------------
(* Properties.                                                             *)

\* The values every variable of the client takes.
TypeOK ==
  /\ callPc \in [Calls -> {"idle", "registered", "awaiting", "done", "dropped"}]
  /\ reqId \in [Calls -> Nat]
  /\ answer \in [Calls -> Answer]
  /\ nextId \in Nat
  /\ DOMAIN pending \subseteq Nat /\ pending \in [DOMAIN pending -> Calls]
  /\ outbound \in Seq(Message)
  /\ io \in [Tasks -> {"run", "announce", "close", "break", "ended"}]
  /\ events \in Seq(Event)
  /\ eventsOpen \in BOOLEAN
  /\ host \in {"handshake", "listening", "ended", "dropped"}
  /\ held \subseteq UserRequests
  /\ heardEnd \in BOOLEAN
  /\ alive \in BOOLEAN
  /\ inbox \subseteq [kind : {"request"}, id : Nat, call : Calls]
  /\ answered \subseteq inbox
  /\ stdout \in Seq(Line)
  /\ asked \subseteq Requests
  /\ replied \subseteq Requests
  /\ noise \in Nat

\* Whatever order the child answers in, and however often it repeats itself,
\* a future that returns a server result returns the result of its own request.
Correlated ==
  \A c \in Calls : answer[c].tag \in {"ok", "rpc"} => answer[c].call = c

\* The table holds exactly what may still be answered: an entry is filed under
\* the id of its own call, which is not settled.
PendingUnsettled ==
  \A i \in DOMAIN pending :
    LET c == pending[i] IN
      /\ reqId[c] = i
      /\ answer[c].tag = "none"
      /\ callPc[c] \in {"registered", "awaiting", "dropped"}

\* A settled answer is never replaced: not by a repeated response, not by the
\* second of two disconnects, not by a send that fails after the drain.
AnswerOnce ==
  [][\A c \in Calls : answer[c].tag # "none" => answer'[c] = answer[c]]_vars

\* The host's stream says that it ended, once and last, also when the reader and
\* the writer both fail: Event::Disconnected is the last event, and the host's loop
\* never stops without it.
EndAnnouncedLast ==
  /\ \A i \in 1..Len(events) : events[i].kind = "disconnected" => i = Len(events)
  /\ heardEnd => events = <<>>
  /\ host = "ended" => heardEnd

\* Once the child is gone, a listening host reaches the end of its stream.
StreamEnds == (~alive /\ host = "listening") ~> (host \in {"ended", "dropped"})

\* A request that was on its way while both I/O tasks were running settles,
\* by the child's answer or by the disconnect that overtakes it.
EarlyCallSettles ==
  \A c \in Calls :
    (callPc[c] = "awaiting" /\ \A t \in Tasks : io[t] = "run") ~> ~Outstanding(c)

\* An infrastructure request is never dropped on its way from stdout through the
\* reader and the writer's queue: the child has its reply, or it is still to come.
AutoRequestKept ==
  \A r \in AutoRequests : r \in asked /\ alive /\ io["reader"] = "run" =>
    \/ r \in replied
    \/ \E i \in 1..Len(stdout) : stdout[i] = [kind |-> "request", request |-> r]
    \/ \E i \in 1..Len(outbound) : outbound[i] = [kind |-> "reply", request |-> r]

\* After the stream has ended the host can retire the client, which kills the
\* child (the comment on events.close() in disconnect()).
ClientIsRetired == (host = "ended") ~> (host = "dropped")

----------------------------------------------------------------------------
(* The contract of a call, and how the client's state maps to it.          *)

Outcome ==
  [c \in Calls |->
     IF callPc[c] = "idle" THEN "unasked"
     ELSE IF answer[c].tag = "closed" THEN "closed"
     ELSE IF answer[c].tag # "none" THEN IF answer[c].call = c THEN "answered" ELSE "crossed"
     ELSE IF callPc[c] = "dropped" THEN "abandoned" ELSE "open"]
Served == {m.call : m \in answered}
Broken == \E t \in Tasks : io[t] # "run"

Contract == INSTANCE CallContract WITH outcome <- Outcome, served <- Served, broken <- Broken

\* The client implements the contract: however the callers, the two I/O tasks, repeated
\* answers and failures interleave, each call settles once, with the answer to itself or in
\* the one step in which disconnect() fails every call that is open.
KeepsContract == Contract!Spec

----------------------------------------------------------------------------
(* The invariant the proofs rest on.                                       *)

\* An id names one call: no two calls drew the same one.
IdsDistinct ==
  /\ \A c \in Calls : callPc[c] # "idle" => reqId[c] < nextId
  /\ \A c, d \in Calls :
       callPc[c] # "idle" /\ callPc[d] # "idle" /\ reqId[c] = reqId[d] => c = d

\* A message that was sent for a call carries that call's id.
Filed(m) == callPc[m.call] \notin {"idle", "registered"} /\ reqId[m.call] = m.id
WireFaithful ==
  /\ \A i \in 1..Len(outbound) : outbound[i].kind = "request" => Filed(outbound[i])
  /\ \A m \in inbox : Filed(m)
  /\ \A i \in 1..Len(stdout) : stdout[i].kind = "response" => Filed(stdout[i])

\* Before its message is sent, a call can only have been failed by disconnect().
SlotsFresh ==
  \A c \in Calls :
    /\ callPc[c] = "idle" => answer[c] = NoAnswer
    /\ callPc[c] = "registered" => answer[c] \in {NoAnswer, TransportClosed}

\* At every moment each id, on the wire or in the table, leads to the one call
\* that drew it.
IInv == IdsDistinct /\ WireFaithful /\ SlotsFresh /\ PendingUnsettled /\ Correlated

\* Every open call is in the table, so that a drain or a response finds it.
OpenIsFiled ==
  \A c \in Calls : Outcome[c] = "open" =>
    reqId[c] \in DOMAIN pending /\ pending[reqId[c]] = c

\* A response on its way was given by the child.
LinesServed ==
  \A i \in 1..Len(stdout) : stdout[i].kind = "response" => stdout[i].call \in Served

\* The stream of events is closed only by a task that failed.
ClosedIsBroken == eventsOpen \/ Broken

\* What the refinement adds to IInv: whatever settles a call finds it.
ContractInv == OpenIsFiled /\ LinesServed /\ ClosedIsBroken

\* With one I/O thread a task in the middle of disconnect() has it for itself.
Busy(t) == io[t] \in {"announce", "close", "break"}
OneDisconnects == \A t \in Tasks : Busy(t) => ~Busy(Other(t))

\* Event::Disconnected was sent: it is in the stream or the host has it.
EndSent == heardEnd \/ \E i \in 1..Len(events) : events[i].kind = "disconnected"

\* It is sent before the stream is closed, and by the task that closes it.
CloseAfterEnd ==
  /\ ~eventsOpen => EndSent \/ (host = "dropped" /\ \A t \in Tasks : io[t] = "ended")
  /\ \A t \in Tasks : io[t] = "close" => EndSent
  /\ eventsOpen /\ EndSent => \E t \in Tasks : io[t] = "close"

\* What EndAnnouncedLast needs to be inductive.
StreamInv == OneDisconnects /\ CloseAfterEnd /\ EndAnnouncedLast
============================================================================
