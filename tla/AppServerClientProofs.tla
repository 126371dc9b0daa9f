----------------------- MODULE AppServerClientProofs -----------------------
(***************************************************************************)
(* Proofs about AppServerClient for any number of calls and requests, any  *)
(* amount of noise and any number of I/O threads: type correctness, the    *)
(* correlation of answers with requests, and the finality of an answer.    *)
(***************************************************************************)
EXTENDS AppServerClient, TLAPS

(***************************************************************************)
(* Type correctness.                                                       *)
(***************************************************************************)

\* The table without entries is a table.
LEMMA EmptyTable ==
  DOMAIN NoEntries = {} /\ NoEntries \in [DOMAIN NoEntries -> Calls]
  BY DEF NoEntries

\* The initial state has the right types.
LEMMA InitTypeOK == Init => TypeOK
<1> SUFFICES ASSUME Init PROVE TypeOK
  OBVIOUS
<1>1. callPc \in [Calls -> {"idle", "registered", "awaiting", "done", "dropped"}]
      /\ reqId \in [Calls -> Nat] /\ answer \in [Calls -> Answer] /\ nextId \in Nat
  BY DEF Init, NoAnswer, Answer
<1>2. DOMAIN pending \subseteq Nat /\ pending \in [DOMAIN pending -> Calls]
  BY EmptyTable DEF Init
<1>3. outbound \in Seq(Message) /\ events \in Seq(Event) /\ stdout \in Seq(Line)
  BY DEF Init
<1>4. io \in [Tasks -> {"run", "announce", "close", "break", "ended"}]
  BY DEF Init
<1>5. eventsOpen \in BOOLEAN /\ heardEnd \in BOOLEAN /\ alive \in BOOLEAN
  BY Zenon DEF Init
<1>6. QED BY <1>1, <1>2, <1>3, <1>4, <1>5 DEF Init, TypeOK

\* disconnect()'s drain keeps the table and the answers well typed.
LEMMA DrainTypes ==
  ASSUME TypeOK, DrainPending
  PROVE  /\ answer' \in [Calls -> Answer]
         /\ DOMAIN pending' = {} /\ pending' \in [DOMAIN pending' -> Calls]
         /\ UNCHANGED <<callPc, reqId, nextId>>
  BY EmptyTable DEF TypeOK, DrainPending, TransportClosed, Answer

\* Every step keeps the types.
LEMMA StepTypeOK == ASSUME TypeOK, [Next]_vars PROVE TypeOK'
<1> USE ConstantsAssumption DEF callVars, eventVars, hostVars, serverVars
<1>1. ASSUME NEW c \in Calls, Caller(c) PROVE TypeOK'
  <2>1. CASE Register(c)
    BY <2>1 DEF TypeOK, Register, Insert
  <2>2. CASE SendOk(c)
    <3>1. [kind |-> "request", id |-> reqId[c], call |-> c] \in Message
      BY DEF TypeOK, Message
    <3>2. QED BY <2>2, <3>1 DEF TypeOK, SendOk
  <2>3. CASE SendFailed(c)
    BY <2>3 DEF TypeOK, SendFailed, Remove, TransportClosed, Answer
  <2>4. CASE Finish(c)
    BY <2>4 DEF TypeOK, Finish
  <2>5. CASE Cancel(c)
    BY <2>5 DEF TypeOK, Cancel
  <2>6. QED BY <1>1, <2>1, <2>2, <2>3, <2>4, <2>5 DEF Caller
<1>2. ASSUME NEW t \in Tasks, Announce(t) \/ Close(t) PROVE TypeOK'
  <2>1. [kind |-> "disconnected"] \in Event
    BY DEF Event
  <2>2. CASE Announce(t)
    <3>1. events' \in Seq(Event)
      BY <2>1, <2>2 DEF TypeOK, Announce
    <3>2. QED BY <2>2, <3>1 DEF TypeOK, Announce
  <2>3. CASE Close(t)
    <3>1. eventsOpen' \in BOOLEAN
      BY <2>3, Zenon DEF Close
    <3>2. io' \in [Tasks -> {"run", "announce", "close", "break", "ended"}]
      BY <2>3 DEF TypeOK, Close
    <3>3. QED BY <2>3, <3>1, <3>2 DEF TypeOK, Close
  <2>4. QED BY <1>2, <2>2, <2>3
<1>3. CASE WriterWrite
  <2>1. outbound # <<>>
    BY <1>3 DEF WriterWrite, WriterReady
  <2>2. Head(outbound) \in Message /\ outbound' \in Seq(Message)
    BY <1>3, <2>1 DEF WriterWrite, TypeOK
  <2>3. inbox' \subseteq [kind : {"request"}, id : Nat, call : Calls] /\ inbox \subseteq inbox'
    BY <1>3, <2>2 DEF WriterWrite, TypeOK, Message
  <2>4. replied' \subseteq Requests
    BY <1>3, <2>2 DEF WriterWrite, TypeOK, Message
  <2>5. QED BY <1>3, <2>2, <2>3, <2>4 DEF WriterWrite, TypeOK
<1>4. CASE WriterFail
  BY <1>4, DrainTypes DEF TypeOK, WriterFail, WriterReady, Tasks
<1>5. CASE WriterBreak
  BY <1>5 DEF TypeOK, WriterBreak, Tasks
<1>6. ASSUME ConsumeLine, stdout # <<>> PROVE
        /\ Head(stdout) \in Line /\ stdout' \in Seq(Line)
        /\ UNCHANGED <<alive, inbox, answered, asked, replied, noise>>
  BY <1>6 DEF TypeOK, ConsumeLine
<1>7. ASSUME NEW e \in Event, Emit(e) PROVE
        /\ events' \in Seq(Event)
        /\ io' \in [Tasks -> {"run", "announce", "close", "break", "ended"}]
  <2>1. CASE eventsOpen
    <3>1. events' = Append(events, e) /\ io' = io
      BY <1>7, <2>1, Zenon DEF Emit
    <3>2. QED BY <3>1 DEF TypeOK
  <2>2. CASE ~eventsOpen
    <3>1. events' = events /\ io' = [io EXCEPT !["reader"] = "ended"]
      BY <1>7, <2>2, Zenon DEF Emit
    <3>2. QED BY <3>1 DEF TypeOK
  <2>3. QED BY <2>1, <2>2
<1>8. CASE ReadResponse
  <2>1. /\ ReaderLine("response") /\ stdout # <<>> /\ Head(stdout).kind = "response"
        /\ ConsumeLine
    BY <1>8 DEF ReadResponse, ReaderLine
  <2>2. Head(stdout) \in [kind : {"response"}, id : Nat, call : Calls, tag : {"ok", "rpc"}]
    BY <1>6, <2>1 DEF Line
  <2>3. [kind |-> "unmatched"] \in Event
    BY DEF Event
  <2>4. CASE Head(stdout).id \in DOMAIN pending
    <3>1. /\ pending' = Remove(pending, Head(stdout).id)
          /\ \/ answer' = answer
             \/ answer' = [answer EXCEPT ![pending[Head(stdout).id]] =
                             [tag |-> Head(stdout).tag, call |-> Head(stdout).call]]
          /\ UNCHANGED <<io, events>>
      BY <1>8, <2>4 DEF ReadResponse
    <3>2. [tag |-> Head(stdout).tag, call |-> Head(stdout).call] \in Answer
      BY <2>2 DEF Answer
    <3>3. answer' \in [Calls -> Answer]
      BY <3>1, <3>2 DEF TypeOK
    <3>4. DOMAIN pending' \subseteq Nat /\ pending' \in [DOMAIN pending' -> Calls]
      BY <3>1 DEF TypeOK, Remove
    <3>5. QED BY <1>6, <1>8, <2>1, <3>1, <3>3, <3>4 DEF TypeOK, ReadResponse
  <2>5. CASE Head(stdout).id \notin DOMAIN pending
    BY <1>6, <1>7, <1>8, <2>1, <2>3, <2>5 DEF TypeOK, ReadResponse
  <2>6. QED BY <2>4, <2>5
<1>9. CASE ReadNotification
  <2>1. [kind |-> "notification"] \in Event
    BY DEF Event
  <2>2. QED BY <1>6, <1>7, <1>9, <2>1 DEF TypeOK, ReadNotification, ReaderLine
<1>10. CASE ReadUserRequest
  <2>1. [kind |-> "request", request |-> Head(stdout).request] \in Event
    BY <1>10 DEF Event, ReadUserRequest
  <2>2. QED BY <1>6, <1>7, <1>10, <2>1 DEF TypeOK, ReadUserRequest, ReaderLine
<1>11. CASE ReadAutoRequest
  <2>1. [kind |-> "reply", request |-> Head(stdout).request] \in Message
    BY <1>11 DEF Message, ReadAutoRequest, Requests
  <2>2. CASE OutboundClosed
    BY <1>6, <1>11, <2>2, DrainTypes DEF TypeOK, ReadAutoRequest, ReaderLine, Tasks
  <2>3. CASE ~OutboundClosed
    <3>1. /\ outbound' = Append(outbound, [kind |-> "reply", request |-> Head(stdout).request])
          /\ UNCHANGED <<callVars, io>>
      BY <1>11, <2>3 DEF ReadAutoRequest
    <3>2. outbound' \in Seq(Message)
      BY <2>1, <3>1 DEF TypeOK
    <3>3. QED BY <1>6, <1>11, <3>1, <3>2 DEF TypeOK, ReadAutoRequest, ReaderLine
  <2>4. QED BY <2>2, <2>3
<1>12. CASE ReadBadLine
  BY <1>6, <1>12, DrainTypes DEF TypeOK, ReadBadLine, ReaderLine, Tasks
<1>13. CASE ReadEof
  BY <1>13, DrainTypes DEF TypeOK, ReadEof, Tasks
<1>14. CASE HostListen
  BY <1>14 DEF TypeOK, HostListen, HostUnchanged
<1>15. CASE HostRecv
  <2>1. Head(events) \in Event /\ events' \in Seq(Event)
    BY <1>15 DEF TypeOK, HostRecv
  <2>2. held' \subseteq UserRequests
    BY <1>15, <2>1 DEF TypeOK, HostRecv, Event
  <2>3. QED BY <1>15, <2>1, <2>2 DEF TypeOK, HostRecv
<1>16. CASE HostStreamEnd
  BY <1>16 DEF TypeOK, HostStreamEnd, HostUnchanged
<1>17. ASSUME NEW r \in UserRequests, HostReply(r) PROVE TypeOK'
  <2>1. [kind |-> "reply", request |-> r] \in Message
    BY DEF Message, Requests
  <2>2. QED BY <1>17, <2>1 DEF TypeOK, HostReply
<1>18. CASE HostNotify
  <2>1. [kind |-> "notify"] \in Message
    BY DEF Message
  <2>2. QED BY <1>18, <2>1 DEF TypeOK, HostNotify
<1>19. CASE DropClient
  <2>1. DOMAIN pending' = {} /\ pending' \in [DOMAIN pending' -> Calls]
    BY <1>19, EmptyTable DEF DropClient
  <2>2. alive' \in BOOLEAN /\ eventsOpen' \in BOOLEAN
    BY <1>19, Zenon DEF DropClient
  <2>3. outbound' \in Seq(Message) /\ stdout' \in Seq(Line) /\ events' \in Seq(Event)
    BY <1>19 DEF DropClient
  <2>4. QED BY <1>19, <2>1, <2>2, <2>3 DEF TypeOK, DropClient
<1>20. CASE Server
  <2>0. ASSUME NEW l \in Line, stdout' = Append(stdout, l) PROVE stdout' \in Seq(Line)
    BY <2>0 DEF TypeOK
  <2>1. ASSUME NEW m \in inbox, NEW tag \in {"ok", "rpc"}, ServerAnswer(m, tag) PROVE TypeOK'
    <3>1. [kind |-> "response", id |-> m.id, call |-> m.call, tag |-> tag] \in Line
      BY DEF TypeOK, Line
    <3>2. stdout' \in Seq(Line) /\ answered' \subseteq inbox
      BY <2>0, <2>1, <3>1 DEF TypeOK, ServerAnswer
    <3>3. QED BY <2>1, <3>2 DEF TypeOK, ServerAnswer, ServerUnchanged
  <2>2. ASSUME NEW m \in inbox, ServerRepeat(m) PROVE TypeOK'
    <3>1. [kind |-> "response", id |-> m.id, call |-> m.call, tag |-> "rpc"] \in Line
      BY DEF TypeOK, Line
    <3>2. stdout' \in Seq(Line) /\ noise' \in Nat
      BY <2>0, <2>2, <3>1 DEF TypeOK, ServerRepeat
    <3>3. QED BY <2>2, <3>2 DEF TypeOK, ServerRepeat, ServerUnchanged
  <2>3. ASSUME NEW kind \in {"notification", "bad"}, ServerEmit(kind) PROVE TypeOK'
    <3>1. [kind |-> kind] \in Line
      BY DEF Line
    <3>2. stdout' \in Seq(Line) /\ noise' \in Nat
      BY <2>0, <2>3, <3>1 DEF TypeOK, ServerEmit
    <3>3. QED BY <2>3, <3>2 DEF TypeOK, ServerEmit, ServerUnchanged
  <2>4. ASSUME NEW r \in Requests, ServerAsk(r) PROVE TypeOK'
    <3>1. [kind |-> "request", request |-> r] \in Line
      BY DEF Line
    <3>2. stdout' \in Seq(Line) /\ asked' \subseteq Requests
      BY <2>0, <2>4, <3>1 DEF TypeOK, ServerAsk
    <3>3. QED BY <2>4, <3>2 DEF TypeOK, ServerAsk, ServerUnchanged
  <2>5. CASE ServerExit
    BY <2>5 DEF TypeOK, ServerExit
  <2>6. QED BY <1>20, <2>1, <2>2, <2>3, <2>4, <2>5 DEF Server
<1>21. CASE UNCHANGED vars
  BY <1>21 DEF TypeOK, vars
<1>22. QED
  BY <1>1, <1>2, <1>3, <1>4, <1>5, <1>8, <1>9, <1>10, <1>11, <1>12, <1>13, <1>14, <1>15,
     <1>16, <1>17, <1>18, <1>19, <1>20, <1>21
  DEF Next, Writer, Reader, Host, Tasks

\* Every reachable state of the client is well typed, whatever the constants.
THEOREM TypeCorrect == Spec => []TypeOK
  BY InitTypeOK, StepTypeOK, PTL DEF Spec

(***************************************************************************)
(* Correlation: IInv is inductive.                                         *)
(***************************************************************************)

\* Nothing has been sent or filed yet.
LEMMA InitIInv == Init => IInv
  BY EmptyTable DEF Init, IInv, IdsDistinct, WireFaithful, SlotsFresh, PendingUnsettled,
     Correlated, NoAnswer

\* Requests and responses on the wire are for calls.
LEMMA CallsOnWire ==
  ASSUME TypeOK
  PROVE  /\ \A i \in 1..Len(outbound) :
              outbound[i].kind = "request" => outbound[i].call \in Calls
         /\ \A m \in inbox : m.call \in Calls
         /\ \A i \in 1..Len(stdout) :
              stdout[i].kind = "response" => stdout[i].call \in Calls
<1>1. \A m \in Message : m.kind = "request" => m.call \in Calls
  BY DEF Message
<1>2. \A l \in Line : l.kind = "response" => l.call \in Calls
  BY DEF Line
<1>3. (\A i \in 1..Len(outbound) : outbound[i] \in Message)
      /\ \A i \in 1..Len(stdout) : stdout[i] \in Line
  BY DEF TypeOK
<1>4. QED BY <1>1, <1>2, <1>3 DEF TypeOK

\* The wire stays faithful while calls whose message is out keep their id.
LEMMA FiledStable ==
  ASSUME TypeOK, WireFaithful, UNCHANGED <<outbound, inbox, stdout>>,
         \A d \in Calls : callPc[d] \notin {"idle", "registered"} =>
            callPc'[d] \notin {"idle", "registered"} /\ reqId'[d] = reqId[d]
  PROVE  WireFaithful'
  BY CallsOnWire DEF WireFaithful, Filed

\* The steps of disconnect() settle only calls that were in the table.
LEMMA DrainIInv ==
  ASSUME TypeOK, IInv, DrainPending,
         \A i \in 1..Len(outbound') : outbound'[i].kind = "request" => Filed(outbound'[i]),
         UNCHANGED inbox,
         \A i \in 1..Len(stdout') : stdout'[i].kind = "response" => Filed(stdout'[i])
  PROVE  IInv'
<1> USE DEF IInv
<1>1. UNCHANGED <<callPc, reqId, nextId>> /\ DOMAIN pending' = {}
  BY EmptyTable DEF DrainPending
<1>2. IdsDistinct' /\ PendingUnsettled'
  BY <1>1 DEF IdsDistinct, PendingUnsettled
<1>3. WireFaithful'
  BY <1>1 DEF WireFaithful, Filed
<1>4. ASSUME NEW c \in Calls
      PROVE  \/ answer'[c] = answer[c]
             \/ answer'[c] = TransportClosed /\ callPc[c] # "idle"
  BY DEF DrainPending, PendingUnsettled
<1>5. SlotsFresh'
  BY <1>1, <1>4 DEF SlotsFresh
<1>6. Correlated'
  BY <1>4 DEF Correlated, TransportClosed
<1>7. QED BY <1>2, <1>3, <1>5, <1>6

\* Steps that leave the calls alone and add nothing unfiled to the wire.
LEMMA QuietIInv ==
  ASSUME IInv, UNCHANGED callVars,
         \A i \in 1..Len(outbound') : outbound'[i].kind = "request" => Filed(outbound'[i]),
         \A m \in inbox' : Filed(m),
         \A i \in 1..Len(stdout') : stdout'[i].kind = "response" => Filed(stdout'[i])
  PROVE  IInv'
  BY DEF IInv, callVars, IdsDistinct, WireFaithful, SlotsFresh, PendingUnsettled, Correlated,
     Filed

\* What remains of a queue after its head is taken was in it before.
LEMMA TailElements ==
  ASSUME NEW S, NEW q \in Seq(S), q # <<>>
  PROVE  /\ Head(q) = q[1] /\ 1 \in 1..Len(q)
         /\ \A i \in 1..Len(Tail(q)) : i + 1 \in 1..Len(q) /\ Tail(q)[i] = q[i + 1]
  OBVIOUS

\* An appended queue holds the old elements and the new one.
LEMMA AppendElements ==
  ASSUME NEW S, NEW q \in Seq(S), NEW e
  PROVE  \A i \in 1..Len(Append(q, e)) :
           \/ i \in 1..Len(q) /\ Append(q, e)[i] = q[i]
           \/ Append(q, e)[i] = e
  OBVIOUS

\* Every step keeps ids and calls together.
LEMMA StepIInv == ASSUME TypeOK, TypeOK', IInv, [Next]_vars PROVE IInv'
<1> USE ConstantsAssumption DEF callVars, eventVars, hostVars, serverVars
<1> DEFINE OutFiled == \A i \in 1..Len(outbound) : outbound[i].kind = "request" => Filed(outbound[i])
           InFiled  == \A i \in 1..Len(stdout) : stdout[i].kind = "response" => Filed(stdout[i])
<1>1. OutFiled /\ InFiled /\ \A m \in inbox : Filed(m)
  BY DEF IInv, WireFaithful
<1>2. ASSUME NEW c \in Calls, Register(c) PROVE IInv'
  <2>1. /\ callPc[c] = "idle" /\ callPc' = [callPc EXCEPT ![c] = "registered"]
        /\ reqId' = [reqId EXCEPT ![c] = nextId] /\ nextId' = nextId + 1
        /\ pending' = Insert(pending, nextId, c)
        /\ UNCHANGED <<answer, outbound, inbox, stdout>>
    BY <1>2 DEF Register
  <2>2. IdsDistinct'
    BY <2>1 DEF TypeOK, IInv, IdsDistinct
  <2>3. \A d \in Calls : callPc[d] \notin {"idle", "registered"} =>
          callPc'[d] \notin {"idle", "registered"} /\ reqId'[d] = reqId[d]
    BY <2>1 DEF TypeOK
  <2>4. WireFaithful'
    BY <2>1, <2>3, FiledStable DEF IInv
  <2>5. SlotsFresh' /\ Correlated'
    BY <2>1 DEF TypeOK, IInv, SlotsFresh, Correlated
  <2>6. PendingUnsettled'
    BY <2>1 DEF TypeOK, IInv, IdsDistinct, SlotsFresh, PendingUnsettled, Insert, NoAnswer
  <2>7. QED BY <2>2, <2>4, <2>5, <2>6 DEF IInv
<1>3. ASSUME NEW c \in Calls, SendOk(c) PROVE IInv'
  <2>1. /\ callPc[c] = "registered" /\ callPc' = [callPc EXCEPT ![c] = "awaiting"]
        /\ outbound' = Append(outbound, [kind |-> "request", id |-> reqId[c], call |-> c])
        /\ UNCHANGED <<reqId, nextId, answer, pending, inbox, stdout>>
    BY <1>3 DEF SendOk
  <2>2. IdsDistinct' /\ SlotsFresh' /\ Correlated' /\ PendingUnsettled'
    BY <2>1 DEF TypeOK, IInv, IdsDistinct, SlotsFresh, Correlated, PendingUnsettled
  <2> DEFINE new == [kind |-> "request", id |-> reqId[c], call |-> c]
  <2>3. \A d \in Calls : callPc[d] \notin {"idle", "registered"} =>
          callPc'[d] \notin {"idle", "registered"} /\ reqId'[d] = reqId[d]
    BY <2>1 DEF TypeOK
  <2>4. callPc'[new.call] \notin {"idle", "registered"} /\ reqId'[new.call] = new.id
    BY <2>1 DEF TypeOK
  <2>5. \A i \in 1..Len(outbound) : outbound[i].kind = "request" =>
          /\ callPc'[outbound[i].call] \notin {"idle", "registered"}
          /\ reqId'[outbound[i].call] = outbound[i].id
    BY <1>1, <2>3, CallsOnWire DEF Filed
  <2>6. \A i \in 1..Len(outbound') : outbound'[i].kind = "request" =>
          /\ callPc'[outbound'[i].call] \notin {"idle", "registered"}
          /\ reqId'[outbound'[i].call] = outbound'[i].id
    <3> HIDE DEF new
    <3>1. outbound' = Append(outbound, new)
      BY <2>1 DEF new
    <3>2. QED BY <2>4, <2>5, <3>1, AppendElements DEF TypeOK
  <2>8. WireFaithful'
    BY <1>1, <2>1, <2>3, <2>6, CallsOnWire DEF WireFaithful, Filed
  <2>9. QED BY <2>2, <2>8 DEF IInv
<1>4. ASSUME NEW c \in Calls, SendFailed(c) PROVE IInv'
  <2>1. /\ callPc[c] = "registered" /\ callPc' = [callPc EXCEPT ![c] = "done"]
        /\ pending' = Remove(pending, reqId[c])
        /\ answer' = [answer EXCEPT ![c] = TransportClosed]
        /\ UNCHANGED <<reqId, nextId, outbound, inbox, stdout>>
    BY <1>4 DEF SendFailed
  <2>2. IdsDistinct' /\ SlotsFresh' /\ Correlated'
    BY <2>1 DEF TypeOK, IInv, IdsDistinct, SlotsFresh, Correlated, TransportClosed
  <2>3. PendingUnsettled'
    BY <2>1 DEF TypeOK, IInv, PendingUnsettled, Remove
  <2>4. \A d \in Calls : callPc[d] \notin {"idle", "registered"} =>
          callPc'[d] \notin {"idle", "registered"} /\ reqId'[d] = reqId[d]
    BY <2>1 DEF TypeOK
  <2>5. WireFaithful'
    BY <2>1, <2>4, FiledStable DEF IInv
  <2>6. QED BY <2>2, <2>3, <2>5 DEF IInv
<1>5. ASSUME NEW c \in Calls, Finish(c) \/ Cancel(c) PROVE IInv'
  <2>1. /\ callPc[c] = "awaiting"
        /\ \/ callPc' = [callPc EXCEPT ![c] = "done"] /\ answer[c].tag # "none"
           \/ callPc' = [callPc EXCEPT ![c] = "dropped"]
        /\ UNCHANGED <<reqId, nextId, answer, pending, outbound, inbox, stdout>>
    BY <1>5 DEF Finish, Cancel
  <2>2. /\ \A d \in Calls : d # c => callPc'[d] = callPc[d]
        /\ callPc'[c] \in {"done", "dropped"}
        /\ callPc'[c] = "done" => answer[c].tag # "none"
    BY <2>1 DEF TypeOK
  <2>3. IdsDistinct' /\ SlotsFresh' /\ Correlated' /\ PendingUnsettled'
    <3>1. IdsDistinct'
      BY <2>1, <2>2 DEF IInv, IdsDistinct
    <3>2. SlotsFresh' /\ Correlated'
      BY <2>1, <2>2 DEF IInv, SlotsFresh, Correlated
    <3>3. PendingUnsettled'
      <4>1. ASSUME NEW i \in DOMAIN pending
            PROVE  callPc'[pending[i]] \in {"registered", "awaiting", "dropped"}
        <5>1. pending[i] \in Calls /\ answer[pending[i]].tag = "none"
              /\ callPc[pending[i]] \in {"registered", "awaiting", "dropped"}
          BY DEF TypeOK, IInv, PendingUnsettled
        <5>2. QED BY <2>2, <5>1
      <4>2. QED BY <2>1, <4>1 DEF IInv, PendingUnsettled
    <3>4. QED BY <3>1, <3>2, <3>3
  <2>4. \A d \in Calls : callPc[d] \notin {"idle", "registered"} =>
          callPc'[d] \notin {"idle", "registered"} /\ reqId'[d] = reqId[d]
    BY <2>1 DEF TypeOK
  <2>5. WireFaithful'
    BY <2>1, <2>4, FiledStable DEF IInv
  <2>6. QED BY <2>3, <2>5 DEF IInv
<1>7. ASSUME stdout # <<>> PROVE \A i \in 1..Len(Tail(stdout)) :
        Tail(stdout)[i].kind = "response" => Filed(Tail(stdout)[i])
  BY <1>1, <1>7, TailElements DEF TypeOK
<1>8. ASSUME outbound # <<>> PROVE \A i \in 1..Len(Tail(outbound)) :
        Tail(outbound)[i].kind = "request" => Filed(Tail(outbound)[i])
  BY <1>1, <1>8, TailElements DEF TypeOK
<1>9. CASE WriterWrite
  <2>1. /\ outbound # <<>> /\ outbound' = Tail(outbound) /\ UNCHANGED <<callVars, stdout>>
        /\ inbox' = IF Head(outbound).kind = "request" THEN inbox \cup {Head(outbound)} ELSE inbox
    BY <1>9 DEF WriterWrite, WriterReady
  <2>2. Head(outbound).kind = "request" => Filed(Head(outbound))
    <3>1. Head(outbound) = outbound[1] /\ 1 \in 1..Len(outbound)
      BY <2>1, TailElements DEF TypeOK
    <3>2. QED BY <1>1, <3>1
  <2>3. \A m \in inbox' : Filed(m)
    BY <1>1, <2>1, <2>2
  <2>4. QED BY <1>1, <1>8, <2>1, <2>3, QuietIInv
<1>10. CASE WriterFail
  BY <1>1, <1>8, <1>10, DrainIInv DEF WriterFail, WriterReady
<1>11. CASE WriterBreak \/ \E t \in Tasks : Announce(t) \/ Close(t)
  BY <1>1, <1>11, QuietIInv DEF WriterBreak, Announce, Close
<1>12. CASE ReadResponse
  <2>1. /\ stdout # <<>> /\ Head(stdout).kind = "response" /\ stdout' = Tail(stdout)
        /\ UNCHANGED <<callPc, reqId, nextId, outbound, inbox>>
    BY <1>12 DEF ReadResponse, ReaderLine, ConsumeLine
  <2>2. Filed(Head(stdout)) /\ Head(stdout).call \in Calls
    <3>1. Head(stdout) = stdout[1] /\ 1 \in 1..Len(stdout)
      BY <2>1, TailElements DEF TypeOK
    <3>2. QED BY <1>1, <2>1, <3>1, CallsOnWire
  <2>3. CASE Head(stdout).id \notin DOMAIN pending
    <3>1. UNCHANGED callVars
      BY <1>12, <2>1, <2>3 DEF ReadResponse
    <3>2. QED BY <1>1, <1>7, <2>1, <3>1, QuietIInv
  <2>4. CASE Head(stdout).id \in DOMAIN pending
    <3> DEFINE l == Head(stdout)
               c == pending[l.id]
    <3>1. /\ pending' = Remove(pending, l.id)
          /\ answer' = IF callPc[c] = "dropped" THEN answer
                       ELSE [answer EXCEPT ![c] = [tag |-> l.tag, call |-> l.call]]
      BY <1>12, <2>4 DEF ReadResponse
    <3>2. c \in Calls /\ reqId[c] = l.id /\ callPc[c] # "idle"
      BY <2>4 DEF TypeOK, IInv, PendingUnsettled
    <3>3. l.call = c /\ callPc[c] \notin {"idle", "registered"}
      BY <2>2, <3>2 DEF Filed, IInv, IdsDistinct
    <3>4. IdsDistinct'
      BY <2>1 DEF IInv, IdsDistinct
    <3>5. SlotsFresh'
      BY <2>1, <3>1, <3>2, <3>3 DEF TypeOK, IInv, SlotsFresh
    <3>6. Correlated'
      BY <3>1, <3>2, <3>3 DEF TypeOK, IInv, Correlated
    <3>7. PendingUnsettled'
      <4>1. ASSUME NEW i \in DOMAIN pending'
            PROVE  i \in DOMAIN pending /\ pending'[i] = pending[i] /\ pending[i] # c
        BY <3>1, <3>2 DEF Remove, IInv, PendingUnsettled
      <4>2. ASSUME NEW d \in Calls, d # c PROVE answer'[d] = answer[d]
        BY <3>1, <4>2 DEF TypeOK
      <4>3. ASSUME NEW i \in DOMAIN pending'
            PROVE  /\ reqId'[pending'[i]] = i /\ answer'[pending'[i]].tag = "none"
                   /\ callPc'[pending'[i]] \in {"registered", "awaiting", "dropped"}
        <5>1. i \in DOMAIN pending /\ pending'[i] = pending[i] /\ pending[i] # c
          BY <4>1
        <5>2. pending[i] \in Calls /\ answer'[pending[i]] = answer[pending[i]]
          BY <4>2, <5>1 DEF TypeOK
        <5>3. QED BY <2>1, <5>1, <5>2 DEF IInv, PendingUnsettled
      <4>4. QED BY <4>3 DEF PendingUnsettled
    <3>8. WireFaithful'
      BY <1>1, <1>7, <2>1 DEF WireFaithful, Filed
    <3>9. QED BY <3>4, <3>5, <3>6, <3>7, <3>8 DEF IInv
  <2>5. QED BY <2>3, <2>4
<1>13. CASE ReadNotification \/ ReadUserRequest
  BY <1>1, <1>7, <1>13, QuietIInv
  DEF ReadNotification, ReadUserRequest, ReaderLine, ConsumeLine
<1>14. CASE ReadAutoRequest
  <2>1. stdout # <<>> /\ stdout' = Tail(stdout) /\ UNCHANGED inbox
    BY <1>14 DEF ReadAutoRequest, ReaderLine, ConsumeLine
  <2>2. CASE OutboundClosed
    BY <1>1, <1>7, <1>14, <2>1, <2>2, DrainIInv DEF ReadAutoRequest
  <2>3. CASE ~OutboundClosed
    <3>1. /\ outbound' = Append(outbound, [kind |-> "reply", request |-> Head(stdout).request])
          /\ UNCHANGED callVars
      BY <1>14, <2>3 DEF ReadAutoRequest
    <3>2. \A i \in 1..Len(outbound') : outbound'[i].kind = "request" => Filed(outbound'[i])
      BY <1>1, <3>1, AppendElements DEF TypeOK
    <3>3. QED BY <1>1, <1>7, <2>1, <3>1, <3>2, QuietIInv
  <2>4. QED BY <2>2, <2>3
<1>15. CASE ReadBadLine
  BY <1>1, <1>7, <1>15, DrainIInv DEF ReadBadLine, ReaderLine, ConsumeLine
<1>16. CASE ReadEof
  BY <1>1, <1>16, DrainIInv DEF ReadEof
<1>17. CASE HostListen \/ HostRecv \/ HostStreamEnd \/ ServerExit
  BY <1>1, <1>17, QuietIInv DEF HostListen, HostRecv, HostStreamEnd, HostUnchanged, ServerExit
<1>18. ASSUME NEW r \in UserRequests, HostReply(r) PROVE IInv'
  <2>1. \A i \in 1..Len(outbound') : outbound'[i].kind = "request" => Filed(outbound'[i])
    BY <1>1, <1>18, AppendElements DEF TypeOK, HostReply
  <2>2. QED BY <1>1, <1>18, <2>1, QuietIInv DEF HostReply
<1>19. CASE HostNotify
  <2>1. \A i \in 1..Len(outbound') : outbound'[i].kind = "request" => Filed(outbound'[i])
    BY <1>1, <1>19, AppendElements DEF TypeOK, HostNotify
  <2>2. QED BY <1>1, <1>19, <2>1, QuietIInv DEF HostNotify
<1>20. CASE DropClient
  <2>1. /\ DOMAIN pending' = {} /\ Len(outbound') = 0 /\ Len(stdout') = 0
        /\ UNCHANGED <<callPc, reqId, answer, nextId, inbox>>
    BY <1>20, EmptyTable DEF DropClient
  <2>2. IdsDistinct' /\ SlotsFresh' /\ Correlated' /\ PendingUnsettled'
    BY <2>1 DEF IInv, IdsDistinct, SlotsFresh, Correlated, PendingUnsettled
  <2>3. WireFaithful'
    BY <1>1, <2>1 DEF WireFaithful, Filed
  <2>4. QED BY <2>2, <2>3 DEF IInv
<1>21. ASSUME NEW m \in inbox, NEW tag \in {"ok", "rpc"},
              ServerAnswer(m, tag) \/ ServerRepeat(m)
       PROVE  IInv'
  <2>1. PICK u \in {"ok", "rpc"} :
          stdout' = Append(stdout, [kind |-> "response", id |-> m.id, call |-> m.call, tag |-> u])
    BY <1>21 DEF ServerAnswer, ServerRepeat
  <2>2. Filed([kind |-> "response", id |-> m.id, call |-> m.call, tag |-> u])
    BY <1>1 DEF Filed
  <2>3. \A i \in 1..Len(stdout') : stdout'[i].kind = "response" => Filed(stdout'[i])
    BY <1>1, <2>1, <2>2, AppendElements DEF TypeOK
  <2>4. QED BY <1>1, <1>21, <2>3, QuietIInv DEF ServerAnswer, ServerRepeat, ServerUnchanged
<1>22. ASSUME NEW l, l.kind # "response", stdout' = Append(stdout, l), ServerUnchanged
       PROVE  IInv'
  <2>1. \A i \in 1..Len(stdout') : stdout'[i].kind = "response" => Filed(stdout'[i])
    BY <1>1, <1>22, AppendElements DEF TypeOK
  <2>2. QED BY <1>1, <1>22, <2>1, QuietIInv DEF ServerUnchanged
<1>23. ASSUME NEW kind \in {"notification", "bad"}, ServerEmit(kind) PROVE IInv'
  BY <1>22, <1>23 DEF ServerEmit
<1>24. ASSUME NEW r \in Requests, ServerAsk(r) PROVE IInv'
  BY <1>22, <1>24 DEF ServerAsk
<1>25. CASE UNCHANGED vars
  BY <1>1, <1>25, QuietIInv DEF vars
<1>26. CASE Server
  BY <1>17, <1>21, <1>23, <1>24, <1>26 DEF Server
<1>27. QED
  BY <1>2, <1>3, <1>4, <1>5, <1>9, <1>10, <1>11, <1>12, <1>13, <1>14, <1>15, <1>16, <1>17,
     <1>18, <1>19, <1>20, <1>25, <1>26
  DEF Next, Caller, Writer, Reader, Host, Tasks

\* Every result a request() future returns is the server's result for that very
\* request, for any interleaving of callers, reader, writer and server.
THEOREM AnswersCorrelate == Spec => []Correlated
<1>1. Spec => [](TypeOK /\ IInv)
  BY InitTypeOK, StepTypeOK, InitIInv, StepIInv, PTL DEF Spec
<1>2. IInv => Correlated
  BY DEF IInv
<1>3. QED BY <1>1, <1>2, PTL

\* The pending table never holds a settled call, so nothing can answer one twice.
THEOREM TableUnsettled == Spec => []PendingUnsettled
<1>1. Spec => [](TypeOK /\ IInv)
  BY InitTypeOK, StepTypeOK, InitIInv, StepIInv, PTL DEF Spec
<1>2. IInv => PendingUnsettled
  BY DEF IInv
<1>3. QED BY <1>1, <1>2, PTL

\* An answer, once a future has it, is never replaced: not by a repeated
\* response, not by the disconnect of the other I/O task, not by a failed send.
THEOREM AnswersFinal == Spec => AnswerOnce
<1> DEFINE Final == \A c \in Calls : answer[c].tag # "none" => answer'[c] = answer[c]
<1>1. ASSUME TypeOK, IInv, [Next]_vars PROVE Final
  <2> USE DEF callVars
  <2>1. ASSUME DrainPending PROVE Final
    BY <1>1, <2>1 DEF DrainPending, IInv, PendingUnsettled
  <2>2. ASSUME NEW c \in Calls, SendFailed(c) PROVE Final
    BY <1>1, <2>2 DEF SendFailed, IInv, SlotsFresh, NoAnswer, TypeOK
  <2>3. CASE ReadResponse
    <3>1. CASE Head(stdout).id \in DOMAIN pending
      <4>1. answer[pending[Head(stdout).id]].tag = "none"
        BY <1>1, <3>1 DEF IInv, PendingUnsettled
      <4>2. \/ answer' = answer
            \/ answer' = [answer EXCEPT ![pending[Head(stdout).id]] =
                            [tag |-> Head(stdout).tag, call |-> Head(stdout).call]]
        BY <2>3, <3>1 DEF ReadResponse
      <4>3. QED BY <1>1, <4>1, <4>2 DEF TypeOK
    <3>2. CASE Head(stdout).id \notin DOMAIN pending
      BY <2>3, <3>2 DEF ReadResponse
    <3>3. QED BY <3>1, <3>2
  <2>4. CASE WriterFail \/ ReadAutoRequest \/ ReadBadLine \/ ReadEof
    BY <2>1, <2>4 DEF WriterFail, ReadAutoRequest, ReadBadLine, ReadEof
  <2>5. ASSUME NEW c \in Calls, Register(c) \/ SendOk(c) \/ Finish(c) \/ Cancel(c) PROVE Final
    BY <2>5 DEF Register, SendOk, Finish, Cancel
  <2>6. CASE WriterWrite \/ WriterBreak \/ \E t \in Tasks : Announce(t) \/ Close(t)
    BY <2>6 DEF WriterWrite, WriterBreak, Announce, Close
  <2>7. CASE ReadNotification \/ ReadUserRequest
    BY <2>7 DEF ReadNotification, ReadUserRequest
  <2>8. CASE Host
    BY <2>8 DEF Host, HostListen, HostRecv, HostStreamEnd, HostNotify, DropClient, HostReply,
       HostUnchanged
  <2>9. CASE Server
    BY <2>9 DEF Server, ServerAnswer, ServerRepeat, ServerEmit, ServerAsk, ServerExit,
       ServerUnchanged
  <2>10. CASE UNCHANGED vars
    BY <2>10 DEF vars
  <2>11. QED
    BY <1>1, <2>2, <2>3, <2>4, <2>5, <2>6, <2>7, <2>8, <2>9, <2>10
    DEF Next, Caller, Writer, Reader, Tasks
<1>2. Spec => [](TypeOK /\ IInv)
  BY InitTypeOK, StepTypeOK, InitIInv, StepIInv, PTL DEF Spec
<1>3. QED BY <1>1, <1>2, PTL DEF Spec, AnswerOnce

(***************************************************************************)
(* The end of the stream, with one I/O thread.                             *)
(***************************************************************************)

\* The stream as it is while nobody sends to it or takes from it.
LEMMA QuietStream ==
  ASSUME StreamInv, UNCHANGED <<events, eventsOpen, heardEnd, io>>,
         host' = host \/ (host = "handshake" /\ host' = "listening")
  PROVE  StreamInv'
  BY DEF StreamInv, OneDisconnects, Busy, CloseAfterEnd, EndSent, EndAnnouncedLast

\* A task that runs, with one thread, is alone in disconnect().
LEMMA AloneInDisconnect ==
  ASSUME IoThreads = 1, NEW t \in Tasks, HasThread(t)
  PROVE  ~Busy(Other(t))
  BY DEF HasThread, Busy

\* A task leaves its loop, or the reader returns, and the stream is as it was.
LEMMA TaskStream ==
  ASSUME IoThreads = 1, TypeOK, StreamInv, NEW t \in Tasks, HasThread(t),
         io[t] \in {"run", "break"},
         NEW pc \in {"announce", "break", "ended"}, io' = [io EXCEPT ![t] = pc],
         UNCHANGED <<events, eventsOpen, heardEnd, host>>
  PROVE  StreamInv'
<1>1. OneDisconnects'
  BY AloneInDisconnect DEF StreamInv, OneDisconnects, Busy, Other, Tasks, TypeOK
<1>2. \A u \in Tasks : io'[u] = "close" <=> io[u] = "close"
  BY DEF TypeOK
<1>3. CloseAfterEnd'
  BY <1>2 DEF StreamInv, CloseAfterEnd, EndSent
<1>4. EndAnnouncedLast'
  BY DEF StreamInv, EndAnnouncedLast
<1>5. QED BY <1>1, <1>3, <1>4 DEF StreamInv

\* Nothing is sent after Event::Disconnected: whoever could send it waits for its thread.
LEMMA OpenNotEnded ==
  ASSUME IoThreads = 1, TypeOK, StreamInv, NEW t \in Tasks, HasThread(t), io[t] # "close",
         eventsOpen
  PROVE  ~EndSent
  BY AloneInDisconnect DEF StreamInv, CloseAfterEnd, Busy, Other, Tasks

\* The reader sends an event, or finds the stream closed and returns.
LEMMA EmitStream ==
  ASSUME IoThreads = 1, TypeOK, StreamInv, ReaderReady, NEW e \in Event,
         e.kind # "disconnected", Emit(e), UNCHANGED <<eventsOpen, heardEnd, host>>
  PROVE  StreamInv'
<1>1. HasThread("reader") /\ io["reader"] = "run" /\ "reader" \in Tasks
  BY DEF ReaderReady, Tasks
<1>2. CASE eventsOpen
  <2>1. events' = Append(events, e) /\ io' = io
    BY <1>2 DEF Emit
  <2>2. ~EndSent
    BY <1>1, <1>2, OpenNotEnded
  <2>3. \A i \in 1..Len(events') : events'[i].kind # "disconnected"
    BY <2>1, <2>2, AppendElements DEF EndSent, TypeOK
  <2>4. ~EndSent'
    BY <2>2, <2>3 DEF EndSent
  <2>5. CloseAfterEnd'
    BY <1>2, <2>1, <2>2, <2>4 DEF StreamInv, CloseAfterEnd
  <2>6. EndAnnouncedLast'
    BY <2>2, <2>3 DEF StreamInv, EndAnnouncedLast, EndSent
  <2>7. QED BY <2>1, <2>5, <2>6 DEF StreamInv, OneDisconnects, Busy
<1>3. CASE ~eventsOpen
  <2>1. io' = [io EXCEPT !["reader"] = "ended"] /\ events' = events
    BY <1>3 DEF Emit
  <2>2. QED BY <1>1, <2>1, TaskStream
<1>4. QED BY <1>2, <1>3

\* disconnect() sends Event::Disconnected when the stream is open, and nothing otherwise.
LEMMA AnnounceStream ==
  ASSUME IoThreads = 1, TypeOK, StreamInv, NEW t \in Tasks, Announce(t)
  PROVE  StreamInv'
<1> USE DEF Announce, hostVars
<1>1. io[t] = "announce" /\ HasThread(t) /\ io' = [io EXCEPT ![t] = "close"]
      /\ UNCHANGED <<eventsOpen, heardEnd, host>>
  OBVIOUS
<1>2. OneDisconnects'
  BY <1>1, AloneInDisconnect DEF StreamInv, OneDisconnects, Busy, Other, Tasks, TypeOK
<1>3. io'[t] = "close"
  BY DEF TypeOK
<1>4. CASE eventsOpen
  <2> DEFINE e == [kind |-> "disconnected"]
  <2>1. ~EndSent
    BY <1>1, <1>4, OpenNotEnded
  <2>2. events' = Append(events, e) /\ Len(events') = Len(events) + 1
        /\ events'[Len(events) + 1] = e /\ Len(events) \in Nat
        /\ \A i \in 1..Len(events) : events'[i] = events[i]
    BY <1>4 DEF TypeOK
  <2>3. EndSent'
    BY <2>2 DEF EndSent
  <2>4. \A i \in 1..Len(events') : events'[i].kind = "disconnected" => i = Len(events')
    BY <2>1, <2>2 DEF EndSent
  <2>5. EndAnnouncedLast'
    BY <1>1, <2>1, <2>4 DEF StreamInv, EndAnnouncedLast, EndSent
  <2>6. CloseAfterEnd'
    BY <1>3, <2>3 DEF CloseAfterEnd
  <2>7. QED BY <1>2, <2>5, <2>6 DEF StreamInv
<1>5. CASE ~eventsOpen
  <2>1. UNCHANGED events
    BY <1>5
  <2>2. EndSent
    BY <1>1, <1>5 DEF StreamInv, CloseAfterEnd
  <2>3. QED BY <1>1, <1>2, <1>5, <2>1, <2>2 DEF StreamInv, CloseAfterEnd, EndAnnouncedLast, EndSent
<1>6. QED BY <1>4, <1>5

\* events.close() comes after Event::Disconnected.
LEMMA CloseStream ==
  ASSUME IoThreads = 1, TypeOK, StreamInv, NEW t \in Tasks, Close(t)
  PROVE  StreamInv'
<1> USE DEF Close, hostVars
<1>1. OneDisconnects'
  BY AloneInDisconnect DEF StreamInv, OneDisconnects, Busy, Other, Tasks, TypeOK
<1>2. EndSent /\ EndSent'
  BY DEF StreamInv, CloseAfterEnd, EndSent
<1>3. CloseAfterEnd' /\ EndAnnouncedLast'
  BY <1>2 DEF StreamInv, CloseAfterEnd, EndAnnouncedLast
<1>4. QED BY <1>1, <1>3 DEF StreamInv

\* The host takes the head of the stream; when it is Event::Disconnected it was the last.
LEMMA RecvStream == ASSUME TypeOK, StreamInv, HostRecv PROVE StreamInv'
<1>1. events # <<>> /\ events \in Seq(Event) /\ events' = Tail(events)
      /\ UNCHANGED <<io, eventsOpen, host>>
      /\ heardEnd' = (heardEnd \/ events[1].kind = "disconnected")
  BY DEF HostRecv, TypeOK
<1>2. ~heardEnd
  BY <1>1 DEF StreamInv, EndAnnouncedLast
<1>3. Len(events) \in Nat \ {0} /\ Len(events') = Len(events) - 1
      /\ \A i \in 1..Len(events') : events'[i] = events[i + 1]
  BY <1>1
<1>4. EndSent' <=> EndSent
  <2>1. ASSUME NEW i \in 1..Len(events), events[i].kind = "disconnected" PROVE EndSent'
    <3>1. CASE i = 1
      BY <1>1, <2>1, <3>1 DEF EndSent
    <3>2. CASE i # 1
      <4>1. i - 1 \in 1..Len(events') /\ events'[i - 1] = events[i]
        BY <1>3, <3>2
      <4>2. QED BY <2>1, <4>1 DEF EndSent
    <3>3. QED BY <3>1, <3>2
  <2>2. ASSUME NEW i \in 1..Len(events'), events'[i].kind = "disconnected" PROVE EndSent
    <3>1. i + 1 \in 1..Len(events) /\ events[i + 1].kind = "disconnected"
      BY <1>3, <2>2
    <3>2. QED BY <3>1 DEF EndSent
  <2>3. ASSUME events[1].kind = "disconnected" PROVE EndSent
    BY <1>3, <2>3 DEF EndSent
  <2>4. QED BY <1>1, <1>2, <2>1, <2>2, <2>3 DEF EndSent
<1>5. CloseAfterEnd'
  BY <1>1, <1>4 DEF StreamInv, CloseAfterEnd
<1>6. EndAnnouncedLast'
  <2>1. ASSUME NEW i \in 1..Len(events'), events'[i].kind = "disconnected"
        PROVE  i = Len(events')
    <3>1. i + 1 \in 1..Len(events) /\ events[i + 1].kind = "disconnected"
      BY <1>3, <2>1
    <3>2. i + 1 = Len(events)
      BY <3>1 DEF StreamInv, EndAnnouncedLast
    <3>3. QED BY <1>3, <3>2
  <2>2. heardEnd' => events' = <<>>
    <3>1. heardEnd' => Len(events) = 1
      <4>1. 1 \in 1..Len(events)
        BY <1>3
      <4>2. events[1].kind = "disconnected" => 1 = Len(events)
        BY <4>1 DEF StreamInv, EndAnnouncedLast
      <4>3. QED BY <1>1, <1>2, <4>2
    <3>2. QED BY <1>1, <1>3, <3>1
  <2>3. host' = "ended" => heardEnd'
    BY <1>1, <1>2 DEF StreamInv, EndAnnouncedLast
  <2>4. QED BY <2>1, <2>2, <2>3 DEF EndAnnouncedLast
<1>7. QED BY <1>1, <1>5, <1>6 DEF StreamInv, OneDisconnects, Busy

\* Every step with one I/O thread keeps the order of the end of the stream.
LEMMA StepStreamInv ==
  ASSUME IoThreads = 1, TypeOK, StreamInv, [Next]_vars
  PROVE  StreamInv'
<1> USE DEF callVars, eventVars, hostVars, serverVars
<1>1. CASE \E c \in Calls : Caller(c)
  BY <1>1, QuietStream DEF Caller, Register, SendOk, SendFailed, Finish, Cancel
<1>2. CASE \E t \in Tasks : Announce(t) \/ Close(t)
  BY <1>2, AnnounceStream, CloseStream
<1>3. CASE WriterWrite
  BY <1>3, QuietStream DEF WriterWrite
<1>4. CASE WriterFail \/ WriterBreak
  <2>1. PICK pc \in {"announce", "ended"} : io' = [io EXCEPT !["writer"] = pc]
    BY <1>4 DEF WriterFail, WriterBreak
  <2>2. HasThread("writer") /\ io["writer"] \in {"run", "break"} /\ "writer" \in Tasks
        /\ UNCHANGED <<events, eventsOpen, heardEnd, host>>
    BY <1>4 DEF WriterFail, WriterBreak, WriterReady, Tasks
  <2>3. QED BY <2>1, <2>2, TaskStream
<1>5. CASE ReadNotification
  <2>1. [kind |-> "notification"] \in Event
    BY DEF Event
  <2>2. QED BY <1>5, <2>1, EmitStream DEF ReadNotification, ReaderLine
<1>6. CASE ReadUserRequest
  <2>1. [kind |-> "request", request |-> Head(stdout).request] \in Event
    BY <1>6 DEF ReadUserRequest, Event
  <2>2. QED BY <1>6, <2>1, EmitStream DEF ReadUserRequest, ReaderLine
<1>7. CASE ReadResponse
  <2>1. [kind |-> "unmatched"] \in Event
    BY DEF Event
  <2>2. ReaderReady /\ UNCHANGED <<eventsOpen, heardEnd, host>>
    BY <1>7 DEF ReadResponse, ReaderLine
  <2>3. Emit([kind |-> "unmatched"]) \/ UNCHANGED <<io, events>>
    BY <1>7 DEF ReadResponse
  <2>4. QED BY <2>1, <2>2, <2>3, EmitStream, QuietStream
<1>8. CASE ReadAutoRequest \/ ReadBadLine \/ ReadEof
  <2>1. HasThread("reader") /\ io["reader"] = "run" /\ "reader" \in Tasks
        /\ UNCHANGED <<events, eventsOpen, heardEnd, host>>
    BY <1>8 DEF ReadAutoRequest, ReadBadLine, ReadEof, ReaderLine, ReaderReady, Tasks
  <2>2. UNCHANGED io \/ io' = [io EXCEPT !["reader"] = "announce"]
    BY <1>8 DEF ReadAutoRequest, ReadBadLine, ReadEof
  <2>3. QED BY <2>1, <2>2, TaskStream, QuietStream
<1>9. CASE HostRecv
  BY <1>9, RecvStream
<1>10. CASE HostListen \/ HostNotify \/ \E r \in UserRequests : HostReply(r)
  BY <1>10, QuietStream DEF HostListen, HostNotify, HostReply, HostUnchanged
<1>11. CASE HostStreamEnd
  <2>1. events = <<>> /\ ~eventsOpen /\ host = "listening"
        /\ UNCHANGED <<events, eventsOpen, heardEnd, io>> /\ host' = "ended"
    BY <1>11 DEF HostStreamEnd, HostUnchanged
  <2>2. heardEnd
    BY <2>1 DEF StreamInv, CloseAfterEnd, EndSent
  <2>3. QED
    BY <2>1, <2>2 DEF StreamInv, OneDisconnects, Busy, CloseAfterEnd, EndSent, EndAnnouncedLast
<1>12. CASE DropClient
  <2>1. events' = <<>> /\ ~eventsOpen' /\ host' = "dropped" /\ io' = [t \in Tasks |-> "ended"]
    BY <1>12 DEF DropClient
  <2>2. QED BY <2>1 DEF StreamInv, OneDisconnects, Busy, Other, CloseAfterEnd, EndAnnouncedLast
<1>13. CASE Server
  BY <1>13, QuietStream DEF Server, ServerAnswer, ServerRepeat, ServerEmit, ServerAsk,
     ServerExit, ServerUnchanged
<1>14. CASE UNCHANGED vars
  BY <1>14, QuietStream DEF vars
<1>15. QED
  BY <1>1, <1>2, <1>3, <1>4, <1>5, <1>6, <1>7, <1>8, <1>9, <1>10, <1>11, <1>12, <1>13, <1>14
  DEF Next, Writer, Reader, Host, Tasks

\* With one I/O thread, the default, the host's stream ends with Event::Disconnected and
\* with nothing behind it, whichever of the reader and the writer fails first and however
\* many calls, requests and lines are on their way: HarnessApp always learns of the end.
THEOREM StreamEndAnnounced == ASSUME IoThreads = 1 PROVE Spec => []EndAnnouncedLast
<1>1. Init => StreamInv
  BY DEF Init, StreamInv, OneDisconnects, Busy, CloseAfterEnd, EndSent, EndAnnouncedLast, Tasks
<1>2. TypeOK /\ StreamInv /\ [Next]_vars => StreamInv'
  BY StepStreamInv
<1>3. StreamInv => EndAnnouncedLast
  BY DEF StreamInv
<1>4. QED BY <1>1, <1>2, <1>3, TypeCorrect, PTL DEF Spec

(***************************************************************************)
(* Requests that the client answers itself.                                *)
(***************************************************************************)

\* The line that asks r, and the message that answers it.
Asking(r) == [kind |-> "request", request |-> r]
Replying(r) == [kind |-> "reply", request |-> r]

\* An element other than the head stays in a queue whose head is taken.
LEMMA StaysInTail ==
  ASSUME NEW S, NEW q \in Seq(S), q # <<>>, NEW x, x # Head(q),
         \E i \in 1..Len(q) : q[i] = x
  PROVE  \E i \in 1..Len(Tail(q)) : Tail(q)[i] = x
<1>1. PICK i \in 1..Len(q) : q[i] = x
  OBVIOUS
<1>2. i # 1 /\ i - 1 \in 1..Len(Tail(q)) /\ Tail(q)[i - 1] = q[i]
  BY <1>1
<1>3. QED BY <1>1, <1>2

\* An element stays in a queue that something is appended to, which is in it.
LEMMA StaysInAppend ==
  ASSUME NEW S, NEW q \in Seq(S), NEW e
  PROVE  /\ \A x : (\E i \in 1..Len(q) : q[i] = x)
                     => \E i \in 1..Len(Append(q, e)) : Append(q, e)[i] = x
         /\ \E i \in 1..Len(Append(q, e)) : Append(q, e)[i] = e
<1>1. /\ Len(Append(q, e)) = Len(q) + 1 /\ Len(q) \in Nat
      /\ \A i \in 1..Len(q) : Append(q, e)[i] = q[i]
      /\ Append(q, e)[Len(q) + 1] = e
  OBVIOUS
<1>2. ASSUME NEW x, NEW i \in 1..Len(q), q[i] = x
      PROVE  \E j \in 1..Len(Append(q, e)) : Append(q, e)[j] = x
  BY <1>1, <1>2
<1>3. Len(q) + 1 \in 1..Len(Append(q, e))
  BY <1>1
<1>4. QED BY <1>1, <1>2, <1>3

\* They are on their way.
InStdout(r) == \E i \in 1..Len(stdout) : stdout[i] = Asking(r)
InOutbound(r) == \E i \in 1..Len(outbound) : outbound[i] = Replying(r)

\* Every step keeps track of what the child asked the client itself.
LEMMA StepAutoRequest == ASSUME TypeOK, AutoRequestKept, [Next]_vars PROVE AutoRequestKept'
<1> USE DEF callVars, eventVars, hostVars, serverVars
<1> SUFFICES ASSUME NEW r \in AutoRequests, r \in asked', alive', io'["reader"] = "run"
             PROVE  r \in replied' \/ InStdout(r)' \/ InOutbound(r)'
  BY DEF AutoRequestKept, InStdout, InOutbound, Asking, Replying
<1>1. r \in asked /\ alive /\ io["reader"] = "run"
        => r \in replied \/ InStdout(r) \/ InOutbound(r)
  BY DEF AutoRequestKept, InStdout, InOutbound, Asking, Replying
<1>2. outbound \in Seq(Message) /\ stdout \in Seq(Line)
  BY DEF TypeOK
<1>3. ASSUME UNCHANGED <<asked, alive, replied, stdout>>, io["reader"] = "run",
             outbound' = outbound \/ \E m : outbound' = Append(outbound, m)
      PROVE  r \in replied' \/ InStdout(r)' \/ InOutbound(r)'
  BY <1>1, <1>2, <1>3, StaysInAppend DEF InStdout, InOutbound
<1>4. CASE \E c \in Calls : Caller(c)
  <2>1. UNCHANGED <<asked, alive, replied, stdout, io>>
        /\ (outbound' = outbound \/ \E m : outbound' = Append(outbound, m))
    BY <1>4 DEF Caller, Register, SendOk, SendFailed, Finish, Cancel
  <2>2. QED BY <1>3, <2>1
<1>5. CASE WriterWrite
  <2>1. outbound # <<>> /\ outbound' = Tail(outbound)
        /\ UNCHANGED <<asked, alive, stdout, io>>
        /\ replied' = IF Head(outbound).kind = "reply"
                      THEN replied \cup {Head(outbound).request} ELSE replied
    BY <1>5 DEF WriterWrite, WriterReady
  <2>2. CASE Head(outbound) = Replying(r)
    BY <2>1, <2>2 DEF Replying
  <2>3. CASE Head(outbound) # Replying(r)
    <3>1. InOutbound(r) => InOutbound(r)'
      BY <1>2, <2>1, <2>3, StaysInTail DEF InOutbound
    <3>2. QED BY <1>1, <2>1, <3>1 DEF InStdout
  <2>4. QED BY <2>2, <2>3
<1>6. CASE WriterFail
  BY <1>6 DEF WriterFail
<1>7. CASE WriterBreak \/ \E t \in Tasks : Announce(t) \/ Close(t)
  <2>1. UNCHANGED <<asked, alive, replied, stdout, outbound>>
    BY <1>7 DEF WriterBreak, Announce, Close
  <2>2. io["reader"] = "run"
    BY <1>7 DEF WriterBreak, Announce, Close, TypeOK, Tasks
  <2>3. QED BY <1>3, <2>1, <2>2
<1>8. CASE ReadResponse \/ ReadNotification \/ ReadUserRequest
  <2>1. UNCHANGED <<asked, alive, replied, outbound>> /\ stdout' = Tail(stdout)
        /\ io["reader"] = "run" /\ stdout # <<>>
    BY <1>8 DEF ReadResponse, ReadNotification, ReadUserRequest, ConsumeLine, ReaderLine,
       ReaderReady
  <2>2. Head(stdout) # Asking(r)
    <3>1. CASE ReadResponse \/ ReadNotification
      BY <3>1 DEF ReadResponse, ReadNotification, ReaderLine, Asking
    <3>2. CASE ReadUserRequest
      BY <3>2, ConstantsAssumption DEF ReadUserRequest, Asking
    <3>3. QED BY <1>8, <3>1, <3>2
  <2>3. InStdout(r) => InStdout(r)'
    BY <1>2, <2>1, <2>2, StaysInTail DEF InStdout
  <2>4. QED BY <1>1, <2>1, <2>3 DEF InOutbound
<1>9. CASE ReadAutoRequest
  <2>1. UNCHANGED <<asked, alive, replied>> /\ stdout' = Tail(stdout)
        /\ io["reader"] = "run" /\ stdout # <<>>
    BY <1>9 DEF ReadAutoRequest, ConsumeLine, ReaderLine, ReaderReady
  <2>2. ~OutboundClosed /\ outbound' = Append(outbound, Replying(Head(stdout).request))
    BY <1>9 DEF ReadAutoRequest, TypeOK, Tasks, Replying
  <2>3. CASE Head(stdout) = Asking(r)
    <3>1. Head(stdout).request = r
      BY <2>3 DEF Asking
    <3>2. QED BY <1>2, <2>2, <3>1, StaysInAppend DEF InOutbound
  <2>4. CASE Head(stdout) # Asking(r)
    <3>1. InStdout(r) => InStdout(r)'
      BY <1>2, <2>1, <2>4, StaysInTail DEF InStdout
    <3>2. InOutbound(r) => InOutbound(r)'
      BY <1>2, <2>2, StaysInAppend DEF InOutbound
    <3>3. QED BY <1>1, <2>1, <3>1, <3>2
  <2>5. QED BY <2>3, <2>4
<1>10. CASE ReadBadLine \/ ReadEof
  <2>1. io'["reader"] = "announce"
    BY <1>10 DEF ReadBadLine, ReadEof, TypeOK, Tasks
  <2>2. QED BY <2>1
<1>11. CASE \/ HostListen \/ HostRecv \/ HostStreamEnd \/ HostNotify
            \/ \E u \in UserRequests : HostReply(u)
  <2>1. UNCHANGED <<asked, alive, replied, stdout, io>>
        /\ (outbound' = outbound \/ \E m : outbound' = Append(outbound, m))
    BY <1>11 DEF HostListen, HostRecv, HostStreamEnd, HostNotify, HostReply, HostUnchanged
  <2>2. QED BY <1>3, <2>1
<1>12. CASE DropClient
  BY <1>12 DEF DropClient
<1>13. CASE Server
  <2>1. UNCHANGED <<io, outbound, replied>> /\ (alive' => alive)
    BY <1>13 DEF Server, ServerAnswer, ServerRepeat, ServerEmit, ServerAsk, ServerExit,
       ServerUnchanged
  <2>2. stdout' = stdout \/ \E l : stdout' = Append(stdout, l)
    BY <1>13 DEF Server, ServerAnswer, ServerRepeat, ServerEmit, ServerAsk, ServerExit,
       ServerUnchanged
  <2>3. InStdout(r) => InStdout(r)'
    BY <1>2, <2>2, StaysInAppend DEF InStdout
  <2>4. r \in asked \/ stdout' = Append(stdout, Asking(r))
    BY <1>13 DEF Server, ServerAnswer, ServerRepeat, ServerEmit, ServerAsk, ServerExit,
       ServerUnchanged, Asking
  <2>5. r \notin asked => InStdout(r)'
    BY <1>2, <2>4, StaysInAppend DEF InStdout
  <2>6. QED BY <1>1, <2>1, <2>3, <2>5 DEF InOutbound
<1>14. CASE UNCHANGED vars
  BY <1>3, <1>14 DEF vars
<1>15. QED
  BY <1>4, <1>5, <1>6, <1>7, <1>8, <1>9, <1>10, <1>11, <1>12, <1>13, <1>14
  DEF Next, Writer, Reader, Host, Tasks

\* A request that the client answers itself, such as a token refresh, is never dropped while
\* the child and the reader run: for any number of requests and any traffic it waits in
\* stdout, its reply waits in the writer's queue, or the child has the reply.
THEOREM AutoRequestNotDropped == Spec => []AutoRequestKept
<1>1. Init => AutoRequestKept
  BY DEF Init, AutoRequestKept
<1>2. TypeOK /\ AutoRequestKept /\ [Next]_vars => AutoRequestKept'
  BY StepAutoRequest
<1>3. QED BY <1>1, <1>2, TypeCorrect, PTL DEF Spec
============================================================================
