------------------------- MODULE CallContractProofs ------------------------
(***************************************************************************)
(* Proof that AppServerClient implements CallContract, for any number of   *)
(* calls, requests and I/O threads.                                        *)
(***************************************************************************)
EXTENDS AppServerClientProofs

(***************************************************************************)
(* The mapping.                                                            *)
(***************************************************************************)

\* When a call is open, and when it is not.
LEMMA OpenMeans ==
  ASSUME NEW c \in Calls
  PROVE  Outcome[c] = "open" <=> callPc[c] \notin {"idle", "dropped"} /\ answer[c].tag = "none"
  BY DEF Outcome

\* A step that touches neither the progress nor the slot of a call leaves its outcome.
LEMMA SameOutcome ==
  /\ \A c \in Calls : callPc'[c] = callPc[c] /\ answer'[c] = answer[c] => Outcome'[c] = Outcome[c]
  /\ UNCHANGED <<callPc, answer>> => UNCHANGED Outcome
  BY DEF Outcome

\* A step that changes the outcome of one call.
LEMMA OneOutcome ==
  ASSUME NEW c \in Calls, NEW v, \A d \in Calls : d # c => Outcome'[d] = Outcome[d],
         Outcome'[c] = v
  PROVE  Outcome' = [Outcome EXCEPT ![c] = v]
<1>1. Outcome = [d \in Calls |-> Outcome[d]] /\ Outcome' = [d \in Calls |-> Outcome'[d]]
  BY DEF Outcome
<1>2. DOMAIN Outcome = Calls
  BY DEF Outcome
<1> HIDE DEF Outcome
<1>3. [Outcome EXCEPT ![c] = v] = [d \in Calls |-> Outcome'[d]]
  BY <1>1, <1>2
<1>4. QED BY <1>1, <1>3

\* A drain closes the open calls and leaves the others as they were.
LEMMA DrainOutcome ==
  ASSUME TypeOK, IInv, OpenIsFiled, DrainPending
  PROVE  Outcome' = [c \in Calls |-> IF Outcome[c] = "open" THEN "closed" ELSE Outcome[c]]
<1>1. ASSUME NEW c \in Calls, Outcome[c] = "open" PROVE Outcome'[c] = "closed"
  <2>1. reqId[c] \in DOMAIN pending /\ pending[reqId[c]] = c /\ callPc[c] \notin {"idle", "dropped"}
    BY <1>1, OpenMeans DEF OpenIsFiled
  <2>2. answer'[c] = TransportClosed /\ callPc' = callPc
    BY <2>1 DEF DrainPending
  <2>3. QED BY <2>1, <2>2 DEF Outcome, TransportClosed
<1>2. ASSUME NEW c \in Calls, Outcome[c] # "open" PROVE Outcome'[c] = Outcome[c]
  <2>1. ~\E i \in DOMAIN pending : pending[i] = c /\ callPc[c] # "dropped"
    BY <1>2, OpenMeans DEF IInv, PendingUnsettled
  <2>2. answer'[c] = answer[c] /\ callPc' = callPc
    BY <2>1 DEF DrainPending
  <2>3. QED BY <2>2, SameOutcome
<1>3. QED BY <1>1, <1>2 DEF Outcome

(***************************************************************************)
(* The invariant of the refinement.                                        *)
(***************************************************************************)

\* It holds initially.
LEMMA InitContractInv == Init => ContractInv
<1> SUFFICES ASSUME Init PROVE ContractInv
  OBVIOUS
<1>1. \A c \in Calls : Outcome[c] # "open"
  BY OpenMeans DEF Init
<1>2. Len(stdout) = 0 /\ eventsOpen
  BY DEF Init
<1>3. QED BY <1>1, <1>2 DEF ContractInv, OpenIsFiled, LinesServed, ClosedIsBroken

\* Steps that leave the calls alone.
LEMMA QuietFiled == ASSUME OpenIsFiled, UNCHANGED callVars PROVE OpenIsFiled'
  BY SameOutcome DEF OpenIsFiled, callVars

\* A drain leaves nothing open.
LEMMA DrainFiled == ASSUME TypeOK, IInv, OpenIsFiled, DrainPending PROVE OpenIsFiled'
<1>1. \A c \in Calls : Outcome'[c] # "open"
  BY DrainOutcome
<1>2. QED BY <1>1 DEF OpenIsFiled

\* What a step does to the tasks: one of them fails or goes on failing, or both are gone.
LEMMA TaskSteps ==
  ASSUME TypeOK, [Next]_vars
  PROVE  \/ io' = io
         \/ \E u \in Tasks, pc \in {"announce", "close", "break", "ended"} :
              io' = [io EXCEPT ![u] = pc]
         \/ io' = [t \in Tasks |-> "ended"]
<1> USE DEF callVars, eventVars, hostVars, serverVars, Tasks
<1>1. CASE \E c \in Calls : Caller(c)
  BY <1>1 DEF Caller, Register, SendOk, SendFailed, Finish, Cancel
<1>2. CASE WriterWrite \/ WriterFail \/ WriterBreak
  BY <1>2 DEF WriterWrite, WriterFail, WriterBreak
<1>3. CASE \E t \in Tasks : Announce(t) \/ Close(t)
  BY <1>3 DEF Announce, Close
<1>4. CASE ReadResponse \/ ReadNotification \/ ReadUserRequest
  BY <1>4 DEF ReadResponse, ReadNotification, ReadUserRequest, Emit
<1>5. CASE ReadAutoRequest \/ ReadBadLine \/ ReadEof
  BY <1>5 DEF ReadAutoRequest, ReadBadLine, ReadEof
<1>6. CASE Host
  BY <1>6 DEF Host, HostListen, HostRecv, HostStreamEnd, HostNotify, DropClient, HostReply,
     HostUnchanged
<1>7. CASE Server
  BY <1>7 DEF Server, ServerAnswer, ServerRepeat, ServerEmit, ServerAsk, ServerExit,
     ServerUnchanged
<1>8. CASE UNCHANGED vars
  BY <1>8 DEF vars
<1>9. QED
  BY <1>1, <1>2, <1>3, <1>4, <1>5, <1>6, <1>7, <1>8 DEF Next, Writer, Reader

\* A failed task stays failed.
LEMMA StaysBroken == ASSUME TypeOK, [Next]_vars, Broken PROVE Broken'
<1>1. PICK t \in Tasks : io[t] # "run"
  BY DEF Broken
<1>2. io'[t] # "run"
  BY <1>1, TaskSteps DEF TypeOK
<1>3. QED BY <1>2 DEF Broken

\* A stream that is closed was closed by a failed task.
LEMMA StepClosed == ASSUME TypeOK, ClosedIsBroken, [Next]_vars PROVE ClosedIsBroken'
<1> USE DEF callVars, eventVars, hostVars, serverVars
<1>1. ASSUME NEW t \in Tasks, Close(t) PROVE Broken'
  BY <1>1 DEF Close, TypeOK, Broken
<1>2. CASE DropClient
  BY <1>2 DEF DropClient, Broken, ClosedIsBroken, Tasks
<1>3. ASSUME eventsOpen, \A t \in Tasks : ~Close(t), ~DropClient PROVE eventsOpen'
  <2>1. CASE \E c \in Calls : Caller(c)
    BY <1>3, <2>1 DEF Caller, Register, SendOk, SendFailed, Finish, Cancel
  <2>2. CASE Writer
    BY <1>3, <2>2 DEF Writer, WriterWrite, WriterFail, WriterBreak, Announce, Tasks
  <2>3. CASE Reader
    BY <1>3, <2>3 DEF Reader, ReadResponse, ReadNotification, ReadUserRequest, ReadAutoRequest,
       ReadBadLine, ReadEof, Announce, Tasks
  <2>4. CASE Host
    BY <1>3, <2>4 DEF Host, HostListen, HostRecv, HostStreamEnd, HostNotify, HostReply,
       HostUnchanged
  <2>5. CASE Server
    BY <1>3, <2>5 DEF Server, ServerAnswer, ServerRepeat, ServerEmit, ServerAsk, ServerExit,
       ServerUnchanged
  <2>6. CASE UNCHANGED vars
    BY <1>3, <2>6 DEF vars
  <2>7. QED BY <2>1, <2>2, <2>3, <2>4, <2>5, <2>6 DEF Next
<1>4. QED BY <1>1, <1>2, <1>3, StaysBroken DEF ClosedIsBroken

\* Lines that were served stay served while the reader consumes them.
LEMMA LinesKept ==
  ASSUME TypeOK, LinesServed, answered \subseteq answered',
         stdout' = stdout \/ (stdout # <<>> /\ stdout' = Tail(stdout))
  PROVE  LinesServed'
<1>1. Served \subseteq Served'
  BY DEF Served
<1>2. \A i \in 1..Len(stdout') : stdout'[i].kind = "response" => stdout'[i].call \in Served
  BY TailElements DEF TypeOK, LinesServed
<1>3. QED BY <1>1, <1>2 DEF LinesServed

\* A line that the child writes: a response only to what it counts as answered.
LEMMA LineWritten ==
  ASSUME TypeOK, LinesServed, answered \subseteq answered',
         NEW l, stdout' = Append(stdout, l), l.kind = "response" => l.call \in Served'
  PROVE  LinesServed'
<1>1. Served \subseteq Served'
  BY DEF Served
<1>2. \A i \in 1..Len(stdout') :
        \/ i \in 1..Len(stdout) /\ stdout'[i] = stdout[i]
        \/ stdout'[i] = l
  BY AppendElements DEF TypeOK
<1>3. QED BY <1>1, <1>2 DEF LinesServed

\* Every step keeps the lines on stdout served.
LEMMA StepLines == ASSUME TypeOK, LinesServed, [Next]_vars PROVE LinesServed'
<1> USE DEF callVars, eventVars, hostVars, serverVars
<1>1. CASE \E c \in Calls : Caller(c)
  BY <1>1, LinesKept DEF Caller, Register, SendOk, SendFailed, Finish, Cancel
<1>2. CASE WriterWrite \/ WriterFail \/ WriterBreak \/ \E t \in Tasks : Announce(t) \/ Close(t)
  BY <1>2, LinesKept DEF WriterWrite, WriterFail, WriterBreak, Announce, Close
<1>3. CASE ReadResponse \/ ReadNotification \/ ReadUserRequest
  BY <1>3, LinesKept DEF ReadResponse, ReadNotification, ReadUserRequest, ReaderLine, ConsumeLine
<1>4. CASE ReadAutoRequest \/ ReadBadLine \/ ReadEof
  BY <1>4, LinesKept DEF ReadAutoRequest, ReadBadLine, ReadEof, ReaderLine, ConsumeLine
<1>5. CASE \/ HostListen \/ HostRecv \/ HostStreamEnd \/ HostNotify
           \/ \E r \in UserRequests : HostReply(r)
  BY <1>5, LinesKept DEF HostListen, HostRecv, HostStreamEnd, HostNotify, HostReply, HostUnchanged
<1>6. CASE DropClient
  BY <1>6 DEF DropClient, LinesServed
<1>7. ASSUME NEW m \in inbox, NEW tag \in {"ok", "rpc"}, ServerAnswer(m, tag) PROVE LinesServed'
  <2> DEFINE l == [kind |-> "response", id |-> m.id, call |-> m.call, tag |-> tag]
  <2>1. stdout' = Append(stdout, l) /\ answered' = answered \cup {m}
    BY <1>7 DEF ServerAnswer
  <2>2. l.call \in Served'
    BY <2>1 DEF Served
  <2>3. QED BY <2>1, <2>2, LineWritten
<1>8. ASSUME NEW m \in inbox, ServerRepeat(m) PROVE LinesServed'
  <2> DEFINE l == [kind |-> "response", id |-> m.id, call |-> m.call, tag |-> "rpc"]
  <2>1. stdout' = Append(stdout, l) /\ answered' = answered /\ m \in answered
    BY <1>8 DEF ServerRepeat
  <2>2. l.call \in Served'
    BY <2>1 DEF Served
  <2>3. QED BY <2>1, <2>2, LineWritten
<1>9. ASSUME NEW kind \in {"notification", "bad"}, ServerEmit(kind) PROVE LinesServed'
  BY <1>9, LineWritten DEF ServerEmit
<1>10. ASSUME NEW r \in Requests, ServerAsk(r) PROVE LinesServed'
  BY <1>10, LineWritten DEF ServerAsk
<1>11. CASE ServerExit
  BY <1>11, LinesKept DEF ServerExit
<1>12. CASE UNCHANGED vars
  BY <1>12, LinesKept DEF vars
<1>13. QED
  BY <1>1, <1>2, <1>3, <1>4, <1>5, <1>6, <1>7, <1>8, <1>9, <1>10, <1>11, <1>12
  DEF Next, Writer, Reader, Host, Server, Tasks

\* An open call has been asked, is in the table and can be settled.
LEMMA OpenCall ==
  ASSUME TypeOK, IInv, OpenIsFiled, NEW c \in Calls, Outcome[c] = "open"
  PROVE  /\ Outstanding(c) /\ callPc[c] # "idle" /\ answer[c].tag = "none"
         /\ reqId[c] \in DOMAIN pending /\ pending[reqId[c]] = c /\ reqId[c] < nextId
<1>1. callPc[c] \notin {"idle", "dropped"} /\ answer[c].tag = "none"
  BY OpenMeans
<1>2. reqId[c] \in DOMAIN pending /\ pending[reqId[c]] = c
  BY DEF OpenIsFiled
<1>3. callPc[c] \in {"registered", "awaiting", "dropped"}
  BY <1>2 DEF IInv, PendingUnsettled
<1>4. reqId[c] < nextId
  BY <1>1 DEF IInv, IdsDistinct
<1>5. QED BY <1>1, <1>2, <1>3, <1>4 DEF Outstanding

\* What a response does: it settles an open call with the answer to that call, or changes
\* no outcome.
LEMMA ResponseStep ==
  ASSUME TypeOK, IInv, ContractInv, ReadResponse
  PROVE  /\ OpenIsFiled'
         /\ \/ UNCHANGED Outcome
            \/ \E c \in Calls : /\ c \in Served /\ Outcome[c] = "open"
                                /\ Outcome' = [Outcome EXCEPT ![c] = "answered"]
<1> DEFINE l == Head(stdout)
           c == pending[l.id]
<1>1. /\ stdout # <<>> /\ l.kind = "response" /\ l \in Line
      /\ UNCHANGED <<callPc, reqId, nextId>>
  BY DEF ReadResponse, ReaderLine, ConsumeLine, TypeOK
<1>2. l = stdout[1] /\ 1 \in 1..Len(stdout)
  BY <1>1, TailElements DEF TypeOK
<1>3. l.call \in Served /\ l.call \in Calls /\ l.tag \in {"ok", "rpc"} /\ Filed(l)
  <2>1. l.call \in Served /\ Filed(l)
    BY <1>1, <1>2 DEF ContractInv, LinesServed, IInv, WireFaithful
  <2>2. l.call \in Calls /\ l.tag \in {"ok", "rpc"}
    BY <1>1 DEF Line
  <2>3. QED BY <2>1, <2>2
<1>4. CASE l.id \notin DOMAIN pending
  <2>1. UNCHANGED <<callPc, reqId, nextId, pending, answer>>
    BY <1>1, <1>4 DEF ReadResponse
  <2>2. QED BY <2>1, SameOutcome, QuietFiled DEF callVars, ContractInv
<1>5. CASE l.id \in DOMAIN pending
  <2>1. /\ c \in Calls /\ reqId[c] = l.id /\ answer[c].tag = "none"
        /\ callPc[c] \in {"registered", "awaiting", "dropped"}
    BY <1>5 DEF TypeOK, IInv, PendingUnsettled
  <2>2. l.call = c
    BY <1>3, <2>1 DEF Filed, IInv, IdsDistinct
  <2>3. pending' = Remove(pending, l.id)
    BY <1>5 DEF ReadResponse
  <2>4. answer' = IF callPc[c] = "dropped" THEN answer
                  ELSE [answer EXCEPT ![c] = [tag |-> l.tag, call |-> l.call]]
    BY <1>5 DEF ReadResponse
  <2> HIDE DEF l, c
  <2>5. \A d \in Calls : d # c => Outcome'[d] = Outcome[d]
    BY <1>1, <2>4, SameOutcome DEF TypeOK
  <2>6. Outcome'[c] # "open"
    <3>1. CASE callPc[c] = "dropped"
      BY <1>1, <2>1, <3>1 DEF Outcome
    <3>2. CASE callPc[c] # "dropped"
      BY <1>1, <1>3, <2>1, <2>4, <3>2 DEF Outcome, TypeOK
    <3>3. QED BY <3>1, <3>2
  <2>7. OpenIsFiled'
    <3> SUFFICES ASSUME NEW d \in Calls, Outcome'[d] = "open"
                 PROVE  reqId'[d] \in DOMAIN pending' /\ pending'[reqId'[d]] = d
      BY DEF OpenIsFiled
    <3>1. d # c /\ Outcome[d] = "open"
      BY <2>5, <2>6
    <3>2. reqId[d] \in DOMAIN pending /\ pending[reqId[d]] = d
      BY <3>1 DEF ContractInv, OpenIsFiled
    <3>3. reqId[d] # l.id
      BY <3>1, <3>2 DEF c
    <3>4. QED BY <1>1, <2>3, <3>2, <3>3 DEF Remove
  <2>8. CASE callPc[c] = "dropped"
    BY <1>1, <2>4, <2>7, <2>8, SameOutcome
  <2>9. CASE callPc[c] # "dropped"
    <3>1. Outcome[c] = "open"
      BY <2>1, <2>9, OpenMeans
    <3>2. answer'[c] = [tag |-> l.tag, call |-> c] /\ callPc'[c] \notin {"idle", "dropped"}
      BY <1>1, <2>1, <2>2, <2>4, <2>9 DEF TypeOK
    <3>3. Outcome'[c] = "answered"
      BY <1>3, <2>1, <3>2 DEF Outcome
    <3>4. Outcome' = [Outcome EXCEPT ![c] = "answered"]
      BY <2>1, <2>5, <3>3, OneOutcome
    <3>5. QED BY <1>3, <2>1, <2>2, <2>7, <3>1, <3>4
  <2>10. QED BY <2>8, <2>9
<1>6. QED BY <1>4, <1>5

\* What the steps of a caller do.
LEMMA CallerStep ==
  ASSUME TypeOK, IInv, ContractInv, NEW c \in Calls, Caller(c)
  PROVE  /\ OpenIsFiled' /\ UNCHANGED <<answered, io>>
         /\ \/ UNCHANGED Outcome
            \/ Outcome[c] = "unasked" /\ Outcome' = [Outcome EXCEPT ![c] = "open"]
            \/ Outcome[c] = "open" /\ Outcome' = [Outcome EXCEPT ![c] = "abandoned"]
            \/ Broken /\ Outcome[c] = "open" /\ Outcome' = [Outcome EXCEPT ![c] = "closed"]
<1> USE DEF callVars, eventVars, hostVars, serverVars
<1>1. UNCHANGED <<answered, io>>
  BY DEF Caller, Register, SendOk, SendFailed, Finish, Cancel
<1>2. \A d \in Calls : d # c =>
        callPc'[d] = callPc[d] /\ answer'[d] = answer[d] /\ reqId'[d] = reqId[d]
  BY DEF Caller, Register, SendOk, SendFailed, Finish, Cancel, TypeOK
<1>3. \A d \in Calls : d # c => Outcome'[d] = Outcome[d]
  BY <1>2, SameOutcome
<1>4. CASE Register(c)
  <2>1. /\ callPc[c] = "idle" /\ callPc'[c] = "registered" /\ answer'[c] = answer[c]
        /\ reqId'[c] = nextId /\ pending' = Insert(pending, nextId, c)
    BY <1>4 DEF Register, TypeOK
  <2>2. answer[c] = NoAnswer
    BY <2>1 DEF IInv, SlotsFresh
  <2>3. Outcome[c] = "unasked" /\ Outcome'[c] = "open"
    BY <2>1, <2>2 DEF Outcome, NoAnswer
  <2>4. ASSUME NEW d \in Calls, Outcome'[d] = "open"
        PROVE  reqId'[d] \in DOMAIN pending' /\ pending'[reqId'[d]] = d
    <3>1. CASE d = c
      BY <2>1, <3>1 DEF Insert
    <3>2. CASE d # c
      <4>1. reqId[d] \in DOMAIN pending /\ pending[reqId[d]] = d /\ reqId[d] < nextId
        BY <1>3, <2>4, <3>2, OpenCall DEF ContractInv
      <4>2. reqId'[d] = reqId[d] /\ reqId[d] # nextId
        BY <1>2, <3>2, <4>1 DEF TypeOK
      <4>3. QED BY <2>1, <4>1, <4>2 DEF Insert
    <3>3. QED BY <3>1, <3>2
  <2>5. QED BY <1>1, <1>3, <2>3, <2>4, OneOutcome DEF OpenIsFiled
<1>5. CASE SendFailed(c)
  <2>1. /\ callPc[c] = "registered" /\ callPc'[c] = "done" /\ answer'[c] = TransportClosed
        /\ reqId' = reqId /\ pending' = Remove(pending, reqId[c]) /\ io["writer"] = "ended"
    BY <1>5 DEF SendFailed, TypeOK, OutboundClosed
  <2>2. Broken
    BY <2>1 DEF Broken, Tasks
  <2>3. Outcome'[c] = "closed"
    BY <2>1 DEF Outcome, TransportClosed
  <2>4. Outcome[c] \in {"open", "closed"}
    BY <2>1 DEF Outcome, IInv, SlotsFresh, NoAnswer, TransportClosed
  <2>5. ASSUME NEW d \in Calls, Outcome'[d] = "open"
        PROVE  reqId'[d] \in DOMAIN pending' /\ pending'[reqId'[d]] = d
    <3>1. d # c
      BY <2>3, <2>5
    <3>2. reqId[d] \in DOMAIN pending /\ pending[reqId[d]] = d /\ callPc[d] # "idle"
      BY <1>3, <2>5, <3>1, OpenCall DEF ContractInv
    <3>3. reqId[d] # reqId[c]
      BY <2>1, <3>1, <3>2 DEF IInv, IdsDistinct
    <3>4. QED BY <2>1, <3>2, <3>3 DEF Remove
  <2>6. CASE Outcome[c] = "open"
    BY <1>1, <1>3, <2>2, <2>3, <2>5, <2>6, OneOutcome DEF OpenIsFiled
  <2>7. CASE Outcome[c] = "closed"
    <3>1. UNCHANGED Outcome
      <4>1. \A d \in Calls : Outcome'[d] = Outcome[d]
        BY <1>3, <2>3, <2>7
      <4>2. QED BY <4>1 DEF Outcome
    <3>2. QED BY <1>1, <2>5, <3>1 DEF OpenIsFiled
  <2>8. QED BY <2>4, <2>6, <2>7
<1>6. CASE SendOk(c) \/ Finish(c) \/ Cancel(c)
  <2>1. /\ answer' = answer /\ reqId' = reqId /\ pending' = pending
        /\ callPc[c] \in {"registered", "awaiting"}
        /\ \/ callPc'[c] = "awaiting"
           \/ callPc'[c] = "done"
           \/ callPc'[c] = "dropped"
    BY <1>6 DEF SendOk, Finish, Cancel, TypeOK
  <2>2. \/ Outcome'[c] = Outcome[c]
        \/ Outcome[c] = "open" /\ Outcome'[c] = "abandoned"
    BY <2>1 DEF Outcome
  <2>3. OpenIsFiled'
    BY <1>3, <2>1, <2>2 DEF OpenIsFiled, ContractInv
  <2>4. CASE Outcome'[c] = Outcome[c]
    <3>1. \A d \in Calls : Outcome'[d] = Outcome[d]
      BY <1>3, <2>4
    <3>2. UNCHANGED Outcome
      BY <3>1 DEF Outcome
    <3>3. QED BY <1>1, <2>3, <3>2
  <2>5. CASE Outcome[c] = "open" /\ Outcome'[c] = "abandoned"
    BY <1>1, <1>3, <2>3, <2>5, OneOutcome
  <2>6. QED BY <2>2, <2>4, <2>5
<1>7. QED BY <1>4, <1>5, <1>6 DEF Caller

(***************************************************************************)
(* The simulation.                                                         *)
(***************************************************************************)

\* A step that changes neither outcomes nor answers of the child, and in which no task
\* fails, is a stutter of the contract.
LEMMA Stutter ==
  ASSUME UNCHANGED <<Outcome, answered>>, Broken' = Broken
  PROVE  UNCHANGED Contract!contractVars
<1>1. Served' = Served
  BY DEF Served
<1>2. QED BY <1>1, Zenon DEF Contract!contractVars

\* The failure of a task is the contract's Break.
LEMMA DrainBreaks ==
  ASSUME TypeOK, IInv, ContractInv, DrainPending, UNCHANGED answered,
         NEW t \in Tasks, io' = [io EXCEPT ![t] = "announce"]
  PROVE  Contract!Next /\ OpenIsFiled'
<1>1. Served' = Served
  BY DEF Served
<1>2. Broken'
  BY DEF TypeOK, Broken
<1>3. Outcome' = [c \in Calls |-> IF Outcome[c] = "open" THEN "closed" ELSE Outcome[c]]
  BY DrainOutcome DEF ContractInv
<1>4. Contract!Break
  BY <1>1, <1>2, <1>3, Zenon DEF Contract!Break
<1>5. QED BY <1>4, DrainFiled DEF Contract!Next, ContractInv

\* A step that leaves calls and answers alone and lets no running task fail.
LEMMA QuietStep ==
  ASSUME TypeOK, ContractInv, [Next]_vars, UNCHANGED <<callVars, answered>>,
         io' = io \/ Broken
  PROVE  UNCHANGED Contract!contractVars /\ OpenIsFiled'
<1>1. Broken' = Broken
  <2>1. CASE io' = io
    BY <2>1 DEF Broken
  <2>2. CASE Broken
    <3>1. Broken'
      BY <2>2, StaysBroken
    <3>2. QED BY <2>2, <3>1, Zenon DEF Broken
  <2>3. QED BY <2>1, <2>2
<1>2. UNCHANGED Outcome
  BY SameOutcome DEF callVars
<1>3. QED BY <1>1, <1>2, Stutter, QuietFiled DEF ContractInv

\* The steps of the writer.
LEMMA WriterSimulates ==
  ASSUME TypeOK, IInv, ContractInv, [Next]_vars, Writer
  PROVE  [Contract!Next]_(Contract!contractVars) /\ OpenIsFiled'
<1> USE DEF callVars, eventVars, hostVars, serverVars
<1>1. CASE WriterWrite
  <2>1. UNCHANGED <<callVars, answered>> /\ io' = io
    BY <1>1 DEF WriterWrite
  <2>2. QED BY <2>1, QuietStep
<1>2. CASE WriterFail
  <2>1. DrainPending /\ UNCHANGED answered /\ io' = [io EXCEPT !["writer"] = "announce"]
    BY <1>2 DEF WriterFail
  <2>2. QED BY <2>1, DrainBreaks DEF Tasks
<1>3. CASE WriterBreak \/ Announce("writer") \/ Close("writer")
  <2>1. UNCHANGED <<callVars, answered>> /\ io["writer"] # "run"
    BY <1>3 DEF WriterBreak, Announce, Close
  <2>2. Broken
    BY <2>1 DEF Broken, Tasks
  <2>3. QED BY <2>1, <2>2, QuietStep
<1>4. QED BY <1>1, <1>2, <1>3 DEF Writer

\* The steps of the reader.
LEMMA ReaderSimulates ==
  ASSUME TypeOK, IInv, ContractInv, [Next]_vars, Reader
  PROVE  [Contract!Next]_(Contract!contractVars) /\ OpenIsFiled'
<1> USE DEF callVars, eventVars, hostVars, serverVars
<1>1. ASSUME NEW e, Emit(e) PROVE io' = io \/ Broken
  BY <1>1 DEF Emit, ContractInv, ClosedIsBroken
<1>2. CASE ReadResponse
  <2>1. OpenIsFiled' /\ UNCHANGED answered
    BY <1>2, ResponseStep DEF ReadResponse, ConsumeLine
  <2>2. Served' = Served
    BY <2>1 DEF Served
  <2>3. io' = io \/ Broken
    BY <1>1, <1>2 DEF ReadResponse
  <2>4. Broken' = Broken
    <3>1. CASE io' = io
      BY <3>1 DEF Broken
    <3>2. CASE Broken
      <4>1. Broken'
        BY <3>2, StaysBroken
      <4>2. QED BY <3>2, <4>1, Zenon DEF Broken
    <3>3. QED BY <2>3, <3>1, <3>2
  <2>5. CASE UNCHANGED Outcome
    BY <2>1, <2>4, <2>5, Stutter
  <2>6. ASSUME NEW c \in Calls, c \in Served, Outcome[c] = "open",
               Outcome' = [Outcome EXCEPT ![c] = "answered"]
        PROVE  Contract!Next
    <3>1. Contract!Settle(c)
      BY <2>2, <2>4, <2>6, Zenon DEF Contract!Settle, Contract!Become
    <3>2. QED BY <3>1 DEF Contract!Next
  <2>7. QED BY <1>2, <2>1, <2>5, <2>6, ResponseStep
<1>3. CASE ReadNotification \/ ReadUserRequest
  <2>1. UNCHANGED <<callVars, answered>> /\ (io' = io \/ Broken)
    BY <1>1, <1>3 DEF ReadNotification, ReadUserRequest, ConsumeLine
  <2>2. QED BY <2>1, QuietStep
<1>4. CASE ReadAutoRequest
  <2>1. UNCHANGED answered
    BY <1>4 DEF ReadAutoRequest, ConsumeLine
  <2>2. CASE OutboundClosed
    BY <1>4, <2>1, <2>2, DrainBreaks DEF ReadAutoRequest, Tasks
  <2>3. CASE ~OutboundClosed
    <3>1. UNCHANGED <<callVars, answered>> /\ io' = io
      BY <1>4, <2>1, <2>3 DEF ReadAutoRequest
    <3>2. QED BY <3>1, QuietStep
  <2>4. QED BY <2>2, <2>3
<1>5. CASE ReadBadLine \/ ReadEof
  <2>1. DrainPending /\ UNCHANGED answered /\ io' = [io EXCEPT !["reader"] = "announce"]
    BY <1>5 DEF ReadBadLine, ReadEof, ConsumeLine
  <2>2. QED BY <2>1, DrainBreaks DEF Tasks
<1>6. CASE Announce("reader") \/ Close("reader")
  <2>1. UNCHANGED <<callVars, answered>> /\ io["reader"] # "run"
    BY <1>6 DEF Announce, Close
  <2>2. Broken
    BY <2>1 DEF Broken, Tasks
  <2>3. QED BY <2>1, <2>2, QuietStep
<1>7. QED BY <1>2, <1>3, <1>4, <1>5, <1>6 DEF Reader

\* The steps of a caller.
LEMMA CallerSimulates ==
  ASSUME TypeOK, IInv, ContractInv, NEW c \in Calls, Caller(c)
  PROVE  [Contract!Next]_(Contract!contractVars) /\ OpenIsFiled'
<1>1. OpenIsFiled' /\ UNCHANGED <<answered, io>>
  BY CallerStep
<1>2. Served' = Served /\ Broken' = Broken
  BY <1>1 DEF Served, Broken
<1>3. CASE UNCHANGED Outcome
  BY <1>1, <1>2, <1>3, Stutter
<1>4. CASE Outcome[c] = "unasked" /\ Outcome' = [Outcome EXCEPT ![c] = "open"]
  <2>1. Contract!Ask(c)
    BY <1>2, <1>4, Zenon DEF Contract!Ask, Contract!Become
  <2>2. QED BY <1>1, <2>1 DEF Contract!Next
<1>5. CASE Outcome[c] = "open" /\ Outcome' = [Outcome EXCEPT ![c] = "abandoned"]
  <2>1. Contract!Abandon(c)
    BY <1>2, <1>5, Zenon DEF Contract!Abandon, Contract!Become
  <2>2. QED BY <1>1, <2>1 DEF Contract!Next
<1>6. CASE Broken /\ Outcome[c] = "open" /\ Outcome' = [Outcome EXCEPT ![c] = "closed"]
  <2>1. Contract!Refuse(c)
    BY <1>2, <1>6, Zenon DEF Contract!Refuse, Contract!Become
  <2>2. QED BY <1>1, <2>1 DEF Contract!Next
<1>7. QED BY <1>3, <1>4, <1>5, <1>6, CallerStep

\* The steps of the host.
LEMMA HostSimulates ==
  ASSUME TypeOK, IInv, ContractInv, [Next]_vars, Host
  PROVE  [Contract!Next]_(Contract!contractVars) /\ OpenIsFiled'
<1> USE DEF callVars, eventVars, hostVars, serverVars
<1>1. CASE \/ HostListen \/ HostRecv \/ HostStreamEnd \/ HostNotify
           \/ \E r \in UserRequests : HostReply(r)
  <2>1. UNCHANGED <<callVars, answered>> /\ io' = io
    BY <1>1 DEF HostListen, HostRecv, HostStreamEnd, HostNotify, HostReply, HostUnchanged
  <2>2. QED BY <2>1, QuietStep
<1>2. CASE DropClient
  <2>1. /\ \A c \in Calls : ~Outstanding(c)
        /\ UNCHANGED <<callPc, answer, answered>> /\ io' = [t \in Tasks |-> "ended"]
    BY <1>2 DEF DropClient
  <2>2. \A c \in Calls : Outcome[c] # "open"
    BY <2>1, OpenCall DEF ContractInv
  <2>3. Outcome' = Outcome
    BY <2>1, SameOutcome
  <2>4. Outcome' = [c \in Calls |-> IF Outcome[c] = "open" THEN "closed" ELSE Outcome[c]]
    BY <2>2, <2>3 DEF Outcome
  <2>5. Served' = Served /\ Broken'
    BY <2>1 DEF Served, Broken, Tasks
  <2>6. Contract!Break
    BY <2>4, <2>5, Zenon DEF Contract!Break
  <2>7. OpenIsFiled'
    BY <2>2, <2>3 DEF OpenIsFiled
  <2>8. QED BY <2>6, <2>7 DEF Contract!Next
<1>3. QED BY <1>1, <1>2 DEF Host

\* The steps of the child.
LEMMA ServerSimulates ==
  ASSUME TypeOK, IInv, ContractInv, [Next]_vars, Server
  PROVE  [Contract!Next]_(Contract!contractVars) /\ OpenIsFiled'
<1> USE DEF callVars, eventVars, hostVars, serverVars
<1>1. ASSUME NEW m \in inbox, NEW tag \in {"ok", "rpc"}, ServerAnswer(m, tag)
      PROVE  Contract!Next /\ OpenIsFiled'
  <2>1. answered' = answered \cup {m} /\ UNCHANGED <<callVars, io>>
    BY <1>1 DEF ServerAnswer, ServerUnchanged
  <2>2. Served' = Served \cup {m.call} /\ Broken' = Broken
    BY <2>1 DEF Served, Broken
  <2>3. m.call \in Calls /\ Filed(m)
    BY CallsOnWire DEF IInv, WireFaithful
  <2>4. Outcome[m.call] # "unasked"
    BY <2>3 DEF Filed, Outcome
  <2>5. Outcome' = Outcome /\ OpenIsFiled'
    BY <2>1, SameOutcome, QuietFiled DEF ContractInv
  <2>6. Contract!Serve(m.call)
    BY <2>2, <2>4, <2>5, Zenon DEF Contract!Serve
  <2>7. QED BY <2>3, <2>5, <2>6 DEF Contract!Next
<1>2. CASE \/ \E m \in inbox : ServerRepeat(m)
           \/ \E kind \in {"notification", "bad"} : ServerEmit(kind)
           \/ \E r \in Requests : ServerAsk(r)
           \/ ServerExit
  <2>1. UNCHANGED <<callVars, answered>> /\ io' = io
    BY <1>2 DEF ServerRepeat, ServerEmit, ServerAsk, ServerExit, ServerUnchanged
  <2>2. QED BY <2>1, QuietStep
<1>3. QED BY <1>1, <1>2 DEF Server

\* Every step is a step of the contract or a stutter, and keeps the invariant.
LEMMA StepSimulates ==
  ASSUME TypeOK, IInv, ContractInv, [Next]_vars
  PROVE  [Contract!Next]_(Contract!contractVars) /\ ContractInv'
<1>1. LinesServed' /\ ClosedIsBroken'
  BY StepLines, StepClosed DEF ContractInv
<1>2. CASE UNCHANGED vars
  <2>1. UNCHANGED <<callVars, answered>> /\ io' = io
    BY <1>2 DEF vars, serverVars
  <2>2. QED BY <1>1, <2>1, QuietStep DEF ContractInv
<1>3. CASE \E c \in Calls : Caller(c)
  BY <1>1, <1>3, CallerSimulates DEF ContractInv
<1>4. CASE Writer \/ Reader \/ Host \/ Server
  BY <1>1, <1>4, WriterSimulates, ReaderSimulates, HostSimulates, ServerSimulates DEF ContractInv
<1>5. QED BY <1>2, <1>3, <1>4 DEF Next

\* Client::request keeps its contract in every behaviour: each call is settled once, by the
\* answer the app-server gave to it or by the failure that settles every open call.
THEOREM ClientKeepsContract == Spec => KeepsContract
<1>1. Init => Contract!Init
  <2> SUFFICES ASSUME Init PROVE Contract!Init
    OBVIOUS
  <2>1. Outcome = [c \in Calls |-> "unasked"]
    BY DEF Init, Outcome
  <2>2. Served = {}
    BY DEF Init, Served
  <2>3. Broken = FALSE
    BY DEF Init, Broken
  <2>4. QED BY <2>1, <2>2, <2>3, Zenon DEF Contract!Init
<1>2. TypeOK /\ IInv /\ ContractInv /\ [Next]_vars => (TypeOK /\ IInv /\ ContractInv)'
  BY StepTypeOK, StepIInv, StepSimulates
<1>3. TypeOK /\ IInv /\ ContractInv /\ [Next]_vars => [Contract!Next]_(Contract!contractVars)
  BY StepSimulates
<1>4. QED
  BY InitTypeOK, InitIInv, InitContractInv, <1>1, <1>2, <1>3, PTL
  DEF Spec, KeepsContract, Contract!Spec
============================================================================
