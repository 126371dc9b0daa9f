---------------------------- MODULE CallContract ---------------------------
(***************************************************************************)
(* What Client::request promises a caller, without ids, queues or tasks:   *)
(* a call is open until it is settled or abandoned, and it is settled      *)
(* once, either by the answer the app-server gave to this very call or,    *)
(* when the connection breaks, together with every other open call.        *)
(***************************************************************************)
CONSTANT Calls

VARIABLES
  outcome,   \* of each call: unasked, open, answered, closed or abandoned
  served,    \* the calls the app-server has answered
  broken     \* the connection has failed

contractVars == <<outcome, served, broken>>

Init ==
  /\ outcome = [c \in Calls |-> "unasked"]
  /\ served = {}
  /\ broken = FALSE

Become(c, from, to) == outcome[c] = from /\ outcome' = [outcome EXCEPT ![c] = to]

Ask(c)     == Become(c, "unasked", "open") /\ UNCHANGED <<served, broken>>
Abandon(c) == Become(c, "open", "abandoned") /\ UNCHANGED <<served, broken>>
Settle(c)  == c \in served /\ Become(c, "open", "answered") /\ UNCHANGED <<served, broken>>

\* A call made on a broken connection.
Refuse(c)  == broken /\ Become(c, "open", "closed") /\ UNCHANGED <<served, broken>>

Serve(c) ==
  /\ outcome[c] # "unasked"
  /\ served' = served \cup {c}
  /\ UNCHANGED <<outcome, broken>>

\* No open call survives a failure.
Break ==
  /\ broken' = TRUE
  /\ outcome' = [c \in Calls |-> IF outcome[c] = "open" THEN "closed" ELSE outcome[c]]
  /\ UNCHANGED served

Next ==
  \/ \E c \in Calls : Ask(c) \/ Abandon(c) \/ Settle(c) \/ Refuse(c) \/ Serve(c)
  \/ Break

Spec == Init /\ [][Next]_contractVars
============================================================================
