------------------------------- MODULE Relay --------------------------------
(***************************************************************************)
(* Calls through a relay (internal/relay/server.go, internal/node/         *)
(* relay_client.go).  A node that cannot be dialled keeps a connection to  *)
(* the relay and handles the requests that come over it one at a time.  A  *)
(* caller opens a connection of its own for each call, and the relay hands *)
(* request and response over by their ReqID.                               *)
(*                                                                         *)
(* The relay runs a goroutine for each connection; muAttached and          *)
(* muPending make each access to its two maps atomic.  A handler that a    *)
(* node runs may itself make a call (PutBlock announces the block), so     *)
(* nodes can wait for each other; the deadline of the call ends that.      *)
(*                                                                         *)
(* ReqIDs are random and taken to be distinct: a request is its ReqID.     *)
(* Frames in transit on a connection are a set, since no property depends  *)
(* on their order.                                                         *)
(***************************************************************************)
CONSTANTS
  Nodes,
  Conns,       \* the connections over which nodes attach
  Owner,       \* the node that opens each of them
  Requests,    \* the calls that are made through the relay
  Target,      \* the node each of them is for
  Sub,         \* the call that its handler makes, if any
  None         \* no connection, no request

ASSUME RelayAssumption ==
  /\ None \notin Conns /\ None \notin Requests
  /\ Owner \in [Conns -> Nodes]
  /\ Target \in [Requests -> Nodes]
  /\ Sub \in [Requests -> Requests \cup {None}]
  /\ \A r, s \in Requests : Sub[r] = Sub[s] /\ Sub[r] # None => r = s

VARIABLES
  link,       \* each connection of a node: not opened, open, or closed
  loop,       \* the node's end: is Node.AttachRelay running?
  handling,   \* the request it handles
  inbox,      \* DeliverRequest frames on the way to the node
  outbox,     \* DeliverResponse frames on the way to the relay
  serving,    \* connections with a goroutine in handleAttach
  attached,   \* Server.attached
  pending,    \* Server.pending
  place,      \* handleClient: where the goroutine of each request is
  via,        \* handleClient: the connection it found
  call,       \* DialRpcViaRelay: the caller's state
  reply       \* the frame that the relay has sent to the caller

nodeVars   == <<loop, handling>>
wireVars   == <<link, inbox, outbox>>
serverVars == <<serving, attached, pending>>
clientVars == <<place, via>>
callVars   == <<call, reply>>
vars == <<nodeVars, wireVars, serverVars, clientVars, callVars>>

Init ==
  /\ link = [c \in Conns |-> "new"]
  /\ loop = [c \in Conns |-> "none"]
  /\ handling = [c \in Conns |-> None]
  /\ inbox = [c \in Conns |-> {}]
  /\ outbox = [c \in Conns |-> {}]
  /\ serving = {}
  /\ attached = [n \in Nodes |-> None]
  /\ pending = {}
  /\ place = [r \in Requests |-> "none"]
  /\ via = [r \in Requests |-> None]
  /\ call = [r \in Requests |-> "none"]
  /\ reply = [r \in Requests |-> "none"]

-----------------------------------------------------------------------------
\* A node: Node.AttachRelay

\* Dial and send Register.  One process of a node runs at a time.
Attach(c) ==
  /\ link[c] = "new"
  /\ \A d \in Conns : Owner[d] = Owner[c] => loop[d] # "runs"
  /\ link' = [link EXCEPT ![c] = "open"]
  /\ loop' = [loop EXCEPT ![c] = "runs"]
  /\ UNCHANGED <<handling, inbox, outbox, serverVars, clientVars, callVars>>

\* The next frame is decoded; the handler makes its own call, if it has one.
TakeRequest(c, r) ==
  /\ loop[c] = "runs" /\ handling[c] = None /\ r \in inbox[c]
  /\ handling' = [handling EXCEPT ![c] = r]
  /\ inbox' = [inbox EXCEPT ![c] = @ \ {r}]
  /\ IF Sub[r] # None
     THEN /\ call' = [call EXCEPT ![Sub[r]] = "waits"]
          /\ place' = [place EXCEPT ![Sub[r]] = "lookup"]
     ELSE UNCHANGED <<call, place>>
  /\ UNCHANGED <<loop, link, outbox, serverVars, via, reply>>

HandlerDone(r) == Sub[r] # None => call[Sub[r]] = "returned"

Respond(c) ==
  /\ loop[c] = "runs" /\ handling[c] # None /\ HandlerDone(handling[c])
  /\ link[c] = "open"
  /\ outbox' = [outbox EXCEPT ![c] = @ \cup {handling[c]}]
  /\ handling' = [handling EXCEPT ![c] = None]
  /\ UNCHANGED <<loop, link, inbox, serverVars, clientVars, callVars>>

\* Reading from a closed connection, or writing to it, ends the loop.
LoopEnds(c) ==
  /\ loop[c] = "runs" /\ link[c] = "closed"
  /\ handling[c] # None => HandlerDone(handling[c])
  /\ loop' = [loop EXCEPT ![c] = "ended"]
  /\ handling' = [handling EXCEPT ![c] = None]
  /\ UNCHANGED <<wireVars, serverVars, clientVars, callVars>>

\* The process ends, with the call it may have been making.  The relay finds
\* out later.
NodeStops(c) ==
  /\ loop[c] = "runs"
  /\ loop' = [loop EXCEPT ![c] = "ended"]
  /\ handling' = [handling EXCEPT ![c] = None]
  /\ call' = [r \in Requests |->
                IF handling[c] # None /\ r = Sub[handling[c]] THEN "returned" ELSE call[r]]
  /\ UNCHANGED <<wireVars, serverVars, clientVars, reply>>

-----------------------------------------------------------------------------
\* The relay: Server.handleAttach

\* The Register frame.  An older connection of the node is closed.
Register(c) ==
  LET old == attached[Owner[c]] IN
  /\ link[c] = "open" /\ c \notin serving
  /\ link' = [d \in Conns |-> IF d = old THEN "closed" ELSE link[d]]
  /\ attached' = [attached EXCEPT ![Owner[c]] = c]
  /\ serving' = serving \cup {c}
  /\ UNCHANGED <<nodeVars, inbox, outbox, pending, clientVars, callVars>>

\* A DeliverResponse frame: the waiter, if there is one, gets the answer.
RelayResponse(c, r) ==
  /\ c \in serving /\ link[c] = "open" /\ r \in outbox[c]
  /\ outbox' = [outbox EXCEPT ![c] = @ \ {r}]
  /\ pending' = pending \ {r}
  /\ reply' = IF r \in pending THEN [reply EXCEPT ![r] = "answer"] ELSE reply
  /\ UNCHANGED <<nodeVars, link, inbox, serving, attached, clientVars, call>>

\* The attachments that remain when the goroutine of connection c ends.
DetachedNode(c) == [attached EXCEPT ![Owner[c]] = None]   \* bug: cur.conn is not compared

DetachedConn(c) ==
  [n \in Nodes |-> IF attached[n] = c THEN None ELSE attached[n]]

\* A read fails: the connection is closed, or the node has gone.
Detach(c) ==
  /\ c \in serving /\ (link[c] = "closed" \/ loop[c] = "ended")
  /\ attached' = DetachedConn(c)
  /\ serving' = serving \ {c}
  /\ link' = [link EXCEPT ![c] = "closed"]
  /\ UNCHANGED <<nodeVars, inbox, outbox, pending, clientVars, callVars>>

-----------------------------------------------------------------------------
\* The relay: Server.handleClient, and the caller: Node.DialRpcViaRelay

\* A call that no handler makes.
Call(r) ==
  /\ call[r] = "none" /\ \A s \in Requests : Sub[s] # r
  /\ call' = [call EXCEPT ![r] = "waits"]
  /\ place' = [place EXCEPT ![r] = "lookup"]
  /\ UNCHANGED <<nodeVars, wireVars, serverVars, via, reply>>

\* bug: the error of getAttached is not checked
FindTargetUnchecked(r) ==
  /\ place[r] = "lookup"
  /\ via' = [via EXCEPT ![r] = attached[Target[r]]]
  /\ place' = [place EXCEPT ![r] = "pend"]
  /\ UNCHANGED <<nodeVars, wireVars, serverVars, callVars>>

\* getAttached.
FindTarget(r) ==
  /\ place[r] = "lookup"
  /\ via' = [via EXCEPT ![r] = attached[Target[r]]]
  /\ IF via'[r] = None
     THEN place' = [place EXCEPT ![r] = "done"] /\ reply' = [reply EXCEPT ![r] = "error"]
     ELSE place' = [place EXCEPT ![r] = "pend"] /\ UNCHANGED reply
  /\ UNCHANGED <<nodeVars, wireVars, serverVars, call>>

NotPended(r) == pending           \* bug: the waiter is not registered before the request is sent

Pended(r) == pending \cup {r}

RegisterWaiter(r) ==
  /\ place[r] = "pend"
  /\ pending' = Pended(r)
  /\ place' = [place EXCEPT ![r] = "forward"]
  /\ UNCHANGED <<nodeVars, wireVars, serving, attached, via, callVars>>

\* The frame is written; a write to a node that has gone may still succeed.
Forward(r) ==
  LET c == via[r] IN
  /\ place[r] = "forward" /\ link[c] = "open"
  /\ inbox' = [inbox EXCEPT ![c] = @ \cup {r}]
  /\ place' = [place EXCEPT ![r] = "forwarded"]
  /\ UNCHANGED <<nodeVars, link, outbox, serverVars, via, callVars>>

ForwardFails(r) ==
  LET c == via[r] IN
  /\ place[r] = "forward" /\ (link[c] = "closed" \/ loop[c] = "ended")
  /\ pending' = pending \ {r}
  /\ reply' = [reply EXCEPT ![r] = "error"]
  /\ place' = [place EXCEPT ![r] = "done"]
  /\ UNCHANGED <<nodeVars, wireVars, serving, attached, via, call>>

\* The caller reads the frame.
Return(r) ==
  /\ call[r] = "waits" /\ reply[r] # "none"
  /\ call' = [call EXCEPT ![r] = "returned"]
  /\ UNCHANGED <<nodeVars, wireVars, serverVars, clientVars, reply>>

NoDeadline(r) == FALSE /\ UNCHANGED vars      \* bug: SetDeadline is not called

\* RpcTimeout passes; the caller closes its connection, which the relay ignores.
Timeout(r) ==
  /\ call[r] = "waits"
  /\ call' = [call EXCEPT ![r] = "returned"]
  /\ UNCHANGED <<nodeVars, wireVars, serverVars, clientVars, reply>>

-----------------------------------------------------------------------------

NodeStep(c) ==
  (\E r \in Requests : TakeRequest(c, r)) \/ Respond(c) \/ LoopEnds(c)

ServeStep(c) ==
  Register(c) \/ (\E r \in Requests : RelayResponse(c, r)) \/ Detach(c)

ClientStep(r) ==
  FindTarget(r) \/ RegisterWaiter(r) \/ Forward(r) \/ ForwardFails(r)

Next ==
  \/ \E c \in Conns : Attach(c) \/ NodeStep(c) \/ NodeStops(c) \/ ServeStep(c)
  \/ \E r \in Requests : Call(r) \/ ClientStep(r) \/ Return(r) \/ Timeout(r)

Spec == Init /\ [][Next]_vars

\* Goroutines that can run do, and deadlines pass.
FairSpec ==
  /\ Spec
  /\ \A c \in Conns : WF_vars(NodeStep(c)) /\ WF_vars(ServeStep(c))
  /\ \A r \in Requests :
       WF_vars(ClientStep(r)) /\ WF_vars(Return(r)) /\ WF_vars(Timeout(r))

-----------------------------------------------------------------------------
\* Properties

\* Every variable has its type, and a request is forwarded over a connection.
TypeOK ==
  /\ link \in [Conns -> {"new", "open", "closed"}]
  /\ loop \in [Conns -> {"none", "runs", "ended"}]
  /\ handling \in [Conns -> Requests \cup {None}]
  /\ inbox \in [Conns -> SUBSET Requests]
  /\ outbox \in [Conns -> SUBSET Requests]
  /\ serving \subseteq Conns
  /\ attached \in [Nodes -> Conns \cup {None}]
  /\ pending \subseteq Requests
  /\ place \in [Requests -> {"none", "lookup", "pend", "forward", "forwarded", "done"}]
  /\ via \in [Requests -> Conns \cup {None}]
  /\ \A r \in Requests : place[r] \in {"pend", "forward", "forwarded"} => via[r] \in Conns
  /\ call \in [Requests -> {"none", "waits", "returned"}]
  /\ reply \in [Requests -> {"none", "answer", "error"}]

\* A node is attached exactly over the connection that is open and served,
\* although connections are replaced, break and are cleaned up by goroutines
\* of their own: the cleanup of an old connection never removes a new one.
AttachedIsServed ==
  /\ \A n \in Nodes : attached[n] # None => attached[n] \in serving
  /\ \A c \in serving : link[c] = "open" => attached[Owner[c]] = c

\* A request is somewhere between the relay and the node it was sent to.
InTransit(r) ==
  LET c == via[r] IN r \in inbox[c] \cup outbox[c] \cup {handling[c]}

Broken(c) == link[c] = "closed" \/ loop[c] = "ended"

\* No answer is lost: a caller that has got nothing yet is registered, and its
\* request or the response is on its way, unless the connection has broken.
\* One who has got a frame is no longer registered, so he gets no other one.
WaitersAreOwed ==
  \A r \in Requests :
    /\ place[r] = "forwarded" /\ reply[r] = "none" =>
         r \in pending /\ (InTransit(r) \/ Broken(via[r]))
    /\ r \in pending => reply[r] = "none"

\* Why these hold: a connection is served and run only once it is open, a waiter
\* is registered from before the request is sent until a frame is, and a request
\* reaches one node, once.
Opened ==
  \A c \in Conns : link[c] = "new" => loop[c] = "none" /\ c \notin serving

Registered ==
  \A r \in Requests :
    /\ place[r] \in {"none", "lookup", "pend", "forward"} => reply[r] = "none"
    /\ place[r] = "forward" => r \in pending
    /\ r \in pending => place[r] \in {"forward", "forwarded"}

NotCalled(r) == Sub[r] # None => place[Sub[r]] = "none"

TakenOnce ==
  /\ \A r \in Requests : place[r] # "forwarded" => NotCalled(r)
  /\ \A c \in Conns : \A r \in inbox[c] :
       via[r] = c /\ place[r] = "forwarded" /\ NotCalled(r)
  /\ \A c \in Conns : \A r \in outbox[c] \cup {handling[c]} :
       r # None => place[r] = "forwarded"
  /\ \A r \in Requests : call[r] = "none" => place[r] = "none"

RelayInv ==
  TypeOK /\ AttachedIsServed /\ Opened /\ WaitersAreOwed /\ Registered /\ TakenOnce

\* Nodes whose handlers wait for each other do not do so for ever: whatever
\* reaches a node is answered unless the connection breaks.
RequestsServed ==
  \A c \in Conns, r \in Requests :
    r \in inbox[c] \cup {handling[c]} ~> r \notin inbox[c] \cup {handling[c]} \/ Broken(c)
=============================================================================
