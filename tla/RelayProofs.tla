---------------------------- MODULE RelayProofs -----------------------------
(***************************************************************************)
(* Proofs about the relay, for any number of nodes, connections and        *)
(* requests, and any way in which the handlers of requests make others.    *)
(***************************************************************************)
EXTENDS Relay, TLAPS

-----------------------------------------------------------------------------
\* Type correctness

LEMMA TypeInit == Init => TypeOK
  BY RelayAssumption DEF Init, TypeOK

LEMMA TypeNext == TypeOK /\ [Next]_vars => TypeOK'
<1> SUFFICES ASSUME TypeOK, [Next]_vars PROVE TypeOK'
  OBVIOUS
<1> USE RelayAssumption DEF nodeVars, wireVars, serverVars, clientVars, callVars
<1>1. ASSUME NEW c \in Conns, Attach(c) PROVE TypeOK'
  BY <1>1 DEF Attach, TypeOK
<1>2. ASSUME NEW c \in Conns, NEW r \in Requests, TakeRequest(c, r) PROVE TypeOK'
  BY <1>2 DEF TakeRequest, TypeOK
<1>3. ASSUME NEW c \in Conns, Respond(c) PROVE TypeOK'
  BY <1>3 DEF Respond, TypeOK
<1>4. ASSUME NEW c \in Conns, LoopEnds(c) PROVE TypeOK'
  BY <1>4 DEF LoopEnds, TypeOK
<1>5. ASSUME NEW c \in Conns, NodeStops(c) PROVE TypeOK'
  BY <1>5 DEF NodeStops, TypeOK
<1>6. ASSUME NEW c \in Conns, Register(c) PROVE TypeOK'
  BY <1>6 DEF Register, TypeOK
<1>7. ASSUME NEW c \in Conns, NEW r \in Requests, RelayResponse(c, r) PROVE TypeOK'
  BY <1>7 DEF RelayResponse, TypeOK
<1>8. ASSUME NEW c \in Conns, Detach(c) PROVE TypeOK'
  BY <1>8 DEF Detach, DetachedConn, TypeOK
<1>9. ASSUME NEW r \in Requests, Call(r) PROVE TypeOK'
  BY <1>9 DEF Call, TypeOK
<1>10. ASSUME NEW r \in Requests, FindTarget(r) PROVE TypeOK'
  <2>1. CASE attached[Target[r]] = None
    <3>1. place' = [place EXCEPT ![r] = "done"] /\ reply' = [reply EXCEPT ![r] = "error"]
      BY <1>10, <2>1 DEF FindTarget, TypeOK
    <3> QED
      BY <1>10, <2>1, <3>1 DEF FindTarget, TypeOK
  <2>2. CASE attached[Target[r]] # None
    <3>1. place' = [place EXCEPT ![r] = "pend"] /\ reply' = reply
      BY <1>10, <2>2 DEF FindTarget, TypeOK
    <3> QED
      BY <1>10, <2>2, <3>1 DEF FindTarget, TypeOK
  <2> QED
    BY <2>1, <2>2
<1>11. ASSUME NEW r \in Requests, RegisterWaiter(r) PROVE TypeOK'
  BY <1>11 DEF RegisterWaiter, Pended, TypeOK
<1>12. ASSUME NEW r \in Requests, Forward(r) PROVE TypeOK'
  BY <1>12 DEF Forward, TypeOK
<1>13. ASSUME NEW r \in Requests, ForwardFails(r) PROVE TypeOK'
  BY <1>13 DEF ForwardFails, TypeOK
<1>14. ASSUME NEW r \in Requests, Return(r) PROVE TypeOK'
  BY <1>14 DEF Return, TypeOK
<1>15. ASSUME NEW r \in Requests, Timeout(r) PROVE TypeOK'
  BY <1>15 DEF Timeout, TypeOK
<1>16. CASE UNCHANGED vars
  BY <1>16 DEF vars, TypeOK
<1> QED
  BY <1>1, <1>2, <1>3, <1>4, <1>5, <1>6, <1>7, <1>8,
     <1>9, <1>10, <1>11, <1>12, <1>13, <1>14, <1>15, <1>16
  DEF Next, NodeStep, ServeStep, ClientStep

-----------------------------------------------------------------------------
\* Attachments

LEMMA AttachedNext ==
  TypeOK /\ AttachedIsServed /\ Opened /\ [Next]_vars => AttachedIsServed' /\ Opened'
<1> SUFFICES ASSUME TypeOK, AttachedIsServed, Opened, [Next]_vars
             PROVE  AttachedIsServed' /\ Opened'
  OBVIOUS
<1> USE RelayAssumption DEF TypeOK, AttachedIsServed, Opened, nodeVars, wireVars, serverVars, clientVars, callVars
<1>1. ASSUME NEW c \in Conns, Attach(c) PROVE AttachedIsServed' /\ Opened'
  BY <1>1 DEF Attach
<1>2. ASSUME NEW c \in Conns, NEW r \in Requests, TakeRequest(c, r) PROVE AttachedIsServed' /\ Opened'
  BY <1>2 DEF TakeRequest
<1>3. ASSUME NEW c \in Conns, Respond(c) PROVE AttachedIsServed' /\ Opened'
  BY <1>3 DEF Respond
<1>4. ASSUME NEW c \in Conns, LoopEnds(c) PROVE AttachedIsServed' /\ Opened'
  BY <1>4 DEF LoopEnds
<1>5. ASSUME NEW c \in Conns, NodeStops(c) PROVE AttachedIsServed' /\ Opened'
  BY <1>5 DEF NodeStops
<1>6. ASSUME NEW c \in Conns, Register(c) PROVE AttachedIsServed' /\ Opened'
  BY <1>6 DEF Register
<1>7. ASSUME NEW c \in Conns, NEW r \in Requests, RelayResponse(c, r) PROVE AttachedIsServed' /\ Opened'
  BY <1>7 DEF RelayResponse
<1>8. ASSUME NEW c \in Conns, Detach(c) PROVE AttachedIsServed' /\ Opened'
  BY <1>8 DEF Detach, DetachedConn
<1>9. ASSUME NEW r \in Requests, Call(r) PROVE AttachedIsServed' /\ Opened'
  BY <1>9 DEF Call
<1>10. ASSUME NEW r \in Requests, FindTarget(r) PROVE AttachedIsServed' /\ Opened'
  BY <1>10 DEF FindTarget
<1>11. ASSUME NEW r \in Requests, RegisterWaiter(r) PROVE AttachedIsServed' /\ Opened'
  BY <1>11 DEF RegisterWaiter, Pended
<1>12. ASSUME NEW r \in Requests, Forward(r) PROVE AttachedIsServed' /\ Opened'
  BY <1>12 DEF Forward
<1>13. ASSUME NEW r \in Requests, ForwardFails(r) PROVE AttachedIsServed' /\ Opened'
  BY <1>13 DEF ForwardFails
<1>14. ASSUME NEW r \in Requests, Return(r) PROVE AttachedIsServed' /\ Opened'
  BY <1>14 DEF Return
<1>15. ASSUME NEW r \in Requests, Timeout(r) PROVE AttachedIsServed' /\ Opened'
  BY <1>15 DEF Timeout
<1>16. CASE UNCHANGED vars
  BY <1>16 DEF vars
<1> QED
  BY <1>1, <1>2, <1>3, <1>4, <1>5, <1>6, <1>7, <1>8,
     <1>9, <1>10, <1>11, <1>12, <1>13, <1>14, <1>15, <1>16
  DEF Next, NodeStep, ServeStep, ClientStep

-----------------------------------------------------------------------------
\* Waiters and requests

LEMMA RegisteredNext ==
  TypeOK /\ Registered /\ TakenOnce /\ [Next]_vars => Registered'
<1> SUFFICES ASSUME TypeOK, Registered, TakenOnce, [Next]_vars PROVE Registered'
  OBVIOUS
<1> USE RelayAssumption DEF TypeOK, Registered, TakenOnce, NotCalled, nodeVars, wireVars, serverVars, clientVars, callVars
<1>1. ASSUME NEW c \in Conns, Attach(c) PROVE Registered'
  BY <1>1 DEF Attach
<1>2. ASSUME NEW c \in Conns, NEW r \in Requests, TakeRequest(c, r) PROVE Registered'
  BY <1>2 DEF TakeRequest
<1>3. ASSUME NEW c \in Conns, Respond(c) PROVE Registered'
  BY <1>3 DEF Respond
<1>4. ASSUME NEW c \in Conns, LoopEnds(c) PROVE Registered'
  BY <1>4 DEF LoopEnds
<1>5. ASSUME NEW c \in Conns, NodeStops(c) PROVE Registered'
  BY <1>5 DEF NodeStops
<1>6. ASSUME NEW c \in Conns, Register(c) PROVE Registered'
  BY <1>6 DEF Register
<1>7. ASSUME NEW c \in Conns, NEW r \in Requests, RelayResponse(c, r) PROVE Registered'
  BY <1>7 DEF RelayResponse
<1>8. ASSUME NEW c \in Conns, Detach(c) PROVE Registered'
  BY <1>8 DEF Detach, DetachedConn
<1>9. ASSUME NEW r \in Requests, Call(r) PROVE Registered'
  BY <1>9 DEF Call
<1>10. ASSUME NEW r \in Requests, FindTarget(r) PROVE Registered'
  BY <1>10 DEF FindTarget
<1>11. ASSUME NEW r \in Requests, RegisterWaiter(r) PROVE Registered'
  BY <1>11 DEF RegisterWaiter, Pended
<1>12. ASSUME NEW r \in Requests, Forward(r) PROVE Registered'
  BY <1>12 DEF Forward
<1>13. ASSUME NEW r \in Requests, ForwardFails(r) PROVE Registered'
  BY <1>13 DEF ForwardFails
<1>14. ASSUME NEW r \in Requests, Return(r) PROVE Registered'
  BY <1>14 DEF Return
<1>15. ASSUME NEW r \in Requests, Timeout(r) PROVE Registered'
  BY <1>15 DEF Timeout
<1>16. CASE UNCHANGED vars
  BY <1>16 DEF vars
<1> QED
  BY <1>1, <1>2, <1>3, <1>4, <1>5, <1>6, <1>7, <1>8,
     <1>9, <1>10, <1>11, <1>12, <1>13, <1>14, <1>15, <1>16
  DEF Next, NodeStep, ServeStep, ClientStep

LEMMA TakenNext ==
  TypeOK /\ TakenOnce /\ [Next]_vars => TakenOnce'
<1> SUFFICES ASSUME TypeOK, TakenOnce, [Next]_vars PROVE TakenOnce'
  OBVIOUS
<1> USE RelayAssumption DEF TypeOK, TakenOnce, NotCalled, nodeVars, wireVars, serverVars, clientVars, callVars
<1>1. ASSUME NEW c \in Conns, Attach(c) PROVE TakenOnce'
  BY <1>1 DEF Attach
<1>2. ASSUME NEW c \in Conns, NEW r \in Requests, TakeRequest(c, r) PROVE TakenOnce'
  <2>1. /\ handling' = [handling EXCEPT ![c] = r] /\ outbox' = outbox /\ via' = via
        /\ inbox' = [inbox EXCEPT ![c] = inbox[c] \ {r}] /\ r \in inbox[c]
    BY <1>2 DEF TakeRequest
  <2>2. via[r] = c /\ place[r] = "forwarded" /\ NotCalled(r)
    BY <2>1
  <2>3. CASE Sub[r] = None
    <3>1. place' = place /\ call' = call
      BY <1>2, <2>3 DEF TakeRequest
    <3> QED
      BY <2>1, <2>2, <3>1
  <2>4. CASE Sub[r] # None
    <3> DEFINE s == Sub[r]
    <3>1. /\ s \in Requests /\ place[s] = "none" /\ s # r
          /\ place' = [place EXCEPT ![s] = "lookup"] /\ call' = [call EXCEPT ![s] = "waits"]
      BY <1>2, <2>2, <2>4 DEF TakeRequest
    <3> HIDE DEF s
    <3>2. \A t \in Requests \ {r} : Sub[t] # None => Sub[t] # s
      BY <2>4 DEF s
    <3>3. \A t \in Requests \ {r} : NotCalled(t) => NotCalled(t)'
      BY <3>1, <3>2
    <3>4. ASSUME NEW t \in Requests, place'[t] # "forwarded" PROVE NotCalled(t)'
      BY <2>2, <3>1, <3>3, <3>4
    <3>5. ASSUME NEW d \in Conns, NEW t \in inbox'[d]
          PROVE  via'[t] = d /\ place'[t] = "forwarded" /\ NotCalled(t)'
      <4>1. t \in inbox[d] /\ t # r /\ t \in Requests
        BY <2>1, <2>2, <3>5
      <4>2. via[t] = d /\ place[t] = "forwarded" /\ NotCalled(t)
        BY <4>1
      <4> QED
        BY <2>1, <3>1, <3>3, <4>1, <4>2
    <3>6. ASSUME NEW d \in Conns, NEW t \in outbox'[d] \cup {handling'[d]}, t # None
          PROVE  place'[t] = "forwarded"
      BY <2>1, <2>2, <3>1, <3>6
    <3>7. ASSUME NEW t \in Requests, call'[t] = "none" PROVE place'[t] = "none"
      BY <3>1, <3>7
    <3> QED
      BY <3>4, <3>5, <3>6, <3>7
  <2> QED
    BY <2>3, <2>4
<1>3. ASSUME NEW c \in Conns, Respond(c) PROVE TakenOnce'
  BY <1>3 DEF Respond
<1>4. ASSUME NEW c \in Conns, LoopEnds(c) PROVE TakenOnce'
  BY <1>4 DEF LoopEnds
<1>5. ASSUME NEW c \in Conns, NodeStops(c) PROVE TakenOnce'
  BY <1>5 DEF NodeStops
<1>6. ASSUME NEW c \in Conns, Register(c) PROVE TakenOnce'
  BY <1>6 DEF Register
<1>7. ASSUME NEW c \in Conns, NEW r \in Requests, RelayResponse(c, r) PROVE TakenOnce'
  BY <1>7 DEF RelayResponse
<1>8. ASSUME NEW c \in Conns, Detach(c) PROVE TakenOnce'
  BY <1>8 DEF Detach, DetachedConn
<1>9. ASSUME NEW r \in Requests, Call(r) PROVE TakenOnce'
  BY <1>9 DEF Call
<1>10. ASSUME NEW r \in Requests, FindTarget(r) PROVE TakenOnce'
  <2>1. CASE attached[Target[r]] = None
    <3>1. place' = [place EXCEPT ![r] = "done"] /\ reply' = [reply EXCEPT ![r] = "error"]
      BY <1>10, <2>1 DEF FindTarget, TypeOK
    <3> QED
      BY <1>10, <2>1, <3>1 DEF FindTarget, TypeOK
  <2>2. CASE attached[Target[r]] # None
    <3>1. place' = [place EXCEPT ![r] = "pend"] /\ reply' = reply
      BY <1>10, <2>2 DEF FindTarget, TypeOK
    <3> QED
      BY <1>10, <2>2, <3>1 DEF FindTarget, TypeOK
  <2> QED
    BY <2>1, <2>2
<1>11. ASSUME NEW r \in Requests, RegisterWaiter(r) PROVE TakenOnce'
  BY <1>11 DEF RegisterWaiter, Pended
<1>12. ASSUME NEW r \in Requests, Forward(r) PROVE TakenOnce'
  BY <1>12 DEF Forward
<1>13. ASSUME NEW r \in Requests, ForwardFails(r) PROVE TakenOnce'
  BY <1>13 DEF ForwardFails
<1>14. ASSUME NEW r \in Requests, Return(r) PROVE TakenOnce'
  BY <1>14 DEF Return
<1>15. ASSUME NEW r \in Requests, Timeout(r) PROVE TakenOnce'
  BY <1>15 DEF Timeout
<1>16. CASE UNCHANGED vars
  BY <1>16 DEF vars
<1> QED
  BY <1>1, <1>2, <1>3, <1>4, <1>5, <1>6, <1>7, <1>8,
     <1>9, <1>10, <1>11, <1>12, <1>13, <1>14, <1>15, <1>16
  DEF Next, NodeStep, ServeStep, ClientStep

LEMMA OwedNext ==
  RelayInv /\ [Next]_vars => WaitersAreOwed'
<1> SUFFICES ASSUME RelayInv, [Next]_vars PROVE WaitersAreOwed'
  OBVIOUS
<1> USE RelayAssumption
    DEF RelayInv, TypeOK, Opened, Registered, TakenOnce, NotCalled, WaitersAreOwed,
        InTransit, Broken, nodeVars, wireVars, serverVars, clientVars, callVars
<1>1. ASSUME NEW c \in Conns, Attach(c) PROVE WaitersAreOwed'
  BY <1>1 DEF Attach
<1>2. ASSUME NEW c \in Conns, NEW r \in Requests, TakeRequest(c, r) PROVE WaitersAreOwed'
  BY <1>2 DEF TakeRequest
<1>3. ASSUME NEW c \in Conns, Respond(c) PROVE WaitersAreOwed'
  BY <1>3 DEF Respond
<1>4. ASSUME NEW c \in Conns, LoopEnds(c) PROVE WaitersAreOwed'
  BY <1>4 DEF LoopEnds
<1>5. ASSUME NEW c \in Conns, NodeStops(c) PROVE WaitersAreOwed'
  BY <1>5 DEF NodeStops
<1>6. ASSUME NEW c \in Conns, Register(c) PROVE WaitersAreOwed'
  BY <1>6 DEF Register
<1>7. ASSUME NEW c \in Conns, NEW r \in Requests, RelayResponse(c, r) PROVE WaitersAreOwed'
  BY <1>7 DEF RelayResponse
<1>8. ASSUME NEW c \in Conns, Detach(c) PROVE WaitersAreOwed'
  BY <1>8 DEF Detach, DetachedConn
<1>9. ASSUME NEW r \in Requests, Call(r) PROVE WaitersAreOwed'
  BY <1>9 DEF Call
<1>10. ASSUME NEW r \in Requests, FindTarget(r) PROVE WaitersAreOwed'
  BY <1>10 DEF FindTarget
<1>11. ASSUME NEW r \in Requests, RegisterWaiter(r) PROVE WaitersAreOwed'
  BY <1>11 DEF RegisterWaiter, Pended
<1>12. ASSUME NEW r \in Requests, Forward(r) PROVE WaitersAreOwed'
  BY <1>12 DEF Forward
<1>13. ASSUME NEW r \in Requests, ForwardFails(r) PROVE WaitersAreOwed'
  BY <1>13 DEF ForwardFails
<1>14. ASSUME NEW r \in Requests, Return(r) PROVE WaitersAreOwed'
  BY <1>14 DEF Return
<1>15. ASSUME NEW r \in Requests, Timeout(r) PROVE WaitersAreOwed'
  BY <1>15 DEF Timeout
<1>16. CASE UNCHANGED vars
  BY <1>16 DEF vars
<1> QED
  BY <1>1, <1>2, <1>3, <1>4, <1>5, <1>6, <1>7, <1>8,
     <1>9, <1>10, <1>11, <1>12, <1>13, <1>14, <1>15, <1>16
  DEF Next, NodeStep, ServeStep, ClientStep

-----------------------------------------------------------------------------
LEMMA RelayInvariant == Spec => []RelayInv
<1>1. Init => RelayInv
  BY RelayAssumption, TypeInit
  DEF Init, RelayInv, AttachedIsServed, Opened, WaitersAreOwed, Registered, TakenOnce, NotCalled
<1>2. RelayInv /\ [Next]_vars => RelayInv'
  BY TypeNext, AttachedNext, RegisteredNext, TakenNext, OwedNext DEF RelayInv
<1> QED
  BY <1>1, <1>2, PTL DEF Spec

\* Every variable keeps its type.
THEOREM TypeCorrect == Spec => []TypeOK
  BY TypeInit, TypeNext, PTL DEF Spec

\* A node is attached exactly over its connection that is open and served,
\* whatever order the goroutines of its connections run in (handleAttach).
THEOREM AttachmentsAreServed == Spec => []AttachedIsServed
  BY RelayInvariant, PTL DEF RelayInv

\* No answer of a node is lost while its connection is up, and no caller gets
\* two frames (handleClient, handleAttach, AttachRelay).
THEOREM NoAnswerIsLost == Spec => []WaitersAreOwed
  BY RelayInvariant, PTL DEF RelayInv
=============================================================================
