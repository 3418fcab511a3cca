------------------------------ MODULE DagFetch ------------------------------
(***************************************************************************)
(* dag.FetchParallel over the DAG that BuildFromReader put.  Every call of *)
(* fetchRange is identified by its path in the DAG, <<>> for the root.  A  *)
(* child whose span is at most InlineSpan (1<<16 in the code) is fetched   *)
(* by a call in the same goroutine, a larger one by a goroutine of its own *)
(* that sends its result on the channel of its parent, and waits if that   *)
(* channel is full.  The semaphore is held during GetBlock only.  Blocks   *)
(* may be lost at any time, and the context may be cancelled; a call may   *)
(* then fail where it need not.                                            *)
(***************************************************************************)
EXTENDS DagBuild, DagReader

CONSTANTS
  InlineSpan,   \* the largest span that is fetched inline
  Parallel      \* the capacity of the semaphore

ASSUME FetchAssumption ==
  /\ InlineSpan \in Nat
  /\ Parallel \in Nat \ {0}

Zero == 0       \* what a new buffer is filled with; no file has this byte

VARIABLES
  ctxDone,    \* the context of the fetch is cancelled
  fetch,      \* "none", "manifest", "wait", "ok" or "error"
  target,     \* the CID that is fetched
  out,        \* the buffer all goroutines write to
  sem,        \* the slots of the semaphore that are taken
  call,       \* the calls of fetchRange made so far
  errCh       \* the results sent on the channel of each call

fvars == <<ctxDone, fetch, target, out, sem, call, errCh>>
vars  == <<file, rest, phase, cur, next, store, lost,
           ctxDone, fetch, target, out, sem, call, errCh>>

FetchInit ==
  /\ BuildInit
  /\ ctxDone = FALSE
  /\ fetch = "none" /\ target = Leaf(<<>>)
  /\ out = <<>> /\ sem = 0
  /\ call = <<>> /\ errCh = <<>>
-----------------------------------------------------------------------------
\* Calls of fetchRange

NewCall(cid, base, span) ==
  [at |-> "acquire", cid |-> cid, base |-> base, span |-> span,
   child |-> 1, tasks |-> 0, ret |-> "none"]

\* All paths with a call, and one more.
With(f, p, v) == [q \in DOMAIN f \cup {p} |-> IF q = p THEN v ELSE f[q]]

Spawned(p) == p = <<>> \/ call[p].span > InlineSpan

Parent(p) == SubSeq(p, 1, Len(p) - 1)

Place(p, place) == call[p].at = place

\* fetchRange returns; a goroutine has the result still to send.
Return(p, result) ==
  /\ call' = [call EXCEPT ![p].at = IF Spawned(p) THEN "send" ELSE "done", ![p].ret = result]
  /\ UNCHANGED errCh

CallUnchanged == UNCHANGED <<bvars, ctxDone, fetch, target>>

\* bug: make(chan error) in fetchRange
Unbuffered(p) == IF p = <<>> THEN 1 ELSE 0

\* bug: no room for the result of the last child
OneShort(p) == IF p = <<>> THEN 1 ELSE Len(call[Parent(p)].cid.cids) - 1

\* The capacity of the channel on which the goroutine of p sends: that of
\* FetchParallel has room for one result, that of a node for one per child.
Capacity(p) == IF p = <<>> THEN 1 ELSE Len(call[Parent(p)].cid.cids)

\* All children have been passed, and goroutines are waited for.
Receiving(p) ==
  /\ Place(p, "loop") /\ call[p].child > Len(call[p].cid.cids)
  /\ call[p].tasks > 0

\* A send goes on when the channel is not full, or when the receiver waits at
\* an empty one.  FetchParallel receives only after the send, and only once.
Room(p) ==
  IF p = <<>> THEN Capacity(p) > 0
  ELSE \/ Len(errCh[Parent(p)]) < Capacity(p)
       \/ Receiving(Parent(p)) /\ errCh[Parent(p)] = <<>>

\* errCh <- fetchRange(...), the last thing a goroutine does; that of the root
\* closes done as well.
Send(p) ==
  /\ Place(p, "send") /\ Room(p)
  /\ call' = [call EXCEPT ![p].at = "done"]
  /\ errCh' = IF p = <<>> THEN errCh
              ELSE [errCh EXCEPT ![Parent(p)] = Append(@, call[p].ret)]
  /\ UNCHANGED <<out, sem>> /\ CallUnchanged

Acquire(p) ==
  /\ Place(p, "acquire") /\ sem < Parallel
  /\ sem' = sem + 1
  /\ call' = [call EXCEPT ![p].at = "get"]
  /\ UNCHANGED <<out, errCh>> /\ CallUnchanged

AcquireCancelled(p) ==
  /\ Place(p, "acquire") /\ ctxDone
  /\ Return(p, "error")
  /\ UNCHANGED <<out, sem>> /\ CallUnchanged

\* bug: the slot is released after a successful read only
GetFailsInSlot(p) ==
  /\ Place(p, "get")
  /\ ctxDone \/ call[p].cid \notin store \ lost
  /\ Return(p, "error")
  /\ UNCHANGED <<out, sem>> /\ CallUnchanged

\* GetBlock returns an error.
GetFails(p) ==
  /\ Place(p, "get")
  /\ ctxDone \/ call[p].cid \notin store \ lost
  /\ sem' = sem - 1
  /\ Return(p, "error")
  /\ UNCHANGED out /\ CallUnchanged

\* copy(out[base:base+span], b.Payload[:span])
GetLeaf(p) ==
  LET c == call[p]
  IN /\ Place(p, "get") /\ c.cid \in store \ lost /\ c.cid.type = "data"
     /\ sem' = sem - 1
     /\ out' = [i \in DOMAIN out |->
                  IF i \in (c.base + 1)..(c.base + c.span)
                  THEN c.cid.payload[i - c.base] ELSE out[i]]
     /\ Return(p, "ok")
     /\ CallUnchanged

\* bug: only a node with all its children is taken
GetNodeFull(p) ==
  /\ Place(p, "get") /\ call[p].cid \in store \ lost /\ call[p].cid.type = "node"
  /\ sem' = sem - 1
  /\ IF call[p].cid.size = call[p].span /\ Len(call[p].cid.cids) = Fanout
     THEN /\ call' = [call EXCEPT ![p].at = "loop"]
          /\ errCh' = With(errCh, p, <<>>)
     ELSE Return(p, "error")
  /\ UNCHANGED out /\ CallUnchanged

GetNode(p) ==
  /\ Place(p, "get") /\ call[p].cid \in store \ lost /\ call[p].cid.type = "node"
  /\ sem' = sem - 1
  /\ IF call[p].cid.size = call[p].span
     THEN /\ call' = [call EXCEPT ![p].at = "loop"]
          /\ errCh' = With(errCh, p, <<>>)
     ELSE Return(p, "error")
  /\ UNCHANGED out /\ CallUnchanged

\* The next child of a node: a call in this goroutine, or a new goroutine.
NextChild(p) ==
  LET c      == call[p]
      span   == c.cid.spans[c.child]
      offset == c.base + SumTo(c.cid.spans)[c.child - 1]
      inline == span <= InlineSpan
  IN /\ Place(p, "loop") /\ c.child <= Len(c.cid.cids)
     /\ call' = With([call EXCEPT ![p].at = IF inline THEN "inline" ELSE "loop",
                                  ![p].child = IF inline THEN @ ELSE @ + 1,
                                  ![p].tasks = IF inline THEN @ ELSE @ + 1],
                     Append(p, c.child), NewCall(c.cid.cids[c.child], offset, span))
     /\ UNCHANGED <<out, sem, errCh>> /\ CallUnchanged

InlineReturns(p) ==
  LET made == call[Append(p, call[p].child)]
  IN /\ Place(p, "inline") /\ made.at = "done"
     /\ IF made.ret = "ok"
        THEN /\ call' = [call EXCEPT ![p].at = "loop", ![p].child = @ + 1]
             /\ UNCHANGED errCh
        ELSE Return(p, "error")
     /\ UNCHANGED <<out, sem>> /\ CallUnchanged

\* One result of a goroutine, the first error is returned at once.
Collect(p) ==
  /\ Receiving(p) /\ errCh[p] # <<>>
  /\ IF Head(errCh[p]) = "ok"
     THEN /\ call' = [call EXCEPT ![p].tasks = @ - 1]
          /\ errCh' = [errCh EXCEPT ![p] = Tail(@)]
     ELSE Return(p, "error")
  /\ UNCHANGED <<out, sem>> /\ CallUnchanged

\* bug: the goroutines are not waited for
NoneCollected(p) ==
  /\ Place(p, "loop") /\ call[p].child > Len(call[p].cid.cids)
  /\ Return(p, "ok")
  /\ UNCHANGED <<out, sem>> /\ CallUnchanged

AllCollected(p) ==
  /\ Place(p, "loop") /\ call[p].child > Len(call[p].cid.cids)
  /\ call[p].tasks = 0
  /\ Return(p, "ok")
  /\ UNCHANGED <<out, sem>> /\ CallUnchanged

FetchRange(p) ==
  \/ Acquire(p) \/ AcquireCancelled(p)
  \/ GetFails(p) \/ GetLeaf(p) \/ GetNode(p)
  \/ NextChild(p) \/ InlineReturns(p) \/ Collect(p) \/ AllCollected(p) \/ Send(p)
-----------------------------------------------------------------------------
\* FetchParallel

StartFetch(c) ==
  /\ phase = "done" /\ fetch = "none"
  /\ fetch' = "manifest" /\ target' = c
  /\ UNCHANGED <<bvars, ctxDone, out, sem, call, errCh>>

\* The manifest is read by the caller, the root by a goroutine.
GetManifest ==
  /\ fetch = "manifest"
  /\ target \in store \ lost /\ target.type = "manifest"
  /\ out' = [i \in 1..target.size |-> Zero]
  /\ call' = With(call, <<>>, NewCall(target.root, 0, target.size))
  /\ fetch' = "wait"
  /\ UNCHANGED <<bvars, ctxDone, target, sem, errCh>>

GetManifestFails ==
  /\ fetch = "manifest"
  /\ target \notin store \ lost \/ target.type # "manifest" \/ ctxDone
  /\ fetch' = "error"
  /\ UNCHANGED <<bvars, ctxDone, target, out, sem, call, errCh>>

\* The select of FetchParallel: either case when both are ready.  When done is
\* closed the result of the root is in the channel.
FetchReturns ==
  /\ fetch = "wait" /\ Place(<<>>, "done")
  /\ fetch' = call[<<>>].ret
  /\ UNCHANGED <<bvars, ctxDone, target, out, sem, call, errCh>>

FetchCancelled ==
  /\ fetch = "wait" /\ ctxDone
  /\ fetch' = "error"
  /\ UNCHANGED <<bvars, ctxDone, target, out, sem, call, errCh>>

\* The client goes away, or its request has been answered.
Cancel ==
  /\ fetch # "none" /\ ~ctxDone
  /\ ctxDone' = TRUE
  /\ UNCHANGED <<bvars, fetch, target, out, sem, call, errCh>>

Returned == fetch \in {"ok", "error"}
CallsOver == \A p \in DOMAIN call : Place(p, "done")

\* The node serves on when the request is answered, whatever goroutines are left.
Over ==
  /\ phase = "failed" \/ Returned
  /\ UNCHANGED vars

Caller == GetManifest \/ GetManifestFails \/ FetchReturns \/ FetchCancelled

Next ==
  \/ (Build \/ \E c \in store : LoseBlock(c)) /\ UNCHANGED fvars
  \/ \E c \in store : StartFetch(c)
  \/ Caller \/ Cancel
  \/ \E p \in DOMAIN call : FetchRange(p)
  \/ Over

Spec == FetchInit /\ [][Next]_vars

(***************************************************************************)
(* Every goroutine that can go on does, and GetBlock returns: a fetch over *)
(* the network ends with an answer or after the RPC timeout.  Nothing      *)
(* obliges the environment to cancel, to lose blocks or to ask.            *)
(***************************************************************************)
FairSpec ==
  /\ Spec
  /\ WF_vars(Build /\ UNCHANGED fvars)
  /\ WF_vars(Caller)
  /\ WF_vars(\E p \in DOMAIN call : FetchRange(p))
-----------------------------------------------------------------------------
(***************************************************************************)
(* Types, and the one thing every goroutine relies on: a slot of the       *)
(* semaphore is taken exactly while a GetBlock is in progress.             *)
(***************************************************************************)
TypeOK ==
  /\ phase \in {"read", "group", "done", "failed"}
  /\ fetch \in {"none", "manifest", "wait", "ok", "error"}
  /\ ctxDone \in BOOLEAN
  /\ lost \subseteq store /\ target \in store \cup {Leaf(<<>>)}
  /\ sem \in 0..Parallel
  /\ sem = Cardinality({p \in DOMAIN call : Place(p, "get")})
  /\ \A p \in DOMAIN call :
       /\ call[p].at \in {"acquire", "get", "loop", "inline", "send", "done"}
       /\ call[p].ret \in {"none", "ok", "error"}
       /\ call[p].cid.type # "data" => call[p].tasks <= Fanout

(***************************************************************************)
(* When FetchParallel returns data, no goroutine it started still runs: an *)
(* unfinished one would go on writing to a buffer the caller reads.        *)
(***************************************************************************)
QuietWhenReturned == fetch = "ok" => CallsOver

(***************************************************************************)
(* A goroutine that has its result never waits to send it, in whatever     *)
(* order results come and errors end the calls above: nobody may be left   *)
(* to receive it.                                                          *)
(***************************************************************************)
SendsHaveRoom ==
  \A p \in DOMAIN call : Place(p, "send") /\ p # <<>> => Len(errCh[Parent(p)]) < Capacity(p)

\* What the pairs of a level hold, as the sequential reader sees it.
LevelBytes(level) ==
  FetchChildren([i \in DOMAIN level |-> FetchRangeSeq(store)[level[i].cid][level[i].span]])

(***************************************************************************)
(* While the DAG is built, the blocks without a parent hold exactly what   *)
(* has been read of the file, in order, and each has the span its parent   *)
(* will record.                                                            *)
(***************************************************************************)
LevelsHoldFile ==
  phase \in {"read", "group"} =>
    /\ LevelBytes(next \o cur) = Bytes(SubSeq(file, 1, Len(file) - Len(rest)))
    /\ \A i \in DOMAIN cur : VerifySubtree(store)[cur[i].cid][cur[i].span]

(***************************************************************************)
(* A finished add leaves a manifest in the store that Verify accepts and   *)
(* that Fetch reads back, and FetchParallel never returns anything else    *)
(* for it than Fetch does.                                                 *)
(***************************************************************************)
ReadersAgree ==
  /\ phase = "done" =>
       \E m \in store : m.type = "manifest" /\ Verify(store, m) /\ Fetch(store, m) = Bytes(file)
  /\ fetch = "ok" => Fetch(store, target) = Bytes(out)

(***************************************************************************)
(* What the refinement sees: an add and a fetch, without blocks.           *)
(***************************************************************************)
Contract == INSTANCE FileContract WITH
  add     <- IF phase \in {"read", "group"} THEN "running" ELSE phase,
  fetch   <- IF fetch \in {"manifest", "wait"} THEN "running" ELSE fetch,
  asked   <- IF fetch # "none" /\ target.type # "manifest" THEN "block" ELSE "file",
  gaveUp  <- ctxDone,
  damaged <- lost # {},
  data    <- IF fetch = "ok" THEN out ELSE <<>>

\* Adding and fetching back implement the contract.
ImplementsFileContract == Contract!Spec

(***************************************************************************)
(* A fetch that was asked for returns, whatever its goroutines met, and    *)
(* none of them stays behind for good at a channel or at the semaphore,    *)
(* not even when it returned on the first error or was cancelled.          *)
(***************************************************************************)
FetchEnds == fetch = "manifest" ~> Returned /\ CallsOver
=============================================================================
