------------------------------ MODULE ScopeStack ------------------------------
(***************************************************************************)
(* core/scope.py: the per-thread scope stacks, the per-state deques of     *)
(* closed spans, the registry through which a consumer on another thread   *)
(* finds those deques, and the per-request states of isolated_state.       *)
(*                                                                         *)
(* A call that closes a span is not atomic.  It reads end_ns and returns   *)
(* if the span is already closed ("check"); it writes end_ns and compares  *)
(* the length of the deque with the cap ("stamp"); it appends ("append").  *)
(* Other threads and drains run between those steps.  A step that touches  *)
(* only what the calling thread owns is merged with its neighbour.         *)
(*                                                                         *)
(* A thread is one lifetime of an OS thread; its identifier, TidOf[t], may *)
(* be that of a dead thread, because get_ident() values are recycled.      *)
(***************************************************************************)
EXTENDS Naturals, Sequences, FiniteSets

CONSTANTS Threads,    \* producer threads, each a single lifetime
          Tids,       \* values of threading.get_ident()
          TidOf,      \* the identifier each thread gets
          Requests,   \* keys handed to isolated_state, one per request
          Spans,      \* Scope objects
          Drainers,   \* concurrent callers of drain_closed_all
          Closers,    \* threads that also close spans opened by other threads
          MaxDepth,   \* MAX_DEPTH
          ClosedCap,  \* CLOSED_BUFFER_CAP
          None

States == Threads \cup Requests     \* _ScopeState objects
Keys   == Tids \cup Requests        \* keys of ScopeStack._states

ASSUME ConstantsAssumption ==
    /\ TidOf \in [Threads -> Tids]
    /\ Closers \subseteq Threads
    /\ MaxDepth \in Nat \ {0}
    /\ ClosedCap \in Nat \ {0}
    /\ Threads \cap Requests = {} /\ Tids \cap Requests = {}
    /\ None \notin States \cup Tids \cup Spans

VARIABLES
    life,       \* per thread: "new", "live" or "dead"
    registry,   \* _states: key -> state object, or None
    ctx,        \* _ctx_state: the request state bound in the thread's context
    token,      \* per request: the value its contextvar token restores
    reqTid,     \* thread_id of a request's state, None before it is entered
    stack,      \* state -> open scopes, innermost last
    closed,     \* state -> deque of closed scopes, oldest first
    dropCount,  \* state -> drop_count
    threadId,   \* span -> Scope.thread_id, None before the push
    parent,     \* span -> Scope.parent_id
    ended,      \* spans whose end_ns is set
    call,       \* per thread: the closing call in progress
    deferred,   \* spans finalized by finalize_deferred and not emitted yet
    drain,      \* per drainer: the drain_closed_all in progress
    delivered,  \* history: how often each span was returned by a drain
    lost        \* history: spans a state refused or evicted

shape == <<life, registry, ctx, token, reqTid>>
vars  == <<life, registry, ctx, token, reqTid, stack, closed, dropCount,
           threadId, parent, ended, call, deferred, drain, delivered, lost>>

Idle == [pc |-> "idle", span |-> None, dst |-> None]
Rest == [pc |-> "idle", todo |-> {}, at |-> None, prunable |-> {}]

Init ==
    /\ life      = [t \in Threads |-> "new"]
    /\ registry  = [k \in Keys |-> None]
    /\ ctx       = [t \in Threads |-> None]
    /\ token     = [r \in Requests |-> None]
    /\ reqTid    = [r \in Requests |-> None]
    /\ stack     = [st \in States |-> <<>>]
    /\ closed    = [st \in States |-> <<>>]
    /\ dropCount = [st \in States |-> 0]
    /\ threadId  = [s \in Spans |-> None]
    /\ parent    = [s \in Spans |-> None]
    /\ ended     = {}
    /\ call      = [t \in Threads |-> Idle]
    /\ deferred  = {}
    /\ drain     = [d \in Drainers |-> Rest]
    /\ delivered = [s \in Spans |-> 0]
    /\ lost      = [st \in States |-> {}]

-------------------------------------------------------------------------------
(* Helpers *)

In(s, q) == \E i \in 1..Len(q) : q[i] = s

\* list.remove, of a scope: a scope is on a stack at most once.
Without(q, s) == LET i == CHOOSE j \in 1..Len(q) : q[j] = s
                 IN  SubSeq(q, 1, i - 1) \o SubSeq(q, i + 1, Len(q))

\* The state push and pop work on: the context's override, else the thread's own.
Current(t) == IF ctx[t] # None THEN ctx[t] ELSE t

StateTid(st) == IF st \in Threads THEN TidOf[st] ELSE reqTid[st]

Ready(t) == life[t] = "live" /\ call[t].pc = "idle"

Begin(t, pc, s, dst) ==
    call' = [call EXCEPT ![t] = [pc |-> pc, span |-> s, dst |-> dst]]

\* Faulty: tests for a length past the cap, which a deque with a maxlen never has.
NoteBeyondCap(t, s, st) ==
    /\ dropCount' = IF Len(closed[st]) > ClosedCap
                    THEN [dropCount EXCEPT ![st] = @ + 1] ELSE dropCount
    /\ Begin(t, "append", s, st)

\* _note_closed_overflow, then on to the append.
NoteThenAppend(t, s, st) ==
    /\ dropCount' = IF Len(closed[st]) = ClosedCap
                    THEN [dropCount EXCEPT ![st] = @ + 1] ELSE dropCount
    /\ Begin(t, "append", s, st)

\* A thread acts on its own spans; only a closer acts on those of others.
MayClose(t, s) == /\ threadId[s] # None
                  /\ threadId[s] = TidOf[t] \/ t \in Closers

-------------------------------------------------------------------------------
(* Faulty variants of actions below, for the mutation of the model *)

\* A registry of weak references: the state goes with its thread.
ThreadExitWeak(t) ==
    /\ Ready(t) /\ ctx[t] = None
    /\ life' = [life EXCEPT ![t] = "dead"]
    /\ registry' = [registry EXCEPT ![TidOf[t]] = None]
    /\ UNCHANGED <<ctx, token, reqTid, stack, closed, dropCount,
                   threadId, parent, ended, call, deferred, drain, delivered,
                   lost>>

\* push that reads the thread's own stack for the parent.
PushUnderOwn(t, s) ==
    /\ Ready(t) /\ threadId[s] = None /\ \A st \in States : s \notin lost[st]
    /\ LET st == Current(t) IN
         /\ Len(stack[st]) < MaxDepth
         /\ stack' = [stack EXCEPT ![st] = Append(@, s)]
         /\ threadId' = [threadId EXCEPT ![s] = StateTid(st)]
         /\ parent' = [parent EXCEPT ![s] = IF stack[t] = <<>> THEN None
                                            ELSE stack[t][Len(stack[t])]]
    /\ UNCHANGED <<shape, closed, dropCount, ended, call, deferred, drain,
                   delivered, lost>>

\* push at MAX_DEPTH that counts the drop and pushes all the same.
PushRefusedBuilt(t, s) ==
    /\ Ready(t) /\ threadId[s] = None /\ \A st \in States : s \notin lost[st]
    /\ LET st == Current(t) IN
         /\ Len(stack[st]) >= MaxDepth
         /\ dropCount' = [dropCount EXCEPT ![st] = @ + 1]
         /\ lost' = [lost EXCEPT ![st] = @ \cup {s}]
         /\ stack' = [stack EXCEPT ![st] = Append(@, s)]
         /\ threadId' = [threadId EXCEPT ![s] = StateTid(st)]
    /\ UNCHANGED <<shape, closed, parent, ended, call, deferred, drain, delivered>>

\* pop without the test of end_ns.
PopReemits(t) ==
    /\ Ready(t) /\ stack[Current(t)] # <<>>
    /\ LET st  == Current(t)
           top == stack[st][Len(stack[st])]
       IN  /\ stack' = [stack EXCEPT ![st] = SubSeq(@, 1, Len(@) - 1)]
           /\ Begin(t, "stamp", top, st)
    /\ UNCHANGED <<shape, closed, dropCount, threadId, parent, ended, deferred,
                   drain, delivered, lost>>

\* drain_closed_all without the pruning at its end.
DrainReturnKeeping(d) ==
    /\ drain[d].pc = "scan" /\ drain[d].at = None /\ drain[d].todo = {}
    /\ drain' = [drain EXCEPT ![d] = Rest]
    /\ UNCHANGED <<shape, stack, closed, dropCount, threadId,
                   parent, ended, call, deferred, delivered, lost>>

-------------------------------------------------------------------------------
(* Threads and contexts *)

\* A thread starts and touches the stack for the first time: _get_state
\* registers a fresh state under the thread's identifier.
ThreadStart(t) ==
    /\ life[t] = "new"
    /\ \A u \in Threads : life[u] = "live" => TidOf[u] # TidOf[t]
    /\ life' = [life EXCEPT ![t] = "live"]
    /\ registry' = [registry EXCEPT ![TidOf[t]] = t]
    /\ UNCHANGED <<ctx, token, reqTid, stack, closed, dropCount, threadId,
                   parent, ended, call, deferred, drain, delivered, lost>>

\* A thread ends.  Nothing removes its state from the registry.
ThreadExit(t) ==
    /\ Ready(t) /\ ctx[t] = None
    /\ life' = [life EXCEPT ![t] = "dead"]
    /\ UNCHANGED <<registry, ctx, token, reqTid, stack, closed, dropCount,
                   threadId, parent, ended, call, deferred, drain, delivered,
                   lost>>

\* Entry of isolated_state: register the new state and bind it.
EnterIsolated(t, r) ==
    /\ Ready(t) /\ reqTid[r] = None
    /\ reqTid' = [reqTid EXCEPT ![r] = TidOf[t]]
    /\ registry' = [registry EXCEPT ![r] = r]
    /\ token' = [token EXCEPT ![r] = ctx[t]]
    /\ ctx' = [ctx EXCEPT ![t] = r]
    /\ UNCHANGED <<life, stack, closed, dropCount, threadId, parent, ended,
                   call, deferred, drain, delivered, lost>>

\* Exit of isolated_state: restore the context, unregister only if nothing is left.
ExitIsolated(t) ==
    /\ Ready(t) /\ ctx[t] # None
    /\ LET r == ctx[t] IN
         /\ ctx' = [ctx EXCEPT ![t] = token[r]]
         /\ registry' = IF stack[r] = <<>> /\ closed[r] = <<>>
                        THEN [registry EXCEPT ![r] = None] ELSE registry
    /\ UNCHANGED <<life, token, reqTid, stack, closed, dropCount, threadId,
                   parent, ended, call, deferred, drain, delivered, lost>>

-------------------------------------------------------------------------------
(* Opening *)

Push(t, s) ==
    /\ Ready(t) /\ threadId[s] = None /\ \A st \in States : s \notin lost[st]
    /\ LET st == Current(t) IN
         /\ Len(stack[st]) < MaxDepth
         /\ stack' = [stack EXCEPT ![st] = Append(@, s)]
         /\ threadId' = [threadId EXCEPT ![s] = StateTid(st)]
         /\ parent' = [parent EXCEPT ![s] = IF stack[st] = <<>> THEN None
                                            ELSE stack[st][Len(stack[st])]]
    /\ UNCHANGED <<shape, closed, dropCount, ended, call, deferred, drain,
                   delivered, lost>>

\* push at MAX_DEPTH: the scope is never built, only counted.
PushRefused(t, s) ==
    /\ Ready(t) /\ threadId[s] = None /\ \A st \in States : s \notin lost[st]
    /\ LET st == Current(t) IN
         /\ Len(stack[st]) >= MaxDepth
         /\ dropCount' = [dropCount EXCEPT ![st] = @ + 1]
         /\ lost' = [lost EXCEPT ![st] = @ \cup {s}]
    /\ UNCHANGED <<shape, stack, closed, threadId, parent, ended, call,
                   deferred, drain, delivered>>

-------------------------------------------------------------------------------
(* Closing: the first step of each call *)

\* Take the innermost scope off the stack; one closed out of band is not emitted.
Pop(t) ==
    /\ Ready(t) /\ stack[Current(t)] # <<>>
    /\ LET st  == Current(t)
           top == stack[st][Len(stack[st])]
       IN  /\ stack' = [stack EXCEPT ![st] = SubSeq(@, 1, Len(@) - 1)]
           /\ IF top \in ended THEN UNCHANGED call
              ELSE Begin(t, "stamp", top, st)
    /\ UNCHANGED <<shape, closed, dropCount, threadId, parent, ended, deferred,
                   drain, delivered, lost>>

\* Close in place, from any thread, without touching a stack.
CloseScope(t, s) ==
    /\ Ready(t) /\ MayClose(t, s) /\ s \notin ended
    /\ Begin(t, "lookup", s, None)
    /\ UNCHANGED <<shape, stack, closed, dropCount, threadId, parent, ended,
                   deferred, drain, delivered, lost>>

\* Remove the scope from the middle of the caller's own stack and close it.
\* On another thread, or off the stack, the call falls back to close_scope.
CloseAndRemove(t, s) ==
    /\ Ready(t) /\ threadId[s] = TidOf[t] /\ In(s, stack[Current(t)])
    /\ stack' = [stack EXCEPT ![Current(t)] = Without(@, s)]
    /\ IF s \in ended THEN UNCHANGED call
       ELSE Begin(t, "stamp", s, Current(t))
    /\ UNCHANGED <<shape, closed, dropCount, threadId, parent, ended, deferred,
                   drain, delivered, lost>>

\* Stop the clock without making the span drainable.  A span that was closed
\* already only leaves the stack.
FinalizeDeferred(t, s) ==
    /\ Ready(t) /\ MayClose(t, s)
    /\ stack' = IF threadId[s] = TidOf[t] /\ In(s, stack[Current(t)])
                THEN [stack EXCEPT ![Current(t)] = Without(@, s)] ELSE stack
    /\ IF s \in ended THEN UNCHANGED call ELSE Begin(t, "hold", s, None)
    /\ UNCHANGED <<shape, closed, dropCount, threadId, parent, ended, deferred,
                   drain, delivered, lost>>

\* The append half of finalize_deferred.  The caller takes the span out of its
\* own pending collection as it emits it.
EmitClosed(t, s) ==
    /\ Ready(t) /\ MayClose(t, s) /\ s \in deferred
    /\ deferred' = deferred \ {s}
    /\ LET st == registry[threadId[s]] IN
         IF st = None THEN UNCHANGED <<dropCount, call>>
         ELSE NoteThenAppend(t, s, st)
    /\ UNCHANGED <<shape, stack, closed, threadId, parent, ended, drain,
                   delivered, lost>>

-------------------------------------------------------------------------------
(* Closing: the remaining steps *)

\* Write end_ns and compare the deque's length with its cap.  close_scope first
\* looks the deque up, and gives up if the thread's identifier is unknown.
Stamp(t) ==
    /\ call[t].pc \in {"stamp", "lookup"}
    /\ LET s  == call[t].span
           st == IF call[t].pc = "stamp" THEN call[t].dst
                 ELSE registry[threadId[s]]
       IN  /\ ended' = ended \cup {s}
           /\ IF st = None
              THEN /\ call' = [call EXCEPT ![t] = Idle]
                   /\ UNCHANGED dropCount
              ELSE NoteThenAppend(t, s, st)
    /\ UNCHANGED <<shape, stack, closed, threadId, parent, deferred, drain,
                   delivered, lost>>

\* The write of end_ns in finalize_deferred.
Hold(t) ==
    /\ call[t].pc = "hold"
    /\ ended' = ended \cup {call[t].span}
    /\ deferred' = deferred \cup {call[t].span}
    /\ call' = [call EXCEPT ![t] = Idle]
    /\ UNCHANGED <<shape, stack, closed, dropCount, threadId, parent, drain,
                   delivered, lost>>

\* deque(maxlen).append: a full deque drops its oldest element.
AppendClosed(t) ==
    /\ call[t].pc = "append"
    /\ LET st == call[t].dst
           s  == call[t].span
           q  == closed[st]
       IN  IF Len(q) = ClosedCap
           THEN /\ closed' = [closed EXCEPT ![st] = Append(Tail(q), s)]
                /\ lost' = [lost EXCEPT ![st] = @ \cup {Head(q)}]
           ELSE /\ closed' = [closed EXCEPT ![st] = Append(q, s)]
                /\ UNCHANGED lost
    /\ call' = [call EXCEPT ![t] = Idle]
    /\ UNCHANGED <<shape, stack, dropCount, threadId, parent, ended, deferred,
                   drain, delivered>>

-------------------------------------------------------------------------------
(* drain_closed_all *)

\* Copy the registry's items, key and state object, under its lock.
DrainSnapshot(d) ==
    /\ drain[d].pc = "idle"
    /\ drain' = [drain EXCEPT ![d] =
                   [Rest EXCEPT !.pc = "scan",
                                !.todo = {<<k, registry[k]>> :
                                          k \in {j \in Keys : registry[j] # None}}]]
    /\ UNCHANGED <<shape, stack, closed, dropCount, threadId, parent, ended,
                   call, deferred, delivered, lost>>

\* Move to the next state object, in no particular order.
DrainVisit(d) ==
    /\ drain[d].pc = "scan" /\ drain[d].at = None
    /\ \E item \in drain[d].todo :
         drain' = [drain EXCEPT ![d].at = item, ![d].todo = @ \ {item}]
    /\ UNCHANGED <<shape, stack, closed, dropCount, threadId, parent, ended,
                   call, deferred, delivered, lost>>

\* popleft of the deque being drained.
DrainPopleft(d) ==
    /\ drain[d].at # None
    /\ LET st == drain[d].at[2] IN
         /\ closed[st] # <<>>
         /\ closed' = [closed EXCEPT ![st] = Tail(@)]
         /\ delivered' = [delivered EXCEPT ![Head(closed[st])] = @ + 1]
    /\ UNCHANGED <<shape, stack, dropCount, threadId, parent, ended, call,
                   deferred, drain, lost>>

\* popleft found nothing: a request's state with nothing open may be pruned.
DrainLeave(d) ==
    /\ drain[d].at # None
    /\ LET key == drain[d].at[1]
           st  == drain[d].at[2]
       IN  /\ closed[st] = <<>>
           /\ drain' = [drain EXCEPT
                ![d].at = None,
                ![d].prunable = IF key \in Requests /\ stack[st] = <<>>
                                THEN @ \cup {key} ELSE @]
    /\ UNCHANGED <<shape, stack, closed, dropCount, threadId, parent, ended,
                   call, deferred, delivered, lost>>

\* Under the lock, drop from the registry what is still empty, and return.
DrainReturn(d) ==
    /\ drain[d].pc = "scan" /\ drain[d].at = None /\ drain[d].todo = {}
    /\ registry' = [k \in Keys |->
          IF k \in drain[d].prunable /\ stack[k] = <<>> /\ closed[k] = <<>>
          THEN None ELSE registry[k]]
    /\ drain' = [drain EXCEPT ![d] = Rest]
    /\ UNCHANGED <<life, ctx, token, reqTid, stack, closed, dropCount, threadId,
                   parent, ended, call, deferred, delivered, lost>>

-------------------------------------------------------------------------------

ThreadStep(t) == \/ ThreadStart(t) \/ ThreadExit(t) \/ ExitIsolated(t)
                 \/ Pop(t) \/ Stamp(t) \/ Hold(t) \/ AppendClosed(t)
                 \/ \E r \in Requests : EnterIsolated(t, r)
                 \/ \E s \in Spans : \/ Push(t, s) \/ PushRefused(t, s)
                                     \/ CloseScope(t, s) \/ CloseAndRemove(t, s)
                                     \/ FinalizeDeferred(t, s) \/ EmitClosed(t, s)

DrainStep(d) == \/ DrainSnapshot(d) \/ DrainVisit(d) \/ DrainPopleft(d)
                \/ DrainLeave(d) \/ DrainReturn(d)

Next == (\E t \in Threads : ThreadStep(t)) \/ (\E d \in Drainers : DrainStep(d))

Spec == Init /\ [][Next]_vars

\* The flush worker calls drain_closed_all every interval and the interpreter
\* runs every thread: a drain in progress and a call in progress go on.
FairSpec == /\ Spec
            /\ \A d \in Drainers : WF_vars(DrainStep(d))
            /\ \A t \in Threads : WF_vars(Stamp(t) \/ Hold(t) \/ AppendClosed(t))

-------------------------------------------------------------------------------
(* Properties *)

Calls  == {Idle} \cup [pc : {"stamp", "append"}, span : Spans, dst : States]
                 \cup [pc : {"lookup", "hold"}, span : Spans, dst : {None}]
Items  == Keys \X States
Drains == [pc : {"idle", "scan"}, todo : SUBSET Items, at : Items \cup {None},
           prunable : SUBSET Requests]

\* The variables hold what scope.py's attributes hold.
TypeOK ==
    /\ life \in [Threads -> {"new", "live", "dead"}]
    /\ registry \in [Keys -> States \cup {None}]
    /\ ctx \in [Threads -> Requests \cup {None}]
    /\ token \in [Requests -> Requests \cup {None}]
    /\ reqTid \in [Requests -> Tids \cup {None}]
    /\ stack \in [States -> Seq(Spans)]
    /\ closed \in [States -> Seq(Spans)]
    /\ dropCount \in [States -> Nat]
    /\ threadId \in [Spans -> Tids \cup {None}]
    /\ parent \in [Spans -> Spans \cup {None}]
    /\ ended \subseteq Spans
    /\ call \in [Threads -> Calls]
    /\ deferred \subseteq Spans
    /\ drain \in [Drainers -> Drains]
    /\ delivered \in [Spans -> Nat]
    /\ lost \in [States -> SUBSET Spans]

Queued(s, st, i)  == closed[st][i] = s
Appending(s, t)   == call[t].pc = "append" /\ call[t].span = s
Undelivered(s)    == delivered[s] = 0

\* A span leaves the process at most once: however the closing calls of its
\* thread and the drains interleave, there is one copy of it, in a deque, in an
\* append in progress or in the pending list of a hook, and none once it was
\* delivered.  pop's comment: "don't double-close and double-emit".
NoDoubleEmit ==
    \A s \in Spans :
        /\ delivered[s] <= 1
        /\ s \in deferred => Undelivered(s)
        /\ \A t \in Threads : Appending(s, t) =>
              /\ Undelivered(s) /\ s \notin deferred
              /\ \A u \in Threads : Appending(s, u) => u = t
        /\ \A st \in States : \A i \in 1..Len(closed[st]) : Queued(s, st, i) =>
              /\ Undelivered(s) /\ s \notin deferred
              /\ \A t \in Threads : ~ Appending(s, t)
              /\ \A st2 \in States : \A j \in 1..Len(closed[st2]) :
                    Queued(s, st2, j) => st2 = st /\ j = i

\* The state objects that this drain or the next one reaches.
Reachable ==
    {st \in States : \/ \E k \in Keys : registry[k] = st
                     \/ \E d \in Drainers :
                          \/ \E i \in drain[d].todo : i[2] = st
                          \/ drain[d].at # None /\ drain[d].at[2] = st}

\* A span that was closed is never out of reach: it was returned by a drain, or
\* dropped at the cap, or it waits where a drain finds it.  The registry is a
\* plain dict so that a dead thread does not "lose trailing closed scopes".
NoSpanStranded ==
    \A s \in ended : \/ delivered[s] > 0
                     \/ s \in deferred
                     \/ \E st \in States : s \in lost[st]
                     \/ \E st \in Reachable : In(s, closed[st])
                     \/ \E t \in Threads : /\ call[t].span = s /\ call[t].pc = "append"
                                           /\ call[t].dst \in Reachable

\* A loss is never silent: drop_count, which health() reports, counts every span
\* a state refused or evicted, although the cap is compared one step before the
\* append that evicts.
EveryLossCounted == \A st \in States : Cardinality(lost[st]) <= dropCount[st]

\* Requests served at the same time by one thread, or by several, have span trees
\* of their own: no open span has its parent on the stack of another state.
\* isolated_state exists "so concurrent async requests each see their own scope
\* tree".
TreesApart ==
    \A st, other \in States : st # other =>
        \A i \in 1..Len(stack[st]) : ~ In(parent[stack[st][i]], stack[other])

\* A closed span does not stay in the deque of a thread, also of one that ended:
\* some drain takes it.
EveryClosedSpanLeaves ==
    \A s \in Spans, t \in Threads : In(s, closed[t]) ~> ~ In(s, closed[t])

\* A request whose context was left and whose spans are all closed disappears
\* from the registry, which "would grow without limit" otherwise.
Left(r) == /\ reqTid[r] # None
           /\ \A t \in Threads : ctx[t] # r
           /\ \A q \in Requests : token[q] # r
RequestsPruned ==
    \A r \in Requests : Left(r) /\ stack[r] = <<>> ~> registry[r] = None

\* Under a drain that comes again and again nothing stays behind: no closed span of
\* a thread, no entry of a request.
NothingStays == EveryClosedSpanLeaves /\ RequestsPruned

-------------------------------------------------------------------------------
(* Refinement *)

Ledger == INSTANCE SpanLedger WITH
    status <- [s \in Spans |->
        IF delivered[s] > 1 THEN "duplicated"
        ELSE IF delivered[s] = 1 THEN "delivered"
        ELSE IF \E st \in States : s \in lost[st] THEN "dropped"
        ELSE IF s \in ended THEN "closed"
        ELSE IF threadId[s] # None THEN "open" ELSE "unborn"]

\* The stacks, deques and drains implement the ledger: no span is delivered
\* before it is closed, delivered twice, or delivered after it was dropped.
ImplementsLedger == Ledger!Spec
===============================================================================
