--------------------------- MODULE InferenceStream ---------------------------
(***************************************************************************)
(* inference/decorator.py and inference/llm.py: a serving function under   *)
(* @ci.inference, and the wrapper that takes the request span over when    *)
(* the function returns a generator.                                       *)
(*                                                                         *)
(* A task is whatever owns a context: a thread or an asyncio task.  The    *)
(* body of the function or of the generator runs between the two halves of *)
(* a call (Call/Return, NextBegin/NextItem); other tasks run meanwhile, and *)
(* so may calls of other requests on the same task, which nest.  The items *)
(* of a stream may be fetched on a task other than the one that called.    *)
(***************************************************************************)
EXTENDS Naturals, Sequences, FiniteSets, SequencesExt

CONSTANTS Requests,   \* calls of decorated functions
          Tasks,      \* contexts
          Scoped,     \* the requests whose body keeps a scope of its own open
          MaxItems,   \* bound: items of a stream
          None

ASSUME StreamAssumption == /\ Scoped \subseteq Requests /\ MaxItems \in Nat
                           /\ None \notin Requests \cup Tasks
                           /\ Requests \cap Tasks = {}

VARIABLES
    ctx,      \* per task: _ctx_state, the request whose state is bound, or None
    stack,    \* per state (a request's, or a task's own): the names of its open scopes
    running,  \* per task: the calls in progress, each with the context it found
    req,      \* per request: phase, opener, who ended it, and what _runner keeps
    marks,    \* per request: the marks emitted for it, with the scope they hang on
    emitted,  \* per request: how often its span was put in a deque
    spoiled   \* history: the states that the cleanup of another stream has popped

vars == <<ctx, stack, running, req, marks, emitted, spoiled>>

Init ==
    /\ ctx     = [t \in Tasks |-> None]
    /\ stack   = [k \in Requests \cup Tasks |-> IF k \in Tasks THEN <<"caller">> ELSE <<>>]
    /\ running = [t \in Tasks |-> <<>>]
    /\ req     = [r \in Requests |-> [phase |-> "new", opener |-> None, ender |-> None,
                                      count |-> 0, usage |-> 0]]
    /\ marks   = [r \in Requests |-> <<>>]
    /\ emitted = [r \in Requests |-> 0]
    /\ spoiled = {}

-------------------------------------------------------------------------------
(* Contexts and scopes *)

StateOf(t, c) == IF c[t] = None THEN t ELSE c[t]

\* _bind_state, and isolated_state.__enter__: running keeps what the token restores.
Bind(t, r, mode) ==
    /\ ctx' = [ctx EXCEPT ![t] = r]
    /\ running' = [running EXCEPT ![t] = Append(@, [r |-> r, mode |-> mode, found |-> ctx[t]])]

\* _unbind_state, and isolated_state.__exit__.
Unbind(t) ==
    /\ ctx' = [ctx EXCEPT ![t] = Last(running[t]).found]
    /\ running' = [running EXCEPT ![t] = Front(@)]

Doing(t, r, mode) ==
    /\ running[t] # <<>> /\ Last(running[t]).r = r /\ Last(running[t]).mode = mode

\* A mark hangs on the innermost scope of the state that is bound.
Hang(t, c) == LET st == StateOf(t, c) IN [state |-> st, on |-> IF stack[st] = <<>> THEN "nothing" ELSE Last(stack[st])]

\* ScopeStack.pop on the state st: the span of a request is emitted once it comes off.
Pop(st) ==
    /\ stack' = [stack EXCEPT ![st] = IF @ = <<>> THEN @ ELSE Front(@)]
    /\ emitted' = IF stack[st] # <<>> /\ Last(stack[st]) = "request"
                  THEN [emitted EXCEPT ![st] = @ + 1] ELSE emitted

Turns(r, phase) == req' = [req EXCEPT ![r].phase = phase]

-------------------------------------------------------------------------------
(* The decorator *)

Call(t, r) ==
    /\ req[r].phase = "new"
    /\ Bind(t, r, "call")
    /\ stack' = [stack EXCEPT ![r] = <<"request">>]
    /\ req' = [req EXCEPT ![r] = [@ EXCEPT !.phase = "calling", !.opener = t]]
    /\ UNCHANGED <<marks, emitted, spoiled>>

\* A plain result, or an exception: the span is popped before the context is restored.
Return(t, r) ==
    /\ Doing(t, r, "call")
    /\ Pop(StateOf(t, ctx))
    /\ Unbind(t)
    /\ Turns(r, "returned")
    /\ UNCHANGED <<marks, spoiled>>

\* Faulty: the context stays bound while the stream is read.
ReturnStreamBound(t, r) ==
    /\ Doing(t, r, "call")
    /\ running' = [running EXCEPT ![t] = Front(@)]
    /\ Turns(r, "unstarted")
    /\ UNCHANGED <<ctx, stack, marks, emitted, spoiled>>

\* Faulty: the decorator pops the span although the wrapper owns it.
ReturnStreamPopping(t, r) ==
    /\ Doing(t, r, "call")
    /\ Pop(StateOf(t, ctx))
    /\ Unbind(t)
    /\ Turns(r, "unstarted")
    /\ UNCHANGED <<marks, spoiled>>

\* _finish_call, of a generator: the wrapper owns the span from now on.
ReturnStream(t, r) ==
    /\ Doing(t, r, "call")
    /\ Unbind(t)
    /\ Turns(r, "unstarted")
    /\ UNCHANGED <<stack, marks, emitted, spoiled>>

-------------------------------------------------------------------------------
(* The wrapper, _runner *)

NextBegin(t, r) ==
    /\ req[r].phase \in {"unstarted", "paused"}
    /\ Bind(t, r, "next")
    /\ Turns(r, "fetching")
    /\ stack' = IF req[r].phase = "unstarted" /\ r \in Scoped
                THEN [stack EXCEPT ![r] = Append(@, "body")] ELSE stack
    /\ UNCHANGED <<marks, emitted, spoiled>>

\* An item: the first one is timed, and the token count of the last one that
\* carries usage (usage > 0) is kept.
NextItem(t, r, usage) ==
    /\ Doing(t, r, "next") /\ req[r].phase = "fetching" /\ req[r].count < MaxItems
    /\ marks' = IF req[r].count > 0 THEN marks
                ELSE [marks EXCEPT ![r] = Append(@, [name |-> "ttft", at |-> Hang(t, ctx)])]
    /\ req' = [req EXCEPT ![r] = [@ EXCEPT !.phase = "paused", !.count = req[r].count + 1,
                                           !.usage = IF usage = 0 THEN req[r].usage ELSE usage]]
    /\ Unbind(t)
    /\ UNCHANGED <<stack, emitted, spoiled>>

Ends(t, r) ==
    /\ IF r \in Scoped THEN Pop(StateOf(t, ctx)) ELSE UNCHANGED <<stack, emitted>>
    /\ req' = [req EXCEPT ![r] = [@ EXCEPT !.phase = "ended", !.ender = t]]
    /\ UNCHANGED marks

\* Faulty: an error of the generator goes past the end of the wrapper.
NextEndsUnfinalized(t, r) ==
    /\ Doing(t, r, "next") /\ req[r].phase = "fetching"
    /\ Unbind(t)
    /\ Turns(r, "ended")
    /\ UNCHANGED <<stack, marks, emitted, spoiled>>

\* The generator ends or raises: the scope of its body is closed under the binding.
NextEnds(t, r) ==
    /\ Doing(t, r, "next") /\ req[r].phase = "fetching"
    /\ Ends(t, r)
    /\ Unbind(t)
    /\ UNCHANGED spoiled

\* The consumer breaks off: close_inner runs the cleanup of the body in the
\* context of whoever closes the generator.
Break(t, r) ==
    /\ req[r].phase = "paused"
    /\ Ends(t, r)
    /\ spoiled' = IF r \in Scoped THEN spoiled \cup {StateOf(t, ctx), r} ELSE spoiled
    /\ UNCHANGED <<ctx, running>>

\* A generator that never ran has no finally to run.
Forgotten(r) ==
    /\ req[r].phase = "unstarted"
    /\ Turns(r, "lost")
    /\ UNCHANGED <<ctx, stack, running, marks, emitted, spoiled>>

\* Faulty: a stream that yielded nothing has no duration.
FinalMarksOfItems(r, at) ==
    IF req[r].count = 0 THEN <<>>
    ELSE <<[name |-> "duration", at |-> at],
           [name |-> "tokens", at |-> at, n |-> IF req[r].usage > 0 THEN req[r].usage ELSE req[r].count]>>

\* _finalize_stream: the tokens that were reported, or the number of items.
FinalMarks(r, at) ==
    <<[name |-> "duration", at |-> at]>> \o
    (IF req[r].count = 0 THEN <<>>
     ELSE <<[name |-> "tokens", at |-> at, n |-> IF req[r].usage > 0 THEN req[r].usage ELSE req[r].count]>>)

\* The end of _runner: the last marks, then the closer, bound to the request.
\* close_and_remove takes the span off its stack only on the thread that pushed it.
Finalize(t, r) ==
    /\ req[r].phase = "ended" /\ req[r].ender = t
    /\ marks' = [marks EXCEPT ![r] = @ \o FinalMarks(r, Hang(t, [ctx EXCEPT ![t] = r]))]
    /\ stack' = IF t = req[r].opener
                THEN [stack EXCEPT ![r] = SelectSeq(@, LAMBDA s : s # "request")] ELSE stack
    /\ emitted' = IF emitted[r] = 0 THEN [emitted EXCEPT ![r] = 1] ELSE emitted
    /\ Turns(r, "done")
    /\ UNCHANGED <<ctx, running, spoiled>>

-------------------------------------------------------------------------------
Fetch(t, r) == NextEnds(t, r) \/ \E usage \in {0, MaxItems + 1} : NextItem(t, r, usage)

\* What goes on by itself once a request has been called: bodies end, and who reads
\* a stream reads on or gives up.
Proceed(t, r) ==
    Return(t, r) \/ ReturnStream(t, r) \/ NextBegin(t, r) \/ Fetch(t, r) \/ Break(t, r) \/ Finalize(t, r)

Next == \E r \in Requests : Forgotten(r) \/ \E t \in Tasks : Call(t, r) \/ Proceed(t, r)

Fairness == \A r \in Requests : WF_vars(\E t \in Tasks : Proceed(t, r))

Spec == Init /\ [][Next]_vars /\ Fairness

-------------------------------------------------------------------------------
(* Properties *)

\* Whatever the order in which calls and fetches nest and alternate, a task that
\* is between two steps of the SDK has the context it had: outside of every call
\* none, inside of one that of the innermost call.
ContextRestored ==
    \A t \in Tasks : ctx[t] = IF running[t] = <<>> THEN None ELSE Last(running[t]).r

\* The span of a request is emitted once, when the request is over, whoever fetched
\* the last item, and not before; unless a stream that was broken off popped it.
SpanEmittedOnce ==
    \A r \in Requests \ spoiled :
        emitted[r] = IF req[r].phase \in {"returned", "done"} THEN 1 ELSE 0

\* Every mark of a stream hangs on a scope of its own request that is still open.
MarksOnTheRequest ==
    \A r \in Requests \ spoiled : \A i \in DOMAIN marks[r] :
        marks[r][i].at.state = r /\ marks[r][i].at.on # "nothing"

\* A stream that is over has one duration, preceded by one time to the first token
\* and followed by one token count if it yielded anything.
MarksTellTheStream ==
    \A r \in Requests : req[r].phase = "done" =>
        LET names == [i \in DOMAIN marks[r] |-> marks[r][i].name]
        IN  IF req[r].count = 0 THEN names = <<"duration">>
            ELSE names = <<"ttft", "duration", "tokens">>

\* The marks of a stream tell what it did, on the span it did it for.
MarksRight == MarksOnTheRequest /\ MarksTellTheStream

\* A stream that was started is closed in the end, read out or broken off.
StartedStreamCloses ==
    \A r \in Requests : req[r].phase \in {"fetching", "paused"} ~> req[r].phase = "done"

\* The cleanup of a stream leaves the scopes of its consumer alone: the code runs
\* it in the consumer's context, so this does not hold, as the README explains, and no
\* run claims it.
ConsumerKeepsItsScope == \A t \in Tasks : stack[t] = <<"caller">>

\* The state of a request that is over has nothing on its stack, and a drain can
\* unregister it: the code leaves the span there when another thread ends the stream,
\* so this does not hold either.
FinishedStateIsEmpty ==
    \A r \in Requests \ spoiled : req[r].phase = "done" => stack[r] = <<>>
==============================================================================
