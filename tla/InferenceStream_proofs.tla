------------------------ MODULE InferenceStream_proofs ------------------------
(***************************************************************************)
(* Contexts are restored and the span of a request is emitted once, for    *)
(* any requests, tasks and lengths of streams, however calls and fetches   *)
(* nest and alternate.                                                     *)
(***************************************************************************)
EXTENDS InferenceStream, SequenceTheorems, TLAPS

Modes == {"call", "next"}
Frame == [r : Requests, mode : Modes, found : Requests \cup {None}]

\* The context that a stack of calls leaves: that of the innermost one.
Innermost(calls) == IF calls = <<>> THEN None ELSE calls[Len(calls)].r

\* Each call in progress found the context of the one around it.
FoundOk(calls) ==
    \A i \in 1..Len(calls) : calls[i].found = IF i = 1 THEN None ELSE calls[i - 1].r

CtxInv == /\ ctx \in [Tasks -> Requests \cup {None}]
          /\ running \in [Tasks -> Seq(Frame)]
          /\ \A t \in Tasks : ctx[t] = Innermost(running[t]) /\ FoundOk(running[t])

-------------------------------------------------------------------------------
(* Sequences *)

\* What is appended is last, and the rest is before it.
LEMMA Appended ==
  ASSUME NEW S, NEW seq \in Seq(S), NEW elt \in S
  PROVE  /\ Append(seq, elt) \in Seq(S) /\ Append(seq, elt) # <<>>
         /\ Len(seq) \in Nat /\ Len(Append(seq, elt)) = Len(seq) + 1
         /\ \A i \in 1..Len(seq) : Append(seq, elt)[i] = seq[i]
         /\ Append(seq, elt)[Len(seq) + 1] = elt
<1>1. Len(seq) \in Nat
  OBVIOUS
<1> QED
  BY <1>1, AppendProperties

\* The front of a sequence is what comes before the last element.
LEMMA Fronted ==
  ASSUME NEW S, NEW seq \in Seq(S), seq # <<>>
  PROVE  /\ Front(seq) \in Seq(S) /\ Len(seq) \in Nat \ {0} /\ Len(Front(seq)) = Len(seq) - 1
         /\ \A i \in 1..(Len(seq) - 1) : Front(seq)[i] = seq[i]
         /\ seq[Len(seq)] \in S
         /\ Front(seq) = <<>> <=> Len(seq) = 1
<1>1. Len(seq) \in Nat \ {0}
  BY EmptySeq
<1>2. /\ Front(seq) \in Seq(S) /\ Len(Front(seq)) = Len(seq) - 1
      /\ \A i \in 1..(Len(seq) - 1) : Front(seq)[i] = seq[i]
  <2> DEFINE n == Len(seq) - 1
  <2>1. 1 \in Int /\ n \in Nat /\ n \in Int /\ \A i \in 1..n : seq[i] \in S
    BY <1>1
  <2>2. Front(seq) = SubSeq(seq, 1, n)
    BY DEF Front
  <2> HIDE DEF n
  <2>3. SubSeq(seq, 1, n) \in Seq(S)
    BY <2>1, SubSeqProperties
  <2>4. Len(SubSeq(seq, 1, n)) = n
    BY <2>1, SMT
  <2>5. \A i \in 1..n : SubSeq(seq, 1, n)[i] = seq[i]
    BY <2>1, SMT
  <2> QED
    BY <2>2, <2>3, <2>4, <2>5 DEF n
<1>3. seq[Len(seq)] \in S
  BY <1>1
<1> QED
  BY <1>1, <1>2, <1>3, EmptySeq

\* Two elements, one appended to the other.
LEMMA Paired ==
  ASSUME NEW S, NEW a \in S, NEW b \in S
  PROVE  Append(<<a>>, b) = <<a, b>>
<1>1. ASSUME NEW s \in Seq(S), s = <<a>>, NEW t \in Seq(S), t = <<a, b>>
      PROVE  Append(s, b) = t
  <2>1. Len(s) = 1 /\ s[1] = a /\ Len(t) = 2 /\ t[1] = a /\ t[2] = b
    BY <1>1
  <2>2. /\ Append(s, b) \in Seq(S) /\ Len(Append(s, b)) = Len(s) + 1
        /\ \A i \in 1..Len(s) : Append(s, b)[i] = s[i]
        /\ Append(s, b)[Len(s) + 1] = b
    BY AppendProperties
  <2>3. Len(Append(s, b)) = 2 /\ Append(s, b)[1] = a /\ Append(s, b)[2] = b
    BY <2>1, <2>2
  <2>4. \A i \in 1..2 : i = 1 \/ i = 2
    OBVIOUS
  <2>5. \A i \in 1..Len(t) : Append(s, b)[i] = t[i]
    BY <2>1, <2>3, <2>4
  <2> QED
    BY <2>1, <2>2, <2>3, <2>5, SeqEqual
<1>2. <<a>> \in Seq(S) /\ <<a, b>> \in Seq(S)
  OBVIOUS
<1> QED
  BY <1>1, <1>2

-------------------------------------------------------------------------------
(* Contexts *)

\* A call around the others is the innermost one.
LEMMA BindStep ==
  ASSUME CtxInv, NEW t \in Tasks, NEW r \in Requests, NEW mode \in Modes, Bind(t, r, mode)
  PROVE  CtxInv'
<1> DEFINE call == [r |-> r, mode |-> mode, found |-> ctx[t]]
           calls == Append(running[t], call)
<1>1. call \in Frame
  BY DEF CtxInv, Frame
<1>2. /\ calls \in Seq(Frame) /\ calls # <<>> /\ Len(calls) = Len(running[t]) + 1
      /\ calls[Len(calls)] = call
      /\ Len(running[t]) \in Nat
      /\ \A i \in 1..Len(running[t]) : calls[i] = running[t][i]
  <2>1. running[t] \in Seq(Frame)
    BY DEF CtxInv
  <2> QED
    BY <1>1, <2>1, Appended
<1>3. Innermost(calls) = r
  BY <1>2 DEF Innermost
<1>4. FoundOk(calls)
  <2>1. ASSUME NEW i \in 1..Len(calls)
        PROVE  calls[i].found = IF i = 1 THEN None ELSE calls[i - 1].r
    <3>1. CASE i = Len(calls)
      <4>1. running[t] \in Seq(Frame) /\ ctx[t] = Innermost(running[t])
        BY DEF CtxInv
      <4>2. CASE running[t] = <<>>
        BY <1>2, <3>1, <4>1, <4>2 DEF Innermost
      <4>3. CASE running[t] # <<>>
        BY <1>2, <3>1, <4>1, <4>3 DEF Innermost
      <4> QED
        BY <4>2, <4>3
    <3>2. CASE i # Len(calls)
      BY <1>2, <3>2 DEF CtxInv, FoundOk
    <3> QED
      BY <3>1, <3>2
  <2> QED
    BY <2>1 DEF FoundOk
<1>5. ctx' = [ctx EXCEPT ![t] = r] /\ running' = [running EXCEPT ![t] = calls]
  BY DEF Bind
<1> QED
  BY <1>2, <1>3, <1>4, <1>5 DEF CtxInv

\* A call that ends leaves the context it found.
LEMMA UnbindStep ==
  ASSUME CtxInv, NEW t \in Tasks, running[t] # <<>>, Unbind(t)
  PROVE  CtxInv'
<1> DEFINE last == running[t][Len(running[t])]
           calls == Front(running[t])
<1>1. running[t] \in Seq(Frame) /\ FoundOk(running[t])
  BY DEF CtxInv
<1>2. /\ calls \in Seq(Frame) /\ Len(calls) = Len(running[t]) - 1
      /\ Len(running[t]) \in Nat \ {0}
      /\ \A i \in 1..Len(calls) : calls[i] = running[t][i]
      /\ calls = <<>> <=> Len(running[t]) = 1
  BY <1>1, Fronted
<1>3. last.found = Innermost(calls)
  BY <1>1, <1>2 DEF Innermost, FoundOk
<1>4. last.found \in Requests \cup {None}
  <2>1. last \in Frame
    BY <1>1, Fronted
  <2> QED
    BY <2>1 DEF Frame
<1>5. FoundOk(calls)
  BY <1>1, <1>2 DEF FoundOk
<1>6. ctx' = [ctx EXCEPT ![t] = last.found] /\ running' = [running EXCEPT ![t] = calls]
  BY DEF Unbind, Last
<1> QED
  BY <1>2, <1>3, <1>4, <1>5, <1>6 DEF CtxInv

\* A step of the model binds, unbinds, or leaves the contexts alone.
LEMMA StepOfContexts ==
  ASSUME [Next]_vars
  PROVE  \/ \E t \in Tasks, r \in Requests, mode \in Modes : Bind(t, r, mode)
         \/ \E t \in Tasks : running[t] # <<>> /\ Unbind(t)
         \/ UNCHANGED <<ctx, running>>
<1>1. CASE UNCHANGED vars
  BY <1>1 DEF vars
<1>2. CASE Next
  <2>1. ASSUME NEW r \in Requests, Forgotten(r)
        PROVE  UNCHANGED <<ctx, running>>
    BY <2>1 DEF Forgotten
  <2>2. ASSUME NEW r \in Requests, NEW t \in Tasks, Call(t, r) \/ NextBegin(t, r)
        PROVE  \E mode \in Modes : Bind(t, r, mode)
    BY <2>2 DEF Call, NextBegin, Modes
  <2>3. ASSUME NEW r \in Requests, NEW t \in Tasks,
               Return(t, r) \/ ReturnStream(t, r) \/ Fetch(t, r)
        PROVE  running[t] # <<>> /\ Unbind(t)
    BY <2>3 DEF Return, ReturnStream, Fetch, NextEnds, NextItem, Doing
  <2>4. ASSUME NEW r \in Requests, NEW t \in Tasks, Break(t, r) \/ Finalize(t, r)
        PROVE  UNCHANGED <<ctx, running>>
    BY <2>4 DEF Break, Finalize
  <2> QED
    BY <1>2, <2>1, <2>2, <2>3, <2>4 DEF Next, Proceed
<1> QED
  BY <1>1, <1>2

\* At first nobody calls anything, and no context is bound.
LEMMA InitCtx == Init => CtxInv
  BY DEF Init, CtxInv, Innermost, FoundOk

\* Every step keeps contexts and calls together.
LEMMA NextCtx == CtxInv /\ [Next]_vars => CtxInv'
<1> SUFFICES ASSUME CtxInv, [Next]_vars
             PROVE  CtxInv'
  OBVIOUS
<1>1. CASE UNCHANGED <<ctx, running>>
  BY <1>1 DEF CtxInv
<1> QED
  BY <1>1, StepOfContexts, BindStep, UnbindStep

\* Between two steps of the SDK a task has the context it had: whatever nests, and
\* although a stream is fetched by several tasks (_bind_state and _unbind_state).
THEOREM ContextsRestored == Spec => []ContextRestored
<1>1. CtxInv => ContextRestored
  BY DEF CtxInv, ContextRestored, Innermost, Last
<1> QED
  BY <1>1, InitCtx, NextCtx, PTL DEF Spec

-------------------------------------------------------------------------------
(* Spans *)

Phases == {"new", "calling", "returned", "unstarted", "fetching", "paused", "ended", "done", "lost"}
Record == [phase : Phases, opener : Tasks \cup {None}, ender : Tasks \cup {None},
           count : Nat, usage : Nat]

TypesOk == /\ req \in [Requests -> Record]
           /\ stack = [k \in Requests \cup Tasks |-> stack[k]]
           /\ emitted \in [Requests -> Nat]

PhaseOf(mode) == IF mode = "call" THEN "calling" ELSE "fetching"

\* A request that is called or fetched is so by one call in progress.
FramesOk ==
    /\ \A t \in Tasks : \A i \in 1..Len(running[t]) :
           req[running[t][i].r].phase = PhaseOf(running[t][i].mode)
    /\ \A t, u \in Tasks : \A i \in 1..Len(running[t]), j \in 1..Len(running[u]) :
           running[t][i].r = running[u][j].r => t = u /\ i = j

\* What is on the stack of a request whose span was not emitted yet.
Stacked(r) == IF req[r].phase \in {"fetching", "paused"} /\ r \in Scoped
              THEN <<"request", "body">> ELSE <<"request">>

SpanOk(r) ==
    /\ emitted[r] = IF req[r].phase \in {"returned", "done"} THEN 1 ELSE 0
    /\ req[r].phase \notin {"new", "returned", "done", "lost"} => stack[r] = Stacked(r)

SpansOk == \A r \in Requests \ spoiled : SpanOk(r)

StreamInv == CtxInv /\ TypesOk /\ FramesOk /\ SpansOk

Others(r) == \A q \in Requests \ {r} : req'[q].phase = req[q].phase

\* A call in progress is on top of a task when a step of it is taken.
LEMMA TopCall ==
  ASSUME CtxInv, NEW t \in Tasks, NEW r \in Requests, NEW mode \in Modes, Doing(t, r, mode)
  PROVE  /\ running[t] # <<>> /\ Last(running[t]).r = r /\ Last(running[t]).mode = mode
         /\ Len(running[t]) \in Nat \ {0} /\ ctx[t] = r /\ StateOf(t, ctx) = r
<1>1. running[t] \in Seq(Frame) /\ running[t] # <<>> /\ ctx[t] = Innermost(running[t])
  BY DEF CtxInv, Doing
<1>2. Len(running[t]) \in Nat \ {0}
  BY <1>1, EmptySeq
<1>3. ctx[t] = r /\ r # None
  BY <1>1, StreamAssumption DEF Innermost, Doing, Last
<1> QED
  BY <1>1, <1>2, <1>3 DEF StateOf, Doing

\* A request that was idle is called or fetched.
LEMMA BindFrames ==
  ASSUME CtxInv, FramesOk, NEW t \in Tasks, NEW r \in Requests, NEW mode \in Modes,
         Bind(t, r, mode), req[r].phase \notin {"calling", "fetching"},
         req'[r].phase = PhaseOf(mode), Others(r)
  PROVE  FramesOk'
<1> DEFINE call == [r |-> r, mode |-> mode, found |-> ctx[t]]
<1>1. call \in Frame /\ \A u \in Tasks : running[u] \in Seq(Frame)
  BY DEF CtxInv, Frame
<1>2. /\ Len(running[t]) \in Nat /\ Len(running'[t]) = Len(running[t]) + 1
      /\ \A i \in 1..Len(running[t]) : running'[t][i] = running[t][i]
      /\ running'[t][Len(running[t]) + 1] = call
  BY <1>1, Appended DEF Bind, CtxInv
<1>3. \A u \in Tasks : u # t => running'[u] = running[u]
  BY DEF Bind, CtxInv
<1>4. \A u \in Tasks : \A i \in 1..Len(running[u]) :
          running[u][i].r \in Requests /\ running[u][i].r # r
  <2>1. \A u \in Tasks : \A i \in 1..Len(running[u]) : running[u][i] \in Frame
    BY <1>1
  <2> QED
    BY <2>1 DEF FramesOk, PhaseOf, Frame
<1>5. ASSUME NEW u \in Tasks, NEW i \in 1..Len(running'[u])
      PROVE  \/ i \in 1..Len(running[u]) /\ running'[u][i] = running[u][i]
             \/ u = t /\ i = Len(running[t]) + 1 /\ running'[u][i] = call
  BY <1>2, <1>3
<1>6. call.r = r /\ call.mode = mode
  OBVIOUS
<1>7. \A u \in Tasks : \A i \in 1..Len(running'[u]) :
          req'[running'[u][i].r].phase = PhaseOf(running'[u][i].mode)
  <2> SUFFICES ASSUME NEW u \in Tasks, NEW i \in 1..Len(running'[u])
               PROVE  req'[running'[u][i].r].phase = PhaseOf(running'[u][i].mode)
    OBVIOUS
  <2>1. CASE i \in 1..Len(running[u]) /\ running'[u][i] = running[u][i]
    <3>1. running[u][i].r \in Requests \ {r}
      BY <1>4, <2>1
    <3>2. req[running[u][i].r].phase = PhaseOf(running[u][i].mode)
      BY <2>1 DEF FramesOk
    <3> QED
      BY <2>1, <3>1, <3>2 DEF Others
  <2>2. CASE running'[u][i] = call
    BY <1>6, <2>2
  <2> QED
    BY <1>5, <2>1, <2>2
<1>8. ASSUME NEW u \in Tasks, NEW v \in Tasks,
             NEW i \in 1..Len(running'[u]), NEW j \in 1..Len(running'[v]),
             running'[u][i].r = running'[v][j].r
      PROVE  u = v /\ i = j
  <2>1. CASE i \in 1..Len(running[u]) /\ j \in 1..Len(running[v])
             /\ running'[u][i] = running[u][i] /\ running'[v][j] = running[v][j]
    BY <1>8, <2>1 DEF FramesOk
  <2>2. CASE \/ u = t /\ i = Len(running[t]) + 1 /\ running'[u][i] = call
             \/ v = t /\ j = Len(running[t]) + 1 /\ running'[v][j] = call
    <3>1. /\ running'[u][i].r = r => u = t /\ i = Len(running[t]) + 1
          /\ running'[v][j].r = r => v = t /\ j = Len(running[t]) + 1
      BY <1>4, <1>5
    <3> QED
      BY <1>6, <1>8, <2>2, <3>1
  <2> QED
    BY <1>5, <2>1, <2>2
<1> QED
  BY <1>7, <1>8 DEF FramesOk

\* The innermost call of a task ends.
LEMMA UnbindFrames ==
  ASSUME CtxInv, FramesOk, NEW t \in Tasks, running[t] # <<>>, Unbind(t),
         Others(Last(running[t]).r)
  PROVE  FramesOk'
<1> DEFINE n == Len(running[t])
<1>1. \A u \in Tasks : running[u] \in Seq(Frame)
  BY DEF CtxInv
<1>2. /\ n \in Nat \ {0} /\ Len(running'[t]) = n - 1
      /\ \A i \in 1..(n - 1) : running'[t][i] = running[t][i]
  BY <1>1, Fronted DEF Unbind, CtxInv
<1>3. \A u \in Tasks : u # t => running'[u] = running[u]
  BY DEF Unbind, CtxInv
<1>4. ASSUME NEW u \in Tasks, NEW i \in 1..Len(running'[u])
      PROVE  /\ i \in 1..Len(running[u]) /\ running'[u][i] = running[u][i]
             /\ running[u][i].r \in Requests /\ running[u][i].r # running[t][n].r
  <2>1. i \in 1..Len(running[u]) /\ running'[u][i] = running[u][i] /\ (u # t \/ i # n)
    BY <1>2, <1>3
  <2>2. running[u][i] \in Frame
    BY <1>1, <2>1
  <2>3. n \in 1..Len(running[t])
    BY <1>2
  <2> QED
    BY <2>1, <2>2, <2>3 DEF FramesOk, Frame
<1>5. ASSUME NEW u \in Tasks, NEW i \in 1..Len(running'[u])
      PROVE  req'[running'[u][i].r].phase = PhaseOf(running'[u][i].mode)
  <2>1. req[running[u][i].r].phase = PhaseOf(running[u][i].mode)
    BY <1>4 DEF FramesOk
  <2>2. running[u][i].r \in Requests \ {Last(running[t]).r}
    BY <1>4 DEF Last
  <2> QED
    BY <1>4, <2>1, <2>2 DEF Others
<1>6. ASSUME NEW u \in Tasks, NEW v \in Tasks,
             NEW i \in 1..Len(running'[u]), NEW j \in 1..Len(running'[v]),
             running'[u][i].r = running'[v][j].r
      PROVE  u = v /\ i = j
  <2>1. /\ i \in 1..Len(running[u]) /\ running'[u][i] = running[u][i]
        /\ j \in 1..Len(running[v]) /\ running'[v][j] = running[v][j]
    BY <1>4
  <2>2. running[u][i].r = running[v][j].r
    BY <1>6, <2>1
  <2> QED
    BY <2>1, <2>2 DEF FramesOk
<1> QED
  BY <1>5, <1>6 DEF FramesOk

\* A request that nothing is in progress for changes its phase.
LEMMA KeepFrames ==
  ASSUME CtxInv, FramesOk, NEW r \in Requests, UNCHANGED running,
         req[r].phase \notin {"calling", "fetching"}, Others(r)
  PROVE  FramesOk'
<1>1. \A u \in Tasks : \A i \in 1..Len(running[u]) :
          running[u][i].r \in Requests /\ running[u][i].r # r
  <2>1. \A u \in Tasks : \A i \in 1..Len(running[u]) : running[u][i] \in Frame
    BY DEF CtxInv
  <2> QED
    BY <2>1 DEF FramesOk, PhaseOf, Frame
<1> QED
  BY <1>1 DEF FramesOk, Others

\* A request turns to another phase, and the others do not.
LEMMA Turned ==
  ASSUME TypesOk, NEW r \in Requests, NEW phase \in Phases, Turns(r, phase)
  PROVE  req' \in [Requests -> Record] /\ req'[r].phase = phase /\ Others(r)
<1>1. req[r] \in Record /\ req' = [req EXCEPT ![r].phase = phase]
  BY DEF TypesOk, Turns
<1>2. [req[r] EXCEPT !.phase = phase] \in Record /\ [req[r] EXCEPT !.phase = phase].phase = phase
  BY <1>1 DEF Record
<1> QED
  BY <1>1, <1>2 DEF TypesOk, Others

\* ScopeStack.pop touches one state, and emits the span of a request only.
LEMMA PopStep ==
  ASSUME TypesOk, NEW st \in Requests \cup Tasks, Pop(st)
  PROVE  /\ stack' = [k \in Requests \cup Tasks |-> stack'[k]]
         /\ emitted' \in [Requests -> Nat]
         /\ \A q \in Requests \ {st} : stack'[q] = stack[q] /\ emitted'[q] = emitted[q]
         /\ st \in Requests /\ stack[st] = <<"request">> => emitted'[st] = emitted[st] + 1
         /\ st \in Requests /\ stack[st] = <<"request", "body">> =>
                stack'[st] = <<"request">> /\ emitted'[st] = emitted[st]
<1>1. stack' = [stack EXCEPT ![st] = IF @ = <<>> THEN @ ELSE Front(@)]
  BY DEF Pop
<1>2. emitted' = IF stack[st] # <<>> /\ Last(stack[st]) = "request"
                 THEN [emitted EXCEPT ![st] = @ + 1] ELSE emitted
  BY DEF Pop
<1>3. /\ stack' = [k \in Requests \cup Tasks |-> stack'[k]]
      /\ \A q \in Requests \ {st} : stack'[q] = stack[q]
      /\ stack'[st] = IF stack[st] = <<>> THEN stack[st] ELSE Front(stack[st])
  BY <1>1 DEF TypesOk
<1>4. /\ emitted' \in [Requests -> Nat]
      /\ \A q \in Requests \ {st} : emitted'[q] = emitted[q]
  <2>1. CASE emitted' = emitted
    BY <2>1 DEF TypesOk
  <2>2. CASE emitted' = [emitted EXCEPT ![st] = @ + 1] /\ st \in Requests
    BY <2>2 DEF TypesOk
  <2>3. CASE emitted' = [emitted EXCEPT ![st] = @ + 1] /\ st \notin Requests
    BY <2>3 DEF TypesOk
  <2> QED
    BY <1>2, <2>1, <2>2, <2>3
<1>5. ASSUME st \in Requests, stack[st] = <<"request">>
      PROVE  emitted'[st] = emitted[st] + 1
  <2>1. <<"request">> # <<>> /\ Last(<<"request">>) = "request"
    BY DEF Last
  <2> QED
    BY <1>2, <1>5, <2>1 DEF TypesOk
<1>6. ASSUME st \in Requests, stack[st] = <<"request", "body">>
      PROVE  stack'[st] = <<"request">> /\ emitted'[st] = emitted[st]
  <2>1. <<"request", "body">> # <<>> /\ Last(<<"request", "body">>) = "body"
    BY DEF Last
  <2>2. Front(<<"request", "body">>) = <<"request">>
    <3> DEFINE S == {"request", "body"}
               two == <<"request", "body">>
    <3>1. two \in Seq(S) /\ two # <<>> /\ Len(two) = 2 /\ two[1] = "request"
      OBVIOUS
    <3>2. /\ <<"request">> \in Seq(S) /\ Len(<<"request">>) = 1
          /\ <<"request">>[1] = "request"
      OBVIOUS
    <3> HIDE DEF S, two
    <3>3. Front(two) \in Seq(S) /\ Len(Front(two)) = 1 /\ Front(two)[1] = "request"
      <4>1. /\ Front(two) \in Seq(S) /\ Len(Front(two)) = Len(two) - 1
            /\ \A i \in 1..(Len(two) - 1) : Front(two)[i] = two[i]
        BY <3>1, Fronted
      <4> QED
        BY <3>1, <4>1
    <3>4. Front(two) = <<"request">>
      <4> DEFINE a == Front(two)
                 b == <<"request">>
      <4>1. a \in Seq(S) /\ b \in Seq(S) /\ Len(a) = Len(b) /\ \A i \in 1..Len(a) : a[i] = b[i]
        BY <3>2, <3>3
      <4> HIDE DEF a, b
      <4>2. a = b
        BY <4>1, SeqEqual
      <4> QED
        BY <4>2 DEF a, b
    <3> QED
      BY <3>4 DEF two
  <2> QED
    BY <1>2, <1>3, <1>6, <2>1, <2>2
<1> QED
  BY <1>3, <1>4, <1>5, <1>6

\* A step that concerns one request, or spoils it, keeps the spans of the others.
LEMMA KeepSpans ==
  ASSUME SpansOk, NEW r \in Requests, spoiled \subseteq spoiled', Others(r),
         \A q \in Requests \ (spoiled' \cup {r}) : stack'[q] = stack[q] /\ emitted'[q] = emitted[q],
         r \in spoiled' \/ SpanOk(r)'
  PROVE  SpansOk'
<1>1. ASSUME NEW q \in Requests \ spoiled', q # r
      PROVE  SpanOk(q)'
  BY <1>1 DEF SpansOk, SpanOk, Stacked, Others
<1> QED
  BY <1>1 DEF SpansOk

-------------------------------------------------------------------------------
(* The decorator *)

\* The decorator opens the span on a state of its own.
LEMMA CallStep ==
  ASSUME StreamInv, NEW t \in Tasks, NEW r \in Requests, Call(t, r)
  PROVE  StreamInv'
<1>1. /\ req[r].phase = "new" /\ Bind(t, r, "call") /\ stack' = [stack EXCEPT ![r] = <<"request">>]
      /\ req' = [req EXCEPT ![r] = [@ EXCEPT !.phase = "calling", !.opener = t]]
      /\ emitted' = emitted /\ spoiled' = spoiled
  BY DEF Call
<1>2. /\ CtxInv /\ TypesOk /\ FramesOk /\ SpansOk /\ "call" \in Modes
  BY DEF StreamInv, Modes
<1>3. /\ req' \in [Requests -> Record] /\ req'[r].phase = "calling" /\ Others(r)
  <2>1. /\ [req[r] EXCEPT !.phase = "calling", !.opener = t] \in Record
        /\ [req[r] EXCEPT !.phase = "calling", !.opener = t].phase = "calling"
    BY <1>2 DEF TypesOk, Record, Phases
  <2> QED
    BY <1>1, <1>2, <2>1 DEF TypesOk, Others
<1>4. TypesOk'
  BY <1>1, <1>2, <1>3 DEF TypesOk
<1>5. CtxInv'
  BY <1>1, <1>2, BindStep
<1>6. FramesOk'
  BY <1>1, <1>2, <1>3, BindFrames DEF PhaseOf
<1>7. r \in spoiled' \/ SpanOk(r)'
  BY <1>1, <1>2, <1>3 DEF SpansOk, SpanOk, Stacked, TypesOk
<1>8. \A q \in Requests \ (spoiled' \cup {r}) : stack'[q] = stack[q] /\ emitted'[q] = emitted[q]
  BY <1>1, <1>2 DEF TypesOk
<1>9. SpansOk'
  BY <1>1, <1>2, <1>3, <1>7, <1>8, KeepSpans
<1> QED
  BY <1>4, <1>5, <1>6, <1>9 DEF StreamInv

\* The span is popped under the context of the request.
LEMMA ReturnStep ==
  ASSUME StreamInv, NEW t \in Tasks, NEW r \in Requests, Return(t, r)
  PROVE  StreamInv'
<1>1. /\ Doing(t, r, "call") /\ Pop(StateOf(t, ctx)) /\ Unbind(t) /\ Turns(r, "returned")
      /\ spoiled' = spoiled
  BY DEF Return
<1>2. /\ CtxInv /\ TypesOk /\ FramesOk /\ SpansOk
      /\ "call" \in Modes /\ "returned" \in Phases
  BY DEF StreamInv, Modes, Phases
<1>3. /\ running[t] # <<>> /\ Last(running[t]).r = r /\ Last(running[t]).mode = "call"
      /\ Len(running[t]) \in Nat \ {0} /\ StateOf(t, ctx) = r
  BY <1>1, <1>2, TopCall
<1>4. req' \in [Requests -> Record] /\ req'[r].phase = "returned" /\ Others(r)
  BY <1>1, <1>2, Turned
<1>5. req[r].phase = "calling"
  BY <1>2, <1>3 DEF FramesOk, PhaseOf, Last
<1>6. /\ stack' = [k \in Requests \cup Tasks |-> stack'[k]]
      /\ emitted' \in [Requests -> Nat]
      /\ \A q \in Requests \ {r} : stack'[q] = stack[q] /\ emitted'[q] = emitted[q]
      /\ stack[r] = <<"request">> => emitted'[r] = emitted[r] + 1
  <2>1. Pop(r)
    BY <1>1, <1>3
  <2> QED
    BY <1>2, <2>1, PopStep
<1>7. TypesOk'
  BY <1>4, <1>6 DEF TypesOk
<1>8. CtxInv' /\ FramesOk'
  BY <1>1, <1>2, <1>3, <1>4, UnbindStep, UnbindFrames
<1>9. r \in spoiled' \/ SpanOk(r)'
  BY <1>1, <1>2, <1>4, <1>5, <1>6 DEF SpansOk, SpanOk, Stacked
<1>10. SpansOk'
  BY <1>1, <1>2, <1>4, <1>6, <1>9, KeepSpans
<1> QED
  BY <1>7, <1>8, <1>10 DEF StreamInv

\* The wrapper takes the span over.
LEMMA ReturnStreamStep ==
  ASSUME StreamInv, NEW t \in Tasks, NEW r \in Requests, ReturnStream(t, r)
  PROVE  StreamInv'
<1>1. /\ Doing(t, r, "call") /\ Unbind(t) /\ Turns(r, "unstarted")
      /\ spoiled' = spoiled /\ stack' = stack /\ emitted' = emitted
  BY DEF ReturnStream
<1>2. /\ CtxInv /\ TypesOk /\ FramesOk /\ SpansOk
      /\ "call" \in Modes /\ "unstarted" \in Phases
  BY DEF StreamInv, Modes, Phases
<1>3. /\ running[t] # <<>> /\ Last(running[t]).r = r /\ Last(running[t]).mode = "call"
      /\ Len(running[t]) \in Nat \ {0}
  BY <1>1, <1>2, TopCall
<1>4. req' \in [Requests -> Record] /\ req'[r].phase = "unstarted" /\ Others(r)
  BY <1>1, <1>2, Turned
<1>5. req[r].phase = "calling"
  BY <1>2, <1>3 DEF FramesOk, PhaseOf, Last
<1>6. TypesOk'
  BY <1>1, <1>2, <1>4 DEF TypesOk
<1>7. CtxInv' /\ FramesOk'
  BY <1>1, <1>2, <1>3, <1>4, UnbindStep, UnbindFrames
<1>8. r \in spoiled' \/ SpanOk(r)'
  BY <1>1, <1>2, <1>4, <1>5 DEF SpansOk, SpanOk, Stacked
<1>9. SpansOk'
  BY <1>1, <1>2, <1>4, <1>8, KeepSpans
<1> QED
  BY <1>6, <1>7, <1>9 DEF StreamInv

-------------------------------------------------------------------------------
(* The wrapper *)

\* The body of the generator opens its scope on the stack of its request.
LEMMA NextBeginStep ==
  ASSUME StreamInv, NEW t \in Tasks, NEW r \in Requests, NextBegin(t, r)
  PROVE  StreamInv'
<1>1. /\ req[r].phase \in {"unstarted", "paused"} /\ Bind(t, r, "next") /\ Turns(r, "fetching")
      /\ stack' = IF req[r].phase = "unstarted" /\ r \in Scoped
                  THEN [stack EXCEPT ![r] = Append(@, "body")] ELSE stack
      /\ spoiled' = spoiled /\ emitted' = emitted
  BY DEF NextBegin
<1>2. /\ CtxInv /\ TypesOk /\ FramesOk /\ SpansOk
      /\ "next" \in Modes /\ "fetching" \in Phases
  BY DEF StreamInv, Modes, Phases
<1>3. req' \in [Requests -> Record] /\ req'[r].phase = "fetching" /\ Others(r)
  BY <1>1, <1>2, Turned
<1>4. /\ stack' = [k \in Requests \cup Tasks |-> stack'[k]]
      /\ \A q \in Requests \ {r} : stack'[q] = stack[q]
      /\ stack'[r] = IF req[r].phase = "unstarted" /\ r \in Scoped
                     THEN Append(stack[r], "body") ELSE stack[r]
  BY <1>1, <1>2 DEF TypesOk
<1>5. TypesOk'
  BY <1>1, <1>2, <1>3, <1>4 DEF TypesOk
<1>6. CtxInv' /\ FramesOk'
  BY <1>1, <1>2, <1>3, BindStep, BindFrames DEF PhaseOf
<1>7. Append(<<"request">>, "body") = <<"request", "body">>
  <2>1. "request" \in {"request", "body"} /\ "body" \in {"request", "body"}
    OBVIOUS
  <2> QED
    BY <2>1, Paired
<1>8. ASSUME r \notin spoiled
      PROVE  SpanOk(r)'
  <2>1. emitted[r] = 0 /\ stack[r] = Stacked(r)
    BY <1>1, <1>2, <1>8 DEF SpansOk, SpanOk
  <2>2. stack'[r] = IF r \in Scoped THEN <<"request", "body">> ELSE <<"request">>
    BY <1>1, <1>4, <1>7, <2>1 DEF Stacked
  <2> QED
    BY <1>1, <1>3, <2>1, <2>2 DEF SpanOk, Stacked
<1>9. SpansOk'
  BY <1>1, <1>2, <1>3, <1>4, <1>8, KeepSpans
<1> QED
  BY <1>5, <1>6, <1>9 DEF StreamInv

\* An item changes neither the stack nor the span.
LEMMA NextItemStep ==
  ASSUME StreamInv, NEW t \in Tasks, NEW r \in Requests, NEW usage \in Nat, NextItem(t, r, usage)
  PROVE  StreamInv'
<1>1. /\ Doing(t, r, "next") /\ req[r].phase = "fetching" /\ Unbind(t)
      /\ req' = [req EXCEPT ![r] = [@ EXCEPT !.phase = "paused", !.count = req[r].count + 1,
                                        !.usage = IF usage = 0 THEN req[r].usage ELSE usage]]
      /\ spoiled' = spoiled /\ stack' = stack /\ emitted' = emitted
  BY DEF NextItem
<1>2. CtxInv /\ TypesOk /\ FramesOk /\ SpansOk /\ "next" \in Modes
  BY DEF StreamInv, Modes
<1>3. running[t] # <<>> /\ Last(running[t]).r = r
  BY <1>1, <1>2, TopCall
<1>4. req' \in [Requests -> Record] /\ req'[r].phase = "paused" /\ Others(r)
  <2> DEFINE count  == req[r].count + 1
             tokens == IF usage = 0 THEN req[r].usage ELSE usage
             rec    == [req[r] EXCEPT !.phase = "paused", !.count = count, !.usage = tokens]
  <2>1. rec \in Record /\ rec.phase = "paused"
    <3>1. req[r] \in Record
      BY <1>2 DEF TypesOk
    <3>2. count \in Nat /\ tokens \in Nat
      BY <3>1 DEF Record
    <3> HIDE DEF count, tokens
    <3> QED
      BY <3>1, <3>2 DEF Record, Phases
  <2>2. req' = [req EXCEPT ![r] = rec]
    BY <1>1
  <2> HIDE DEF rec
  <2> QED
    BY <1>2, <2>1, <2>2 DEF TypesOk, Others
<1>5. TypesOk'
  BY <1>1, <1>2, <1>4 DEF TypesOk
<1>6. CtxInv' /\ FramesOk'
  BY <1>1, <1>2, <1>3, <1>4, UnbindStep, UnbindFrames
<1>7. r \in spoiled' \/ SpanOk(r)'
  BY <1>1, <1>2, <1>4 DEF SpansOk, SpanOk, Stacked
<1>8. SpansOk'
  BY <1>1, <1>2, <1>4, <1>7, KeepSpans
<1> QED
  BY <1>5, <1>6, <1>8 DEF StreamInv

\* A request whose stream ends on task t has that recorded.
LEMMA Ended ==
  ASSUME TypesOk, NEW t \in Tasks, NEW r \in Requests, Ends(t, r)
  PROVE  req' \in [Requests -> Record] /\ req'[r].phase = "ended" /\ Others(r)
<1> DEFINE rec == [req[r] EXCEPT !.phase = "ended", !.ender = t]
<1>1. rec \in Record /\ rec.phase = "ended"
  BY DEF TypesOk, Record, Phases
<1>2. req' = [req EXCEPT ![r] = rec]
  BY DEF Ends
<1> HIDE DEF rec
<1> QED
  BY <1>1, <1>2 DEF TypesOk, Others

\* A generator that ends closes the scope of its body under the binding.
LEMMA NextEndsStep ==
  ASSUME StreamInv, NEW t \in Tasks, NEW r \in Requests, NextEnds(t, r)
  PROVE  StreamInv'
<1>1. /\ Doing(t, r, "next") /\ req[r].phase = "fetching" /\ Ends(t, r) /\ Unbind(t)
      /\ spoiled' = spoiled
  BY DEF NextEnds
<1>2. CtxInv /\ TypesOk /\ FramesOk /\ SpansOk /\ "next" \in Modes
  BY DEF StreamInv, Modes
<1>3. running[t] # <<>> /\ Last(running[t]).r = r /\ StateOf(t, ctx) = r
  BY <1>1, <1>2, TopCall
<1>4. req' \in [Requests -> Record] /\ req'[r].phase = "ended" /\ Others(r)
  BY <1>1, <1>2, Ended
<1>5. /\ stack' = [k \in Requests \cup Tasks |-> stack'[k]]
      /\ emitted' \in [Requests -> Nat]
      /\ \A q \in Requests \ {r} : stack'[q] = stack[q] /\ emitted'[q] = emitted[q]
      /\ stack[r] = Stacked(r) => stack'[r] = <<"request">> /\ emitted'[r] = emitted[r]
  <2>1. CASE r \in Scoped
    <3>1. Pop(r) /\ Stacked(r) = <<"request", "body">>
      BY <1>1, <1>3, <2>1 DEF Ends, Stacked
    <3> QED
      BY <1>2, <3>1, PopStep
  <2>2. CASE r \notin Scoped
    <3>1. stack' = stack /\ emitted' = emitted /\ Stacked(r) = <<"request">>
      BY <1>1, <2>2 DEF Ends, Stacked
    <3> QED
      BY <1>2, <3>1 DEF TypesOk
  <2> QED
    BY <2>1, <2>2
<1>6. TypesOk'
  BY <1>4, <1>5 DEF TypesOk
<1>7. CtxInv' /\ FramesOk'
  BY <1>1, <1>2, <1>3, <1>4, UnbindStep, UnbindFrames
<1>8. r \in spoiled' \/ SpanOk(r)'
  BY <1>1, <1>2, <1>4, <1>5 DEF SpansOk, SpanOk, Stacked
<1>9. SpansOk'
  BY <1>1, <1>2, <1>4, <1>5, <1>8, KeepSpans
<1> QED
  BY <1>6, <1>7, <1>9 DEF StreamInv

\* The consumer breaks off: what its context is may be popped, and is spoiled.
LEMMA BreakStep ==
  ASSUME StreamInv, NEW t \in Tasks, NEW r \in Requests, Break(t, r)
  PROVE  StreamInv'
<1>1. /\ req[r].phase = "paused" /\ Ends(t, r) /\ UNCHANGED <<ctx, running>>
      /\ spoiled' = IF r \in Scoped THEN spoiled \cup {StateOf(t, ctx), r} ELSE spoiled
  BY DEF Break
<1>2. CtxInv /\ TypesOk /\ FramesOk /\ SpansOk
  BY DEF StreamInv
<1>3. StateOf(t, ctx) \in Requests \cup Tasks
  BY <1>2 DEF CtxInv, StateOf
<1>4. req' \in [Requests -> Record] /\ req'[r].phase = "ended" /\ Others(r)
  BY <1>1, <1>2, Ended
<1>5. CtxInv' /\ FramesOk'
  <2>1. CtxInv'
    BY <1>1, <1>2 DEF CtxInv
  <2> QED
    BY <1>1, <1>2, <1>4, <2>1, KeepFrames
<1>6. CASE r \in Scoped
  <2>1. Pop(StateOf(t, ctx)) /\ spoiled' = spoiled \cup {StateOf(t, ctx), r}
    BY <1>1, <1>6 DEF Ends
  <2>2. /\ stack' = [k \in Requests \cup Tasks |-> stack'[k]] /\ emitted' \in [Requests -> Nat]
        /\ \A q \in Requests \ {StateOf(t, ctx)} : stack'[q] = stack[q] /\ emitted'[q] = emitted[q]
    BY <1>2, <1>3, <2>1, PopStep
  <2>3. SpansOk'
    BY <1>2, <1>4, <2>1, <2>2, KeepSpans
  <2> QED
    BY <1>4, <1>5, <2>2, <2>3 DEF StreamInv, TypesOk
<1>7. CASE r \notin Scoped
  <2>1. stack' = stack /\ emitted' = emitted /\ spoiled' = spoiled
    BY <1>1, <1>7 DEF Ends
  <2>2. r \in spoiled' \/ SpanOk(r)'
    BY <1>1, <1>2, <1>4, <1>7, <2>1 DEF SpansOk, SpanOk, Stacked
  <2>3. SpansOk'
    BY <1>2, <1>4, <2>1, <2>2, KeepSpans
  <2> QED
    BY <1>2, <1>4, <1>5, <2>1, <2>3 DEF StreamInv, TypesOk
<1> QED
  BY <1>6, <1>7

\* The closer emits the span, which was not emitted before.
LEMMA FinalizeStep ==
  ASSUME StreamInv, NEW t \in Tasks, NEW r \in Requests, Finalize(t, r)
  PROVE  StreamInv'
<1>1. /\ req[r].phase = "ended" /\ Turns(r, "done") /\ UNCHANGED <<ctx, running, spoiled>>
      /\ stack' = IF t = req[r].opener
                  THEN [stack EXCEPT ![r] = SelectSeq(@, LAMBDA s : s # "request")] ELSE stack
      /\ emitted' = IF emitted[r] = 0 THEN [emitted EXCEPT ![r] = 1] ELSE emitted
  BY DEF Finalize
<1>2. CtxInv /\ TypesOk /\ FramesOk /\ SpansOk /\ "done" \in Phases
  BY DEF StreamInv, Phases
<1>3. req' \in [Requests -> Record] /\ req'[r].phase = "done" /\ Others(r)
  BY <1>1, <1>2, Turned
<1>4. /\ stack' = [k \in Requests \cup Tasks |-> stack'[k]] /\ emitted' \in [Requests -> Nat]
      /\ \A q \in Requests \ {r} : stack'[q] = stack[q] /\ emitted'[q] = emitted[q]
      /\ emitted[r] = 0 => emitted'[r] = 1
  BY <1>1, <1>2 DEF TypesOk
<1>5. CtxInv' /\ FramesOk'
  <2>1. CtxInv'
    BY <1>1, <1>2 DEF CtxInv
  <2> QED
    BY <1>1, <1>2, <1>3, <2>1, KeepFrames
<1>6. r \in spoiled' \/ SpanOk(r)'
  BY <1>1, <1>2, <1>3, <1>4 DEF SpansOk, SpanOk
<1>7. SpansOk'
  BY <1>1, <1>2, <1>3, <1>4, <1>6, KeepSpans
<1> QED
  BY <1>3, <1>4, <1>5, <1>7 DEF StreamInv, TypesOk

\* A generator that is dropped before it starts keeps its span open.
LEMMA ForgottenStep ==
  ASSUME StreamInv, NEW r \in Requests, Forgotten(r)
  PROVE  StreamInv'
<1>1. /\ req[r].phase = "unstarted" /\ Turns(r, "lost")
      /\ UNCHANGED <<ctx, stack, running, emitted, spoiled>>
  BY DEF Forgotten
<1>2. CtxInv /\ TypesOk /\ FramesOk /\ SpansOk /\ "lost" \in Phases
  BY DEF StreamInv, Phases
<1>3. req' \in [Requests -> Record] /\ req'[r].phase = "lost" /\ Others(r)
  BY <1>1, <1>2, Turned
<1>4. CtxInv' /\ FramesOk'
  <2>1. CtxInv'
    BY <1>1, <1>2 DEF CtxInv
  <2> QED
    BY <1>1, <1>2, <1>3, <2>1, KeepFrames
<1>5. r \in spoiled' \/ SpanOk(r)'
  BY <1>1, <1>2, <1>3 DEF SpansOk, SpanOk
<1>6. SpansOk'
  BY <1>1, <1>2, <1>3, <1>5, KeepSpans
<1> QED
  BY <1>1, <1>2, <1>3, <1>4, <1>6 DEF StreamInv, TypesOk

-------------------------------------------------------------------------------
(* The theorem *)

\* At first every request is new.
LEMMA InitStream == Init => StreamInv
<1> SUFFICES ASSUME Init
             PROVE  StreamInv
  OBVIOUS
<1>1. CtxInv
  BY InitCtx
<1>2. TypesOk
  BY DEF Init, TypesOk, Record, Phases
<1>3. FramesOk
  BY DEF Init, FramesOk
<1>4. SpansOk
  BY DEF Init, SpansOk, SpanOk
<1> QED
  BY <1>1, <1>2, <1>3, <1>4 DEF StreamInv

\* Every action keeps the invariant.
LEMMA NextStream == StreamInv /\ [Next]_vars => StreamInv'
<1> SUFFICES ASSUME StreamInv, [Next]_vars
             PROVE  StreamInv'
  OBVIOUS
<1>1. CASE UNCHANGED vars
  BY <1>1 DEF vars, StreamInv, CtxInv, TypesOk, FramesOk, SpansOk, SpanOk, Stacked
<1>2. ASSUME NEW r \in Requests, Forgotten(r)
      PROVE  StreamInv'
  BY <1>2, ForgottenStep
<1>3. ASSUME NEW r \in Requests, NEW t \in Tasks, Call(t, r) \/ Return(t, r) \/ ReturnStream(t, r)
      PROVE  StreamInv'
  BY <1>3, CallStep, ReturnStep, ReturnStreamStep
<1>4. ASSUME NEW r \in Requests, NEW t \in Tasks, NextBegin(t, r) \/ Fetch(t, r)
      PROVE  StreamInv'
  <2>1. \A usage \in {0, MaxItems + 1} : usage \in Nat
    BY StreamAssumption
  <2> QED
    BY <1>4, <2>1, NextBeginStep, NextItemStep, NextEndsStep DEF Fetch
<1>5. ASSUME NEW r \in Requests, NEW t \in Tasks, Break(t, r) \/ Finalize(t, r)
      PROVE  StreamInv'
  BY <1>5, BreakStep, FinalizeStep
<1> QED
  BY <1>1, <1>2, <1>3, <1>4, <1>5 DEF Next, Proceed

\* The decorator and the wrapper between them emit the span of a request once, when it
\* is over: whoever fetches the last item, however streams alternate, and unless a stream
\* that was broken off has popped it (_finish_call, _runner and close_and_remove).
THEOREM SpansEmittedOnce == Spec => []SpanEmittedOnce
<1>1. StreamInv => SpanEmittedOnce
  BY DEF StreamInv, SpansOk, SpanOk, SpanEmittedOnce
<1> QED
  BY <1>1, InitStream, NextStream, PTL DEF Spec

-------------------------------------------------------------------------------
(* Marks.  What hangs on a request depends on how far its stream has got: a   *)
(* stream that yielded has one mark, and the end adds one or two.             *)

\* A mark of r by that name, on a scope of r unless r is spoiled.
MarkOf(m, name, r) == /\ m.name = name
                      /\ r \notin spoiled => m.at.state = r /\ m.at.on # "nothing"

MarksSoFar(r) ==
    IF req[r].count = 0 THEN marks[r] = <<>>
    ELSE \E f : marks[r] = <<f>> /\ MarkOf(f, "ttft", r)

MarksInTheEnd(r) ==
    IF req[r].count = 0 THEN \E d : marks[r] = <<d>> /\ MarkOf(d, "duration", r)
    ELSE \E f, d, n : /\ marks[r] = <<f, d, n>>
                      /\ MarkOf(f, "ttft", r) /\ MarkOf(d, "duration", r) /\ MarkOf(n, "tokens", r)

MarksOf(r) == IF req[r].phase = "done" THEN MarksInTheEnd(r) ELSE MarksSoFar(r)

MarksOk == marks = [r \in Requests |-> marks[r]] /\ \A r \in Requests : MarksOf(r)

\* Sequences of marks that are put together.
LEMMA OneMark == \A d : <<>> \o (<<d>> \o <<>>) = <<d>> /\ Append(<<>>, d) = <<d>>
<1> SUFFICES ASSUME NEW d PROVE <<>> \o (<<d>> \o <<>>) = <<d>> /\ Append(<<>>, d) = <<d>>
  OBVIOUS
<1>1. <<d>> \in Seq({d}) /\ <<>> \in Seq({d})
  OBVIOUS
<1>2. <<d>> \o <<>> = <<d>> /\ <<>> \o <<d>> = <<d>>
  BY <1>1, ConcatEmptySeq
<1> QED
  BY <1>2

LEMMA ThreeMarks == \A f, d, n : <<f>> \o (<<d>> \o <<n>>) = <<f, d, n>>
<1> SUFFICES ASSUME NEW f, NEW d, NEW n PROVE <<f>> \o (<<d>> \o <<n>>) = <<f, d, n>>
  OBVIOUS
<1> DEFINE S == {f, d, n}
<1>1. <<f>> \in Seq(S) /\ <<d>> \in Seq(S) /\ <<n>> \in Seq(S) /\ <<f, d, n>> \in Seq(S)
  OBVIOUS
<1>2. /\ Len(<<f>>) = 1 /\ Len(<<d>>) = 1 /\ Len(<<n>>) = 1 /\ Len(<<f, d, n>>) = 3
      /\ <<f>>[1] = f /\ <<d>>[1] = d /\ <<n>>[1] = n
      /\ <<f, d, n>>[1] = f /\ <<f, d, n>>[2] = d /\ <<f, d, n>>[3] = n
  OBVIOUS
<1> HIDE DEF S
<1>3. PICK two : two = <<d>> \o <<n>>
  OBVIOUS
<1>4. two \in Seq(S) /\ Len(two) = 2 /\ two[1] = d /\ two[2] = n
  <2>1. /\ two \in Seq(S) /\ Len(two) = Len(<<d>>) + Len(<<n>>)
        /\ \A i \in 1..Len(<<d>>) + Len(<<n>>) :
               two[i] = IF i <= Len(<<d>>) THEN <<d>>[i] ELSE <<n>>[i - Len(<<d>>)]
    BY <1>1, <1>3, ConcatProperties
  <2> QED
    BY <1>2, <2>1
<1>5. PICK three : three = <<f>> \o two
  OBVIOUS
<1>6. three \in Seq(S) /\ Len(three) = 3 /\ three[1] = f /\ three[2] = d /\ three[3] = n
  <2>1. /\ three \in Seq(S) /\ Len(three) = Len(<<f>>) + Len(two)
        /\ \A i \in 1..Len(<<f>>) + Len(two) :
               three[i] = IF i <= Len(<<f>>) THEN <<f>>[i] ELSE two[i - Len(<<f>>)]
    BY <1>1, <1>4, <1>5, ConcatProperties
  <2> QED
    BY <1>2, <1>4, <2>1
<1>7. PICK all : all = <<f, d, n>>
  OBVIOUS
<1>8. \A i \in 1..Len(three) : three[i] = all[i]
  BY <1>2, <1>6, <1>7
<1>9. three = all
  BY <1>1, <1>2, <1>6, <1>7, <1>8, SeqEqual
<1> QED
  BY <1>3, <1>5, <1>7, <1>9

\* A step that adds no mark, and neither yields nor finalizes.
LEMMA KeepMarks ==
  ASSUME MarksOk, marks' = marks, spoiled \subseteq spoiled',
         \A r \in Requests : req'[r].count = req[r].count,
         \A r \in Requests : req'[r].phase = "done" <=> req[r].phase = "done"
  PROVE  MarksOk'
<1>1. ASSUME NEW r \in Requests
      PROVE  MarksOf(r)'
  <2>1. MarksOf(r) /\ req'[r].count = req[r].count
        /\ (req'[r].phase = "done" <=> req[r].phase = "done")
    BY DEF MarksOk
  <2>2. \A m, name : MarkOf(m, name, r) => MarkOf(m, name, r)'
    BY DEF MarkOf
  <2> QED
    BY <2>1, <2>2 DEF MarksOf, MarksInTheEnd, MarksSoFar
<1> QED
  BY <1>1 DEF MarksOk

\* A mark that is set now hangs on the request, whose span is still open.
LEMMA HangsWell ==
  ASSUME StreamInv, NEW t \in Tasks, NEW r \in Requests, NEW c, StateOf(t, c) = r,
         req[r].phase \in {"fetching", "ended"}
  PROVE  r \notin spoiled => Hang(t, c).state = r /\ Hang(t, c).on # "nothing"
<1> SUFFICES ASSUME r \notin spoiled
             PROVE  Hang(t, c).state = r /\ Hang(t, c).on # "nothing"
  OBVIOUS
<1>1. stack[r] = <<"request">> \/ stack[r] = <<"request", "body">>
  BY DEF StreamInv, SpansOk, SpanOk, Stacked
<1>2. stack[r] # <<>> /\ Last(stack[r]) # "nothing"
  <2>1. CASE stack[r] = <<"request">>
    <3>1. Len(<<"request">>) = 1 /\ <<"request">>[1] = "request"
      OBVIOUS
    <3> QED
      BY <2>1, <3>1 DEF Last
  <2>2. CASE stack[r] = <<"request", "body">>
    <3>1. Len(<<"request", "body">>) = 2 /\ <<"request", "body">>[2] = "body"
      OBVIOUS
    <3> QED
      BY <2>2, <3>1 DEF Last
  <2> QED
    BY <1>1, <2>1, <2>2
<1> QED
  BY <1>2 DEF Hang

LEMMA MarksNextItem ==
  ASSUME StreamInv, MarksOk, NEW t \in Tasks, NEW r \in Requests, NEW usage \in Nat,
         NextItem(t, r, usage)
  PROVE  MarksOk'
<1>1. /\ Doing(t, r, "next") /\ req[r].phase = "fetching" /\ spoiled' = spoiled
      /\ marks' = IF req[r].count > 0 THEN marks
                  ELSE [marks EXCEPT ![r] = Append(@, [name |-> "ttft", at |-> Hang(t, ctx)])]
  BY DEF NextItem
<1>2. StateOf(t, ctx) = r
  BY <1>1, TopCall DEF StreamInv, Modes
<1>3. req[r].count \in Nat /\ req = [q \in Requests |-> req[q]]
      /\ req[r] = [phase |-> req[r].phase, opener |-> req[r].opener, ender |-> req[r].ender,
                   count |-> req[r].count, usage |-> req[r].usage]
  BY DEF StreamInv, TypesOk, Record
<1>4. /\ req'[r].phase = "paused" /\ req'[r].count = req[r].count + 1
      /\ \A q \in Requests : q # r => req'[q] = req[q]
  <2>1. PICK tokens : tokens = IF usage = 0 THEN req[r].usage ELSE usage
    OBVIOUS
  <2>2. req' = [req EXCEPT ![r] = [req[r] EXCEPT !.phase = "paused",
                                                 !.count = req[r].count + 1, !.usage = tokens]]
    BY <2>1 DEF NextItem
  <2> QED
    BY <1>3, <2>2
<1>5. MarksSoFar(r)
  BY <1>1 DEF MarksOk, MarksOf
<1>6. \E f : marks'[r] = <<f>> /\ MarkOf(f, "ttft", r)
  <2>1. CASE req[r].count > 0
    BY <1>1, <1>5, <2>1 DEF MarksSoFar
  <2>2. CASE req[r].count = 0
    <3>1. PICK f : f = [name |-> "ttft", at |-> Hang(t, ctx)]
      OBVIOUS
    <3>2. marks' = [marks EXCEPT ![r] = Append(@, f)] /\ marks[r] = <<>>
      BY <1>1, <1>5, <2>2, <3>1 DEF MarksSoFar
    <3>3. marks'[r] = Append(<<>>, f)
      BY <3>2 DEF MarksOk
    <3>4. MarkOf(f, "ttft", r)
      BY <1>1, <1>2, <3>1, HangsWell DEF MarkOf
    <3> QED
      BY <3>3, <3>4, OneMark
  <2> QED
    BY <1>3, <2>1, <2>2
<1>7. /\ marks' = [q \in Requests |-> marks'[q]]
      /\ \A q \in Requests : q # r => marks'[q] = marks[q]
  BY <1>1 DEF MarksOk
<1>8. ASSUME NEW q \in Requests
      PROVE  MarksOf(q)'
  <2>1. CASE q # r
    <3>1. MarksOf(q) /\ req'[q] = req[q] /\ marks'[q] = marks[q]
      BY <1>4, <1>7, <2>1 DEF MarksOk
    <3>2. \A m, name : MarkOf(m, name, q) => MarkOf(m, name, q)'
      BY <1>1 DEF MarkOf
    <3> QED
      BY <3>1, <3>2 DEF MarksOf, MarksInTheEnd, MarksSoFar
  <2>2. CASE q = r
    BY <1>1, <1>3, <1>4, <1>6, <2>2 DEF MarksOf, MarksSoFar, MarkOf
  <2> QED
    BY <2>1, <2>2
<1> QED
  BY <1>7, <1>8 DEF MarksOk

LEMMA MarksFinalize ==
  ASSUME StreamInv, MarksOk, NEW t \in Tasks, NEW r \in Requests, Finalize(t, r)
  PROVE  MarksOk'
<1>1. PICK at : at = Hang(t, [ctx EXCEPT ![t] = r])
  OBVIOUS
<1>2. /\ req[r].phase = "ended" /\ Turns(r, "done") /\ spoiled' = spoiled
      /\ marks' = [marks EXCEPT ![r] = @ \o FinalMarks(r, at)]
  BY <1>1 DEF Finalize
<1>3. r \notin spoiled => at.state = r /\ at.on # "nothing"
  <2>1. PICK c : c = [ctx EXCEPT ![t] = r]
    OBVIOUS
  <2>2. StateOf(t, c) = r
    BY <2>1, StreamAssumption DEF StateOf, StreamInv, CtxInv
  <2> QED
    BY <1>1, <1>2, <2>1, <2>2, HangsWell
<1>4. /\ req'[r].phase = "done" /\ req'[r].count = req[r].count
      /\ \A q \in Requests : q # r => req'[q] = req[q]
  BY <1>2 DEF Turns, StreamInv, TypesOk, Record
<1>5. /\ marks' = [q \in Requests |-> marks'[q]] /\ marks'[r] = marks[r] \o FinalMarks(r, at)
      /\ \A q \in Requests : q # r => marks'[q] = marks[q]
  BY <1>2 DEF MarksOk
<1>6. MarksSoFar(r)
  BY <1>2 DEF MarksOk, MarksOf
<1>7. PICK d, n : /\ d = [name |-> "duration", at |-> at]
                  /\ n = [name |-> "tokens", at |-> at,
                          n |-> IF req[r].usage > 0 THEN req[r].usage ELSE req[r].count]
  OBVIOUS
<1>8. MarkOf(d, "duration", r) /\ MarkOf(n, "tokens", r)
  BY <1>3, <1>7 DEF MarkOf
<1>9. ASSUME NEW q \in Requests, q # r
       PROVE  MarksOf(q)'
  <2>1. MarksOf(q) /\ req'[q] = req[q] /\ marks'[q] = marks[q]
    BY <1>4, <1>5, <1>9 DEF MarksOk
  <2>2. \A m, name : MarkOf(m, name, q) => MarkOf(m, name, q)'
    BY <1>2 DEF MarkOf
  <2> QED
    BY <2>1, <2>2 DEF MarksOf, MarksInTheEnd, MarksSoFar
<1>10. CASE req[r].count = 0
  <2>1. marks'[r] = <<>> \o (<<d>> \o <<>>)
    BY <1>5, <1>6, <1>7, <1>10 DEF MarksSoFar, FinalMarks
  <2>2. marks'[r] = <<d>>
    BY <2>1, OneMark
  <2>3. MarksOf(r)'
    BY <1>2, <1>4, <1>8, <1>10, <2>2 DEF MarksOf, MarksInTheEnd, MarkOf
  <2> QED
    BY <1>5, <1>9, <2>3 DEF MarksOk
<1>11. CASE req[r].count # 0
  <2>1. PICK f : marks[r] = <<f>> /\ MarkOf(f, "ttft", r)
    BY <1>6, <1>11 DEF MarksSoFar
  <2>2. marks'[r] = <<f>> \o (<<d>> \o <<n>>)
    BY <1>5, <1>7, <1>11, <2>1 DEF FinalMarks
  <2>3. marks'[r] = <<f, d, n>>
    BY <2>2, ThreeMarks
  <2>4. MarksOf(r)'
    BY <1>2, <1>4, <1>8, <1>11, <2>1, <2>3 DEF MarksOf, MarksInTheEnd, MarkOf
  <2> QED
    BY <1>5, <1>9, <2>4 DEF MarksOk
<1> QED
  BY <1>10, <1>11

LEMMA NextMarks == StreamInv /\ MarksOk /\ [Next]_vars => MarksOk'
<1> SUFFICES ASSUME StreamInv, MarksOk, [Next]_vars
             PROVE  MarksOk'
  OBVIOUS
<1>1. TypesOk
  BY DEF StreamInv
<1>2. ASSUME NEW r \in Requests, NEW phase, Turns(r, phase), phase # "done",
             req[r].phase # "done", marks' = marks, spoiled \subseteq spoiled'
      PROVE  MarksOk'
  <2>1. \A q \in Requests : /\ req'[q].count = req[q].count
                            /\ req'[q].phase = "done" <=> req[q].phase = "done"
    BY <1>1, <1>2 DEF Turns, TypesOk, Record
  <2> QED
    BY <1>2, <2>1, KeepMarks
<1>3. ASSUME NEW r \in Requests, NEW t \in Tasks, Ends(t, r), req[r].phase # "done",
             spoiled \subseteq spoiled'
      PROVE  MarksOk'
  <2>1. \A q \in Requests : /\ req'[q].count = req[q].count
                            /\ req'[q].phase = "done" <=> req[q].phase = "done"
    BY <1>1, <1>3 DEF Ends, TypesOk, Record
  <2> QED
    BY <1>3, <2>1, KeepMarks DEF Ends
<1>4. ASSUME NEW r \in Requests, NEW t \in Tasks, Call(t, r)
      PROVE  MarksOk'
  <2>1. \A q \in Requests : /\ req'[q].count = req[q].count
                            /\ req'[q].phase = "done" <=> req[q].phase = "done"
    BY <1>1, <1>4 DEF Call, TypesOk, Record
  <2> QED
    BY <1>4, <2>1, KeepMarks DEF Call
<1>5. ASSUME NEW r \in Requests, NEW t \in Tasks, NEW mode, Doing(t, r, mode), mode \in Modes
      PROVE  req[r].phase = PhaseOf(mode)
  <2>1. running[t] # <<>> /\ Last(running[t]).r = r /\ Last(running[t]).mode = mode
        /\ Len(running[t]) \in Nat \ {0}
    BY <1>5, TopCall DEF StreamInv
  <2>2. req[running[t][Len(running[t])].r].phase = PhaseOf(running[t][Len(running[t])].mode)
    BY <2>1 DEF StreamInv, FramesOk
  <2> QED
    BY <2>1, <2>2 DEF Last
<1>6. ASSUME NEW r \in Requests, NEW t \in Tasks, Return(t, r) \/ ReturnStream(t, r)
      PROVE  MarksOk'
  <2>1. req[r].phase = "calling"
    BY <1>5, <1>6 DEF Return, ReturnStream, PhaseOf, Modes
  <2> QED
    BY <1>2, <1>6, <2>1 DEF Return, ReturnStream
<1>7. ASSUME NEW r \in Requests, NEW t \in Tasks, NextBegin(t, r)
      PROVE  MarksOk'
  BY <1>2, <1>7 DEF NextBegin
<1>8. ASSUME NEW r \in Requests, NEW t \in Tasks, Fetch(t, r)
      PROVE  MarksOk'
  <2>1. \A usage \in {0, MaxItems + 1} : usage \in Nat
    BY StreamAssumption
  <2>2. CASE NextEnds(t, r)
    BY <1>3, <2>2 DEF NextEnds
  <2> QED
    BY <1>8, <2>1, <2>2, MarksNextItem DEF Fetch
<1>9. ASSUME NEW r \in Requests, NEW t \in Tasks, Break(t, r)
      PROVE  MarksOk'
  <2>1. spoiled \subseteq spoiled' /\ Ends(t, r) /\ req[r].phase # "done"
    BY <1>9 DEF Break
  <2> QED
    BY <1>3, <2>1
<1>10. ASSUME NEW r \in Requests, Forgotten(r)
       PROVE  MarksOk'
  BY <1>2, <1>10 DEF Forgotten
<1>11. CASE UNCHANGED vars
  BY <1>11, KeepMarks DEF vars
<1> QED
  BY <1>4, <1>6, <1>7, <1>8, <1>9, <1>10, <1>11, MarksFinalize DEF Next, Proceed

\* The marks of a stream hang on the span of their own request, which is still open, and
\* tell what the stream did: one duration, one time to the first token and one token count
\* if it yielded anything (_runner and _finalize_stream), whatever streams alternate.
THEOREM StreamsMarkedRight == Spec => []MarksRight
<1>1. Init => MarksOk
  BY DEF Init, MarksOk, MarksOf, MarksSoFar
<1>2. StreamInv /\ MarksOk => MarksRight
  <2> SUFFICES ASSUME StreamInv, MarksOk PROVE MarksRight
    OBVIOUS
  <2>1. ASSUME NEW r \in Requests, req[r].phase = "done"
        PROVE  LET names == [i \in DOMAIN marks[r] |-> marks[r][i].name]
               IN  IF req[r].count = 0 THEN names = <<"duration">>
                   ELSE names = <<"ttft", "duration", "tokens">>
    <3>1. MarksInTheEnd(r)
      BY <2>1 DEF MarksOk, MarksOf
    <3>2. CASE req[r].count = 0
      <4>1. PICK d : marks[r] = <<d>> /\ d.name = "duration"
        BY <3>1, <3>2 DEF MarksInTheEnd, MarkOf
      <4> QED
        BY <3>2, <4>1
    <3>3. CASE req[r].count # 0
      <4>1. PICK f, d, n : /\ marks[r] = <<f, d, n>>
                           /\ f.name = "ttft" /\ d.name = "duration" /\ n.name = "tokens"
        BY <3>1, <3>3 DEF MarksInTheEnd, MarkOf
      <4> QED
        BY <3>3, <4>1
    <3> QED
      BY <3>2, <3>3
  <2>2. ASSUME NEW r \in Requests \ spoiled, NEW i \in DOMAIN marks[r]
        PROVE  marks[r][i].at.state = r /\ marks[r][i].at.on # "nothing"
    <3>1. MarksInTheEnd(r) \/ MarksSoFar(r)
      BY DEF MarksOk, MarksOf
    <3>2. CASE MarksSoFar(r)
      BY <3>2 DEF MarksSoFar, MarkOf
    <3>3. CASE MarksInTheEnd(r)
      BY <3>3 DEF MarksInTheEnd, MarkOf
    <3> QED
      BY <3>1, <3>2, <3>3
  <2> QED
    BY <2>1, <2>2 DEF MarksRight, MarksOnTheRequest, MarksTellTheStream
<1> QED
  BY <1>1, <1>2, InitStream, NextStream, NextMarks, PTL DEF Spec
===============================================================================
