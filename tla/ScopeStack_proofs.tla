-------------------------- MODULE ScopeStack_proofs --------------------------
(***************************************************************************)
(* Proofs about ScopeStack, for any number of threads, spans, requests and *)
(* drainers and any bounds.                                                *)
(***************************************************************************)
EXTENDS ScopeStack, FiniteSetTheorems, SequenceTheorems, TLAPS

USE ConstantsAssumption

-------------------------------------------------------------------------------
(* Sequences *)

\* The stack after a pop: what is on it was on it.
LEMMA ButLast ==
    ASSUME NEW S, NEW q \in Seq(S), q # <<>>
    PROVE  /\ SubSeq(q, 1, Len(q) - 1) \in Seq(S)
           /\ q[Len(q)] \in S
           /\ \A i \in 1..Len(SubSeq(q, 1, Len(q) - 1)) :
                 SubSeq(q, 1, Len(q) - 1)[i] = q[i] /\ i \in 1..Len(q)
  OBVIOUS

\* A deque after a popleft: what was behind the head.
LEMMA Shifted ==
    ASSUME NEW S, NEW q \in Seq(S), q # <<>>, NEW i \in 1..Len(Tail(q))
    PROVE  Tail(q)[i] = q[i + 1] /\ i + 1 \in 1..Len(q)
  <1>1. /\ Len(Tail(q)) = Len(q) - 1 /\ Len(q) \in Nat
        /\ \A k \in 1..Len(Tail(q)) : Tail(q)[k] = q[k + 1]
    BY HeadTailProperties
  <1> QED BY <1>1

\* A full deque after an append: the new element, and what was behind the head.
LEMMA Rotated ==
    ASSUME NEW S, NEW q \in Seq(S), q # <<>>, NEW s \in S,
           NEW i \in 1..Len(Append(Tail(q), s))
    PROVE  \/ Append(Tail(q), s)[i] = s
           \/ \E j \in 1..Len(q) : Append(Tail(q), s)[i] = q[j] /\ j # 1
  <1> DEFINE r == Tail(q)
  <1>1. /\ r \in Seq(S) /\ Len(r) = Len(q) - 1 /\ Len(q) \in Nat
        /\ \A k \in 1..Len(r) : r[k] = q[k + 1]
    BY HeadTailProperties
  <1> HIDE DEF r
  <1>2. /\ Len(Append(r, s)) = Len(r) + 1 /\ Append(r, s)[Len(r) + 1] = s
        /\ \A k \in 1..Len(r) : Append(r, s)[k] = r[k]
    BY <1>1, AppendProperties
  <1>3. i = Len(r) + 1 \/ i \in 1..Len(r)
    <2>1. i \in 1..(Len(r) + 1) /\ Len(r) \in Nat
      BY <1>1, <1>2 DEF r
    <2> QED BY ONLY <2>1
  <1>4. CASE i \in 1..Len(r)
    <2>1. Append(r, s)[i] = q[i + 1]
      BY <1>1, <1>2, <1>4
    <2>2. i + 1 \in 1..Len(q) /\ i + 1 # 1
      BY <1>1, <1>4
    <2> QED BY <2>1, <2>2 DEF r
  <1> QED BY <1>2, <1>3, <1>4 DEF r

\* The stack after a removal from the middle: what is on it was on it.
LEMMA WithoutShrinks ==
    ASSUME NEW S, NEW q \in Seq(S), NEW s, In(s, q)
    PROVE  /\ Without(q, s) \in Seq(S)
           /\ \A i \in 1..Len(Without(q, s)) :
                 \E j \in 1..Len(q) : Without(q, s)[i] = q[j]
  <1> DEFINE k == CHOOSE j \in 1..Len(q) : q[j] = s
  <1>1. k \in 1..Len(q) /\ Len(q) \in Nat
    BY DEF In
  <1>2. Without(q, s) = SubSeq(q, 1, k - 1) \o SubSeq(q, k + 1, Len(q))
    BY DEF Without
  <1> HIDE DEF k
  <1> DEFINE a == SubSeq(q, 1, k - 1)
             b == SubSeq(q, k + 1, Len(q))
  <1>3. /\ a \in Seq(S) /\ Len(a) = k - 1
        /\ \A i \in 1..Len(a) : a[i] = q[i]
    BY <1>1
  <1>4. /\ b \in Seq(S) /\ Len(b) = Len(q) - k
        /\ \A i \in 1..Len(b) : b[i] = q[k + i]
    BY <1>1
  <1> HIDE DEF a, b
  <1>5. /\ a \o b \in Seq(S) /\ Len(a \o b) = Len(a) + Len(b)
        /\ \A i \in 1..(Len(a) + Len(b)) :
              (a \o b)[i] = IF i <= Len(a) THEN a[i] ELSE b[i - Len(a)]
    <2>1. a \in Seq(S) /\ b \in Seq(S)
      BY <1>3, <1>4
    <2> QED BY ONLY <2>1, ConcatProperties
  <1>6. ASSUME NEW i \in 1..Len(a \o b)
        PROVE  \E j \in 1..Len(q) : (a \o b)[i] = q[j]
    <2>0. i \in 1..(Len(a) + Len(b)) /\ i \in Nat
      BY <1>1, <1>3, <1>4, <1>5
    <2>1. CASE i <= Len(a)
      <3>1. (a \o b)[i] = a[i] /\ i \in 1..Len(a)
        BY <2>0, <2>1, <1>1, <1>3, <1>5
      <3>2. a[i] = q[i] /\ i \in 1..Len(q)
        BY <3>1, <1>1, <1>3
      <3> QED BY <3>1, <3>2
    <2>2. CASE i > Len(a)
      <3>1. i - Len(a) \in 1..Len(b)
        BY <2>0, <2>2, <1>1, <1>3, <1>4
      <3>2. (a \o b)[i] = q[k + (i - Len(a))] /\ k + (i - Len(a)) \in 1..Len(q)
        BY <2>0, <2>2, <3>1, <1>1, <1>3, <1>4, <1>5
      <3> QED BY <3>2
    <2> QED BY <2>0, <2>1, <2>2, <1>1, <1>3
  <1> QED BY <1>2, <1>5, <1>6 DEF a, b

-------------------------------------------------------------------------------
(* Type correctness.  TypeOK is not inductive: close_scope looks the registry *)
(* up under the thread id of the span it closes, which must be one, and a     *)
(* push gives the span the thread id of the state it works on.                *)

\* A context is bound only by the thread that entered it, and restores one of
\* the same thread.
CtxOk == /\ \A t \in Threads : ctx[t] # None => reqTid[ctx[t]] = TidOf[t]
         /\ \A r \in Requests : token[r] # None =>
               reqTid[token[r]] # None /\ reqTid[token[r]] = reqTid[r]

\* A span being closed was opened.
CallOk == \A t \in Threads : call[t] # Idle => threadId[call[t].span] # None

\* What is on a stack was pushed there, by the thread the state belongs to.
StackOk == \A st \in States : \A i \in 1..Len(stack[st]) :
              /\ threadId[stack[st][i]] # None
              /\ threadId[stack[st][i]] = StateTid(st)

\* A thread identifier is in use by one live thread, which alone makes calls.
AliveOk == /\ \A t \in Threads : call[t] # Idle => life[t] = "live"
           /\ \A t, u \in Threads : life[t] = "live" /\ life[u] = "live"
                                      /\ TidOf[t] = TidOf[u] => t = u

TInv == TypeOK /\ CtxOk /\ CallOk /\ StackOk /\ AliveOk

LEMMA CurrentType ==
    ASSUME TypeOK, CtxOk, NEW t \in Threads
    PROVE  Current(t) \in States /\ StateTid(Current(t)) = TidOf[t]
  BY DEF TypeOK, CtxOk, Current, StateTid, States

LEMMA CallType ==
    ASSUME TypeOK, NEW t \in Threads, call[t].pc # "idle"
    PROVE  /\ call[t].span \in Spans /\ call[t] # Idle
           /\ call[t].pc \in {"stamp", "append"} => call[t].dst \in States
  <1>1. call[t] \in Calls /\ call[t] # Idle
    BY DEF TypeOK, Idle
  <1> QED BY <1>1 DEF Calls

LEMMA ReadyIsIdle ==
    ASSUME TypeOK, NEW t \in Threads, call[t].pc = "idle"
    PROVE  call[t] = Idle
  <1>1. call[t] \in Calls
    BY DEF TypeOK
  <1> QED BY <1>1 DEF Calls

LEMMA TypeInit == Init => TInv
  BY DEF Init, TInv, TypeOK, CtxOk, CallOk, StackOk, AliveOk, Idle, Rest, Calls,
         Drains, Items, States, Keys

\* Steps that start a call or go on with one keep the calls typed.
LEMMA BeginType ==
    ASSUME TypeOK, CallOk, AliveOk, NEW t \in Threads, NEW s \in Spans, NEW pc,
           NEW dst, life[t] = "live", life' = life, threadId[s] # None,
           threadId' = threadId, Begin(t, pc, s, dst),
           \/ pc \in {"stamp", "append"} /\ dst \in States
           \/ pc \in {"lookup", "hold"} /\ dst = None
    PROVE  call' \in [Threads -> Calls] /\ CallOk' /\ AliveOk'
  <1>1. [pc |-> pc, span |-> s, dst |-> dst] \in Calls
    BY DEF Calls
  <1> QED BY <1>1 DEF TypeOK, Begin, CallOk, AliveOk

LEMMA NoteType ==
    ASSUME TypeOK, CallOk, AliveOk, NEW t \in Threads, NEW s \in Spans,
           NEW st \in States, life[t] = "live", life' = life, threadId[s] # None,
           threadId' = threadId, NoteThenAppend(t, s, st)
    PROVE  /\ dropCount' \in [States -> Nat]
           /\ call' \in [Threads -> Calls] /\ CallOk' /\ AliveOk'
  <1>1. call' \in [Threads -> Calls] /\ CallOk' /\ AliveOk'
    BY BeginType DEF NoteThenAppend
  <1>2. dropCount' \in [States -> Nat]
    BY DEF NoteThenAppend, TypeOK
  <1> QED BY <1>1, <1>2

LEMMA EndType ==
    ASSUME TypeOK, CallOk, AliveOk, NEW t \in Threads, threadId' = threadId,
           life' = life, call' = [call EXCEPT ![t] = Idle]
    PROVE  call' \in [Threads -> Calls] /\ CallOk' /\ AliveOk'
  BY DEF TypeOK, CallOk, AliveOk, Calls

LEMMA TypeContext ==
    ASSUME TInv, NEW t \in Threads,
           \/ ThreadStart(t) \/ ThreadExit(t) \/ ExitIsolated(t)
           \/ \E r \in Requests : EnterIsolated(t, r)
    PROVE  TInv'
  <1> USE DEF shape, TInv
  <1>1. CASE ThreadStart(t)
    BY <1>1 DEF ThreadStart, TypeOK, CtxOk, CallOk, StackOk, StateTid, AliveOk,
                States, Keys
  <1>2. CASE ThreadExit(t)
    <2>1. call[t] = Idle
      BY <1>2, ReadyIsIdle DEF ThreadExit, Ready
    <2>2. AliveOk'
      BY <1>2, <2>1 DEF ThreadExit, TypeOK, AliveOk
    <2> QED BY <1>2, <2>2 DEF ThreadExit, TypeOK, CtxOk, CallOk, StackOk, StateTid
  <1>3. CASE ExitIsolated(t)
    <2>1. TypeOK' /\ CtxOk'
      BY <1>3 DEF ExitIsolated, TypeOK, CtxOk, Keys, States
    <2> QED BY <1>3, <2>1 DEF ExitIsolated, CallOk, StackOk, StateTid, AliveOk
  <1>4. ASSUME NEW r \in Requests, EnterIsolated(t, r)
        PROVE  TInv'
    <2>1. TypeOK'
      BY <1>4 DEF EnterIsolated, TypeOK, Keys, States
    <2>2. \A u \in Threads : ctx'[u] # None => reqTid'[ctx'[u]] = TidOf[u]
      BY <1>4 DEF EnterIsolated, TypeOK, CtxOk
    <2>3. \A q \in Requests : token'[q] # None =>
             reqTid'[token'[q]] # None /\ reqTid'[token'[q]] = reqTid'[q]
      BY <1>4 DEF EnterIsolated, TypeOK, CtxOk
    <2>4. StackOk'
      BY <1>4 DEF EnterIsolated, TypeOK, StackOk, StateTid, States
    <2> QED BY <1>4, <2>1, <2>2, <2>3, <2>4 DEF EnterIsolated, CtxOk, CallOk, AliveOk
  <1> QED BY <1>1, <1>2, <1>3, <1>4

LEMMA TypePush ==
    ASSUME TInv, NEW t \in Threads, NEW s \in Spans,
           Push(t, s) \/ PushRefused(t, s)
    PROVE  TInv'
  <1> USE DEF shape, TInv
  <1> DEFINE st == Current(t)
  <1>0. st \in States /\ StateTid(st) = TidOf[t] /\ TidOf[t] \in Tids
    BY CurrentType
  <1>1. CASE Push(t, s)
    <2>1. stack[st] \in Seq(Spans) /\ Append(stack[st], s) \in Seq(Spans)
      BY <1>0 DEF TypeOK
    <2>2. stack' \in [States -> Seq(Spans)]
      BY <1>0, <1>1, <2>1 DEF Push, TypeOK
    <2>3. threadId' = [threadId EXCEPT ![s] = TidOf[t]]
      BY <1>0, <1>1 DEF Push
    <2>4. parent' \in [Spans -> Spans \cup {None}]
      <3>1. CASE stack[st] = <<>>
        BY <1>1, <3>1 DEF Push, TypeOK
      <3>2. CASE stack[st] # <<>>
        <4>1. stack[st][Len(stack[st])] \in Spans
          BY <2>1, <3>2, ButLast
        <4> QED BY <1>1, <3>2, <4>1 DEF Push, TypeOK
      <3> QED BY <3>1, <3>2
    <2>5. CallOk'
      BY <1>0, <1>1, <2>3, CallType DEF Push, TypeOK, CallOk
    <2>6. StackOk'
      <3> SUFFICES ASSUME NEW x \in States, NEW i \in 1..Len(stack'[x])
                   PROVE  /\ threadId'[stack'[x][i]] # None
                          /\ threadId'[stack'[x][i]] = StateTid(x)
        BY <1>1 DEF StackOk, StateTid, Push
      <3>1. CASE x = st /\ i = Len(stack[st]) + 1
        <4>1. stack'[x][i] = s
          BY <1>0, <1>1, <2>1, <3>1 DEF Push, TypeOK
        <4> QED BY <4>1, <2>3, <3>1, <1>0 DEF TypeOK
      <3>2. CASE ~ (x = st /\ i = Len(stack[st]) + 1)
        <4>1. i \in 1..Len(stack[x]) /\ stack'[x][i] = stack[x][i]
          BY <1>0, <1>1, <2>1, <3>2 DEF Push, TypeOK
        <4>2. stack[x][i] \in Spans /\ stack[x][i] # s
          BY <4>1, <1>1 DEF StackOk, TypeOK, Push
        <4> QED BY <4>1, <4>2, <2>3 DEF StackOk, TypeOK
      <3> QED BY <3>1, <3>2
    <2> QED BY <1>1, <2>2, <2>3, <2>4, <2>5, <2>6 DEF Push, TypeOK, CtxOk, AliveOk
  <1>2. CASE PushRefused(t, s)
    BY <1>0, <1>2 DEF PushRefused, TypeOK, CtxOk, CallOk, StackOk, StateTid, AliveOk
  <1> QED BY <1>1, <1>2

\* A stack that only lost elements keeps StackOk.
LEMMA StackShrinks ==
    ASSUME TInv, NEW st \in States, NEW q \in Seq(Spans),
           \A i \in 1..Len(q) : \E j \in 1..Len(stack[st]) : q[i] = stack[st][j],
           stack' = [stack EXCEPT ![st] = q], threadId' = threadId, reqTid' = reqTid
    PROVE  stack' \in [States -> Seq(Spans)] /\ StackOk'
  <1>1. stack' \in [States -> Seq(Spans)]
    BY DEF TInv, TypeOK
  <1>2. ASSUME NEW x \in States, NEW i \in 1..Len(stack'[x])
        PROVE  \E j \in 1..Len(stack[x]) : stack'[x][i] = stack[x][j]
    BY <1>2 DEF TInv, TypeOK
  <1>3. ASSUME NEW x \in States, NEW i \in 1..Len(stack'[x])
        PROVE  /\ threadId'[stack'[x][i]] # None
               /\ threadId'[stack'[x][i]] = StateTid(x)
    <2>1. PICK j \in 1..Len(stack[x]) : stack'[x][i] = stack[x][j]
      BY <1>2
    <2> QED BY <2>1 DEF TInv, StackOk
  <1> QED BY <1>1, <1>3 DEF StackOk, StateTid

LEMMA TypePop ==
    ASSUME TInv, NEW t \in Threads, Pop(t)
    PROVE  TInv'
  <1> USE DEF shape, TInv
  <1> DEFINE st == Current(t)
             top == stack[st][Len(stack[st])]
  <1>1. st \in States /\ stack[st] \in Seq(Spans) /\ stack[st] # <<>>
    BY CurrentType DEF Pop, TypeOK
  <1>2. top \in Spans /\ threadId[top] # None
    BY <1>1, ButLast DEF StackOk
  <1>3. stack' \in [States -> Seq(Spans)] /\ StackOk'
    <2> DEFINE q == SubSeq(stack[st], 1, Len(stack[st]) - 1)
    <2>1. q \in Seq(Spans) /\ \A i \in 1..Len(q) :
             \E j \in 1..Len(stack[st]) : q[i] = stack[st][j]
      BY <1>1, ButLast
    <2>2. stack' = [stack EXCEPT ![st] = q]
      BY DEF Pop
    <2> HIDE DEF q
    <2> QED BY <1>1, <2>1, <2>2, StackShrinks DEF Pop
  <1>4. call' \in [Threads -> Calls] /\ CallOk' /\ AliveOk'
    <2>1. CASE top \in ended
      BY <2>1 DEF Pop, TypeOK, CallOk, AliveOk
    <2>2. CASE top \notin ended
      BY <2>2, <1>1, <1>2, BeginType DEF Pop, Ready
    <2> QED BY <2>1, <2>2
  <1> QED BY <1>3, <1>4 DEF Pop, TypeOK, CtxOk

LEMMA TypeClose ==
    ASSUME TInv, NEW t \in Threads, NEW s \in Spans,
           \/ CloseScope(t, s) \/ CloseAndRemove(t, s)
           \/ FinalizeDeferred(t, s) \/ EmitClosed(t, s)
    PROVE  TInv'
  <1> USE DEF shape, TInv
  <1> DEFINE st == Current(t)
  <1>0. st \in States /\ stack[st] \in Seq(Spans)
    BY CurrentType DEF TypeOK
  <1>1. CASE CloseScope(t, s)
    <2>1. call' \in [Threads -> Calls] /\ CallOk' /\ AliveOk'
      BY <1>1, BeginType DEF CloseScope, Ready, MayClose
    <2> QED BY <1>1, <2>1 DEF CloseScope, TypeOK, CtxOk, StackOk, StateTid
  <1>2. CASE CloseAndRemove(t, s)
    <2>1. threadId[s] # None
      BY <1>2 DEF CloseAndRemove, TypeOK
    <2>2. stack' \in [States -> Seq(Spans)] /\ StackOk'
      BY <1>0, <1>2, WithoutShrinks, StackShrinks DEF CloseAndRemove
    <2>3. call' \in [Threads -> Calls] /\ CallOk' /\ AliveOk'
      <3>1. CASE s \in ended
        BY <1>2, <3>1 DEF CloseAndRemove, TypeOK, CallOk, AliveOk
      <3>2. CASE s \notin ended
        BY <1>0, <1>2, <2>1, <3>2, BeginType DEF CloseAndRemove, Ready
      <3> QED BY <3>1, <3>2
    <2> QED BY <1>2, <2>2, <2>3 DEF CloseAndRemove, TypeOK, CtxOk
  <1>3. CASE FinalizeDeferred(t, s)
    <2>1. stack' \in [States -> Seq(Spans)] /\ StackOk'
      <3>1. CASE threadId[s] = TidOf[t] /\ In(s, stack[st])
        BY <1>0, <1>3, <3>1, WithoutShrinks, StackShrinks DEF FinalizeDeferred
      <3>2. CASE ~ (threadId[s] = TidOf[t] /\ In(s, stack[st]))
        BY <1>3, <3>2 DEF FinalizeDeferred, TypeOK, StackOk, StateTid
      <3> QED BY <3>1, <3>2
    <2>2. call' \in [Threads -> Calls] /\ CallOk' /\ AliveOk'
      <3>1. CASE s \in ended
        BY <1>3, <3>1 DEF FinalizeDeferred, TypeOK, CallOk, AliveOk
      <3>2. CASE s \notin ended
        BY <1>3, <3>2, BeginType DEF FinalizeDeferred, Ready, MayClose
      <3> QED BY <3>1, <3>2
    <2> QED BY <1>3, <2>1, <2>2 DEF FinalizeDeferred, TypeOK, CtxOk
  <1>4. CASE EmitClosed(t, s)
    <2> DEFINE dst == registry[threadId[s]]
    <2>1. dst \in States \cup {None} /\ threadId[s] # None
      BY <1>4 DEF EmitClosed, MayClose, TypeOK, Keys
    <2>2. /\ dropCount' \in [States -> Nat]
          /\ call' \in [Threads -> Calls] /\ CallOk' /\ AliveOk'
      <3>1. CASE dst = None
        BY <1>4, <3>1 DEF EmitClosed, TypeOK, CallOk, AliveOk
      <3>2. CASE dst # None
        BY <1>4, <2>1, <3>2, NoteType DEF EmitClosed, Ready
      <3> QED BY <3>1, <3>2
    <2> QED BY <1>4, <2>2 DEF EmitClosed, TypeOK, CtxOk, StackOk, StateTid
  <1> QED BY <1>1, <1>2, <1>3, <1>4

LEMMA TypeFinish ==
    ASSUME TInv, NEW t \in Threads, Stamp(t) \/ Hold(t) \/ AppendClosed(t)
    PROVE  TInv'
  <1> USE DEF shape, TInv
  <1> DEFINE s == call[t].span
  <1>0. s \in Spans /\ threadId[s] # None /\ life[t] = "live"
    BY CallType DEF Stamp, Hold, AppendClosed, CallOk, AliveOk
  <1>1. CASE Stamp(t)
    <2> DEFINE st == IF call[t].pc = "stamp" THEN call[t].dst
                     ELSE registry[threadId[s]]
    <2>1. st \in States \cup {None}
      BY <1>0, <1>1, CallType DEF Stamp, TypeOK, Keys
    <2>2. /\ dropCount' \in [States -> Nat]
          /\ call' \in [Threads -> Calls] /\ CallOk' /\ AliveOk'
      <3>1. CASE st = None
        BY <1>1, <3>1, EndType DEF Stamp, TypeOK
      <3>2. CASE st # None
        BY <1>0, <1>1, <2>1, <3>2, NoteType DEF Stamp
      <3> QED BY <3>1, <3>2
    <2> QED BY <1>0, <1>1, <2>2 DEF Stamp, TypeOK, CtxOk, StackOk, StateTid
  <1>2. CASE Hold(t)
    <2>1. call' \in [Threads -> Calls] /\ CallOk' /\ AliveOk'
      BY <1>2, EndType DEF Hold
    <2> QED BY <1>0, <1>2, <2>1 DEF Hold, TypeOK, CtxOk, StackOk, StateTid
  <1>3. CASE AppendClosed(t)
    <2> DEFINE st == call[t].dst
               q  == closed[st]
    <2>1. st \in States /\ q \in Seq(Spans)
      BY <1>3, CallType DEF AppendClosed, TypeOK
    <2>2. call' \in [Threads -> Calls] /\ CallOk' /\ AliveOk'
      BY <1>3, EndType DEF AppendClosed
    <2>3. closed' \in [States -> Seq(Spans)] /\ lost' \in [States -> SUBSET Spans]
      <3>1. CASE Len(q) = ClosedCap
        <4>1. q # <<>>
          BY <3>1
        <4>2. Head(q) \in Spans /\ Tail(q) \in Seq(Spans)
          BY <2>1, <4>1, HeadTailProperties
        <4>3. Append(Tail(q), s) \in Seq(Spans)
          BY <1>0, <4>2
        <4>4. /\ closed' = [closed EXCEPT ![st] = Append(Tail(q), s)]
              /\ lost' = [lost EXCEPT ![st] = @ \cup {Head(q)}]
          BY <1>3, <3>1 DEF AppendClosed
        <4> HIDE DEF q, s, st
        <4> QED BY <2>1, <4>2, <4>3, <4>4 DEF TypeOK
      <3>2. CASE Len(q) # ClosedCap
        <4>1. Append(q, s) \in Seq(Spans)
          BY <1>0, <2>1
        <4>2. closed' = [closed EXCEPT ![st] = Append(q, s)] /\ lost' = lost
          BY <1>3, <3>2 DEF AppendClosed
        <4> HIDE DEF q, s, st
        <4> QED BY <2>1, <4>1, <4>2 DEF TypeOK
      <3> QED BY <3>1, <3>2
    <2>4. UNCHANGED <<life, registry, ctx, token, reqTid, stack, dropCount,
                      threadId, parent, ended, deferred, drain, delivered>>
      BY <1>3 DEF AppendClosed
    <2>5. TypeOK'
      BY <2>2, <2>3, <2>4 DEF TypeOK
    <2>6. CtxOk' /\ StackOk'
      BY <2>4 DEF CtxOk, StackOk, StateTid
    <2> QED BY <2>2, <2>5, <2>6
  <1> QED BY <1>1, <1>2, <1>3

\* What a drain does leaves who works on which state alone.
LEMMA DrainLeavesCalls ==
    ASSUME TInv, UNCHANGED <<life, ctx, token, reqTid, stack, threadId, call>>
    PROVE  CtxOk' /\ CallOk' /\ StackOk' /\ AliveOk'
  <1>1. CtxOk'
    BY DEF TInv, CtxOk
  <1>2. CallOk' /\ AliveOk'
    BY DEF TInv, CallOk, AliveOk
  <1>3. StackOk'
    BY DEF TInv, StackOk, StateTid
  <1> QED BY <1>1, <1>2, <1>3

\* The step of a drain that touches no deque and keeps the types of its own state.
LEMMA DrainMoves ==
    ASSUME TInv, drain' \in [Drainers -> Drains],
           UNCHANGED <<shape, stack, closed, dropCount, threadId, parent, ended,
                       call, deferred, delivered, lost>>
    PROVE  TInv'
  <1>1. TypeOK'
    BY DEF TInv, TypeOK, shape
  <1> QED BY <1>1, DrainLeavesCalls DEF TInv, shape

LEMMA TypeDrain ==
    ASSUME TInv, NEW d \in Drainers, DrainStep(d)
    PROVE  TInv'
  <1> USE DEF shape, TInv
  <1>0. drain[d] \in Drains
    BY DEF TypeOK
  <1>1. CASE DrainSnapshot(d)
    <2>1. {<<k, registry[k]>> : k \in {j \in Keys : registry[j] # None}} \in SUBSET Items
      BY DEF TypeOK, Items
    <2>2. drain' \in [Drainers -> Drains]
      BY <1>1, <2>1 DEF DrainSnapshot, Rest, Drains, TypeOK
    <2> QED BY <1>1, <2>2, DrainMoves DEF DrainSnapshot
  <1>2. CASE DrainVisit(d)
    <2>1. drain' \in [Drainers -> Drains]
      <3>1. PICK item \in drain[d].todo :
               drain' = [drain EXCEPT ![d].at = item, ![d].todo = @ \ {item}]
        BY <1>2 DEF DrainVisit
      <3>2. item \in Items /\ drain[d].todo \ {item} \in SUBSET Items
        BY <1>0, <3>1 DEF Drains
      <3>3. [drain[d] EXCEPT !.at = item, !.todo = @ \ {item}] \in Drains
        BY <1>0, <3>2 DEF Drains
      <3>4. drain' = [drain EXCEPT ![d] = [drain[d] EXCEPT !.at = item,
                                                          !.todo = @ \ {item}]]
        BY <3>1 DEF TypeOK
      <3> QED BY <3>3, <3>4 DEF TypeOK
    <2> QED BY <1>2, <2>1, DrainMoves DEF DrainVisit
  <1>3. CASE DrainPopleft(d)
    <2> DEFINE st == drain[d].at[2]
    <2>1. st \in States /\ closed[st] \in Seq(Spans) /\ closed[st] # <<>>
      <3>1. drain[d].at \in Items
        BY <1>0, <1>3 DEF DrainPopleft, Drains
      <3>2. st \in States
        BY <3>1 DEF Items
      <3>3. closed[st] \in Seq(Spans)
        BY <3>2 DEF TypeOK
      <3> QED BY <1>3, <3>2, <3>3 DEF DrainPopleft
    <2>2. Head(closed[st]) \in Spans /\ Tail(closed[st]) \in Seq(Spans)
      <3> HIDE DEF st
      <3> QED BY <2>1, HeadTailProperties
    <2>3. /\ closed' = [closed EXCEPT ![st] = Tail(closed[st])]
          /\ delivered' = [delivered EXCEPT ![Head(closed[st])] = @ + 1]
          /\ UNCHANGED <<shape, stack, dropCount, threadId, parent, ended, call,
                         deferred, drain, lost>>
      BY <1>3, <2>1 DEF DrainPopleft, TypeOK
    <2> HIDE DEF st
    <2>4. closed' \in [States -> Seq(Spans)]
      BY <2>1, <2>2, <2>3 DEF TypeOK
    <2>5. delivered' \in [Spans -> Nat]
      BY <2>2, <2>3 DEF TypeOK
    <2>6. TypeOK'
      BY <2>3, <2>4, <2>5 DEF TypeOK
    <2> QED BY <2>3, <2>6, DrainLeavesCalls
  <1>4. CASE DrainLeave(d)
    <2> DEFINE key == drain[d].at[1]
               pr  == IF key \in Requests /\ stack[drain[d].at[2]] = <<>>
                      THEN drain[d].prunable \cup {key} ELSE drain[d].prunable
               e   == [drain[d] EXCEPT !.at = None, !.prunable = pr]
    <2>1. pr \in SUBSET Requests
      BY <1>0 DEF Drains
    <2>2. drain' = [drain EXCEPT ![d] = e]
      BY <1>4 DEF DrainLeave, TypeOK
    <2> HIDE DEF pr
    <2>3. e \in Drains
      BY <1>0, <2>1 DEF Drains
    <2> HIDE DEF e
    <2>5. drain' \in [Drainers -> Drains]
      BY <2>2, <2>3 DEF TypeOK
    <2> QED BY <1>4, <2>5, DrainMoves DEF DrainLeave
  <1>5. CASE DrainReturn(d)
    <2>1. registry' \in [Keys -> States \cup {None}]
      BY <1>5 DEF DrainReturn, TypeOK
    <2>2. drain' \in [Drainers -> Drains]
      BY <1>5 DEF DrainReturn, Rest, Drains, TypeOK
    <2>3. UNCHANGED <<life, ctx, token, reqTid, stack, closed, dropCount, threadId,
                      parent, ended, call, deferred, delivered, lost>>
      BY <1>5 DEF DrainReturn
    <2>4. TypeOK'
      BY <2>1, <2>2, <2>3 DEF TypeOK
    <2> QED BY <2>3, <2>4, DrainLeavesCalls
  <1> QED BY <1>1, <1>2, <1>3, <1>4, <1>5 DEF DrainStep

LEMMA TypeStep == TInv /\ [Next]_vars => TInv'
  <1> SUFFICES ASSUME TInv, [Next]_vars PROVE TInv'
    OBVIOUS
  <1>1. ASSUME NEW t \in Threads, ThreadStep(t) PROVE TInv'
    BY <1>1, TypeContext, TypePush, TypePop, TypeClose, TypeFinish DEF ThreadStep
  <1>2. CASE UNCHANGED vars
    BY <1>2 DEF vars, TInv, TypeOK, CtxOk, CallOk, StackOk, StateTid, AliveOk
  <1> QED BY <1>1, <1>2, TypeDrain DEF Next

\* The variables hold what scope.py's attributes hold, for any instance.
THEOREM TypeCorrect == Spec => []TypeOK
  <1>1. TInv => TypeOK
    BY DEF TInv
  <1> QED BY TypeInit, TypeStep, <1>1, PTL DEF Spec

-------------------------------------------------------------------------------
(* No span is emitted twice, when spans are closed by their own threads only. *)
(* The copies of a closed span are kept apart place by place; what ties them  *)
(* together is that a span without end_ns has no copy at all, and that the    *)
(* one thread that may be closing it is the live one with its thread id.      *)

\* Between the check of end_ns and the write of it, a closing call has the span
\* to itself.
CallOwn == \A t \in Threads : call[t].pc \in {"stamp", "lookup", "hold"} =>
              /\ call[t].span \notin ended
              /\ threadId[call[t].span] = TidOf[t]

QueueApart == \A st, st2 \in States :
    \A i \in 1..Len(closed[st]), j \in 1..Len(closed[st2]) :
        closed[st][i] = closed[st2][j] => st = st2 /\ i = j

QueueFresh == \A st \in States : \A i \in 1..Len(closed[st]) :
    /\ closed[st][i] \in ended /\ closed[st][i] \notin deferred
    /\ delivered[closed[st][i]] = 0
    /\ \A t \in Threads : ~ Appending(closed[st][i], t)

AppendFresh == \A t \in Threads : call[t].pc = "append" =>
    /\ call[t].span \in ended /\ call[t].span \notin deferred
    /\ delivered[call[t].span] = 0
    /\ \A u \in Threads : Appending(call[t].span, u) => u = t

HeldFresh == \A s \in deferred : s \in ended /\ delivered[s] = 0

OnceAtMost == \A s \in Spans : delivered[s] <= 1 /\ (delivered[s] # 0 => s \in ended)

Single == CallOwn /\ QueueApart /\ QueueFresh /\ AppendFresh /\ HeldFresh /\ OnceAtMost
SInv   == TInv /\ Single

LEMMA SingleInit == Init => Single
  BY DEF Init, Single, CallOwn, QueueApart, QueueFresh, AppendFresh, HeldFresh,
         OnceAtMost, Appending, Idle

\* The copies do not move when nothing they consist of changes.
LEMMA SingleQuiet ==
    ASSUME SInv, UNCHANGED <<closed, ended, call, deferred, delivered>>,
           \A t \in Threads : call[t] # Idle =>
                threadId'[call[t].span] = threadId[call[t].span]
    PROVE  Single'
  <1> USE DEF SInv, Single, Appending
  <1>1. CallOwn'
    BY DEF CallOwn, Idle
  <1> QED BY <1>1 DEF QueueApart, QueueFresh, AppendFresh, HeldFresh, OnceAtMost

\* A thread that has just seen end_ns unset starts to close a span of its own.
LEMMA SingleBegin ==
    ASSUME SInv, NEW t \in Threads, NEW s \in Spans, NEW dst,
           NEW pc \in {"stamp", "lookup", "hold"}, Begin(t, pc, s, dst),
           call[t].pc = "idle", s \notin ended, threadId[s] = TidOf[t],
           UNCHANGED <<closed, ended, deferred, delivered, threadId>>
    PROVE  Single'
  <1> USE DEF SInv, Single
  <1>1. call' = [call EXCEPT ![t] = [pc |-> pc, span |-> s, dst |-> dst]]
        /\ call \in [Threads -> Calls]
    BY DEF Begin, TInv, TypeOK
  <1>2. CallOwn'
    BY <1>1 DEF CallOwn
  <1>3. \A u \in Threads, x \in Spans : Appending(x, u)' => Appending(x, u)
    BY <1>1 DEF Appending
  <1>4. \A st \in States : \A i \in 1..Len(closed[st]) : closed[st][i] \in Spans
    BY DEF TInv, TypeOK
  <1>5. QueueFresh'
    BY <1>3, <1>4 DEF QueueFresh
  <1>6. AppendFresh'
    BY <1>1 DEF AppendFresh, Appending
  <1> QED BY <1>2, <1>5, <1>6 DEF QueueApart, HeldFresh, OnceAtMost

LEMMA SingleContext ==
    ASSUME SInv, NEW t \in Threads,
           \/ ThreadStart(t) \/ ThreadExit(t) \/ ExitIsolated(t)
           \/ \E r \in Requests : EnterIsolated(t, r)
           \/ \E s \in Spans : Push(t, s) \/ PushRefused(t, s)
    PROVE  Single'
  <1>1. UNCHANGED <<closed, ended, call, deferred, delivered>>
    BY DEF ThreadStart, ThreadExit, ExitIsolated, EnterIsolated, Push, PushRefused
  <1>2. ASSUME NEW u \in Threads, call[u] # Idle
        PROVE  threadId'[call[u].span] = threadId[call[u].span]
    <2>1. threadId[call[u].span] # None
      BY <1>2 DEF SInv, TInv, CallOk
    <2>2. ASSUME NEW s \in Spans, Push(t, s)
          PROVE  threadId'[call[u].span] = threadId[call[u].span]
      <3>1. threadId[s] = None /\ call[u].span # s
        BY <2>1, <2>2 DEF Push
      <3>2. threadId' = [threadId EXCEPT ![s] = StateTid(Current(t))]
        BY <2>2 DEF Push
      <3> QED BY <3>1, <3>2 DEF SInv, TInv, TypeOK
    <2> QED BY <2>2 DEF ThreadStart, ThreadExit, ExitIsolated, EnterIsolated,
                        PushRefused
  <1> QED BY <1>1, <1>2, SingleQuiet

LEMMA SingleClose ==
    ASSUME Closers = {}, SInv, NEW t \in Threads,
           \/ Pop(t)
           \/ \E s \in Spans : \/ CloseScope(t, s) \/ CloseAndRemove(t, s)
                               \/ FinalizeDeferred(t, s)
    PROVE  Single'
  <1> USE DEF SInv
  <1>1. CASE Pop(t)
    <2> DEFINE st == Current(t)
               top == stack[st][Len(stack[st])]
    <2>1. st \in States /\ StateTid(st) = TidOf[t] /\ stack[st] \in Seq(Spans)
          /\ stack[st] # <<>>
      BY <1>1, CurrentType DEF Pop, TInv, TypeOK
    <2>2. top \in Spans /\ threadId[top] = TidOf[t]
      BY <2>1, ButLast DEF TInv, StackOk
    <2>3. CASE top \in ended
      BY <1>1, <2>3, SingleQuiet DEF Pop
    <2>4. CASE top \notin ended
      BY <1>1, <2>1, <2>2, <2>4, SingleBegin DEF Pop, Ready
    <2> QED BY <2>3, <2>4
  <1>2. ASSUME NEW s \in Spans, CloseScope(t, s)
        PROVE  Single'
    BY <1>2, SingleBegin DEF CloseScope, Ready, MayClose
  <1>3. ASSUME NEW s \in Spans, CloseAndRemove(t, s)
        PROVE  Single'
    <2>1. CASE s \in ended
      BY <1>3, <2>1, SingleQuiet DEF CloseAndRemove
    <2>2. CASE s \notin ended
      BY <1>3, <2>2, SingleBegin DEF CloseAndRemove, Ready
    <2> QED BY <2>1, <2>2
  <1>4. ASSUME NEW s \in Spans, FinalizeDeferred(t, s)
        PROVE  Single'
    <2>1. CASE s \in ended
      BY <1>4, <2>1, SingleQuiet DEF FinalizeDeferred
    <2>2. CASE s \notin ended
      BY <1>4, <2>2, SingleBegin DEF FinalizeDeferred, Ready, MayClose
    <2> QED BY <2>1, <2>2
  <1> QED BY <1>1, <1>2, <1>3, <1>4

\* A span without a copy gets its one copy: an append in progress.
LEMMA SingleNote ==
    ASSUME SInv, NEW t \in Threads, NEW s \in Spans, NEW st \in States,
           NoteThenAppend(t, s, st), s \in ended', delivered[s] = 0,
           s \notin deferred', deferred' \subseteq deferred, ended \subseteq ended',
           \A x \in States : \A i \in 1..Len(closed[x]) : closed[x][i] # s,
           \A u \in Threads : call[u].span = s /\ call[u].pc # "idle" => u = t,
           call[t].pc # "append", ended' \subseteq ended \cup {s},
           UNCHANGED <<closed, delivered, threadId>>
    PROVE  Single'
  <1> USE DEF SInv, Single
  <1>1. call' = [call EXCEPT ![t] = [pc |-> "append", span |-> s, dst |-> st]]
        /\ call \in [Threads -> Calls]
    BY DEF NoteThenAppend, Begin, TInv, TypeOK
  <1>2. CallOwn'
    <2> SUFFICES ASSUME NEW u \in Threads, call'[u].pc \in {"stamp", "lookup", "hold"}
                 PROVE  call'[u].span \notin ended' /\ threadId[call'[u].span] = TidOf[u]
      BY DEF CallOwn
    <2>1. u # t /\ call'[u] = call[u]
      BY <1>1
    <2> QED BY <2>1 DEF CallOwn
  <1>3. \A x \in States : \A i \in 1..Len(closed[x]) : closed[x][i] \in Spans
    BY DEF TInv, TypeOK
  <1>4. QueueFresh'
    BY <1>1, <1>3 DEF QueueFresh, Appending
  <1>5. AppendFresh'
    <2> SUFFICES ASSUME NEW u \in Threads, call'[u].pc = "append"
                 PROVE  /\ call'[u].span \in ended' /\ call'[u].span \notin deferred'
                        /\ delivered[call'[u].span] = 0
                        /\ \A v \in Threads : call'[v].pc = "append"
                              /\ call'[v].span = call'[u].span => v = u
      BY DEF AppendFresh, Appending
    <2>1. CASE u = t
      BY <2>1, <1>1
    <2>2. CASE u # t
      <3>1. call'[u] = call[u] /\ call[u].span # s
        BY <2>2, <1>1
      <3> QED BY <3>1, <1>1 DEF AppendFresh, Appending
    <2> QED BY <2>1, <2>2
  <1> QED BY <1>2, <1>4, <1>5 DEF QueueApart, HeldFresh, OnceAtMost

\* Nobody else is closing the span a thread is about to stamp.
LEMMA StampAlone ==
    ASSUME SInv, NEW t \in Threads, call[t].pc \in {"stamp", "lookup", "hold"}
    PROVE  /\ call[t].span \in Spans /\ call[t].span \notin ended
           /\ delivered[call[t].span] = 0 /\ call[t].span \notin deferred
           /\ \A x \in States : \A i \in 1..Len(closed[x]) : closed[x][i] # call[t].span
           /\ \A u \in Threads : call[u].span = call[t].span /\ call[u].pc # "idle" => u = t
  <1> USE DEF SInv, Single
  <1>1. call[t].span \in Spans /\ call[t].span \notin ended /\ life[t] = "live"
        /\ threadId[call[t].span] = TidOf[t]
    BY CallType DEF CallOwn, TInv, AliveOk
  <1>2. ASSUME NEW u \in Threads, call[u].span = call[t].span, call[u].pc # "idle"
        PROVE  u = t
    <2>1. call[u].pc \in {"stamp", "lookup", "hold", "append"} /\ life[u] = "live"
      <3>1. call[u] \in Calls /\ call[u] # Idle
        BY <1>2, CallType DEF TInv, TypeOK
      <3> QED BY <3>1 DEF Calls, TInv, AliveOk
    <2>2. call[u].pc # "append"
      BY <1>1, <1>2 DEF AppendFresh
    <2>3. TidOf[u] = TidOf[t]
      BY <1>1, <1>2, <2>1, <2>2 DEF CallOwn
    <2> QED BY <1>1, <2>1, <2>3 DEF TInv, AliveOk
  <1> QED BY <1>1, <1>2 DEF QueueFresh, HeldFresh, OnceAtMost

LEMMA SingleEmit ==
    ASSUME SInv, NEW t \in Threads, NEW s \in Spans, EmitClosed(t, s)
    PROVE  Single'
  <1> USE DEF SInv, Single
  <1> DEFINE st == registry[threadId[s]]
  <1>1. st \in States \cup {None} /\ s \in deferred /\ deferred' = deferred \ {s}
    BY DEF EmitClosed, MayClose, TInv, TypeOK, Keys
  <1>2. s \in ended /\ delivered[s] = 0
    BY <1>1 DEF HeldFresh
  <1>3. \A x \in States : \A i \in 1..Len(closed[x]) : closed[x][i] # s
    BY <1>1 DEF QueueFresh
  <1>4. ASSUME NEW u \in Threads, call[u].span = s, call[u].pc # "idle"
        PROVE  FALSE
    <2>1. call[u] \in Calls
      BY DEF TInv, TypeOK
    <2>2. call[u].pc \in {"stamp", "lookup", "hold", "append"}
      BY <1>4, <2>1 DEF Calls, Idle
    <2> QED BY <1>1, <1>2, <1>4, <2>2 DEF CallOwn, AppendFresh
  <1>5. CASE st = None
    <2>1. UNCHANGED <<closed, ended, call, delivered, threadId>>
      BY <1>5 DEF EmitClosed
    <2> QED BY <1>1, <2>1 DEF CallOwn, QueueApart, QueueFresh, AppendFresh,
                              HeldFresh, OnceAtMost, Appending
  <1>6. CASE st # None
    <2>1. NoteThenAppend(t, s, st) /\ call[t].pc = "idle"
          /\ UNCHANGED <<closed, ended, delivered, threadId>>
      BY <1>6 DEF EmitClosed, Ready
    <2> QED BY <1>1, <1>2, <1>3, <1>4, <1>6, <2>1, SingleNote
  <1> QED BY <1>5, <1>6

LEMMA SingleStamp ==
    ASSUME SInv, NEW t \in Threads, Stamp(t)
    PROVE  Single'
  <1> USE DEF SInv, Single
  <1> DEFINE s  == call[t].span
             st == IF call[t].pc = "stamp" THEN call[t].dst ELSE registry[threadId[s]]
  <1>1. /\ s \in Spans /\ s \notin ended /\ delivered[s] = 0 /\ s \notin deferred
        /\ \A x \in States : \A i \in 1..Len(closed[x]) : closed[x][i] # s
        /\ \A u \in Threads : call[u].span = s /\ call[u].pc # "idle" => u = t
    BY StampAlone DEF Stamp
  <1>2. ended' = ended \cup {s} /\ UNCHANGED <<closed, delivered, deferred, threadId>>
    BY DEF Stamp
  <1>3. st \in States \cup {None} /\ call[t].pc # "append"
    <2>1. threadId[s] \in Tids
      BY CallType DEF Stamp, TInv, TypeOK, CallOk
    <2> QED BY <2>1, CallType DEF Stamp, TInv, TypeOK, Keys
  <1>4. CASE st = None
    <2>1. call' = [call EXCEPT ![t] = Idle] /\ call \in [Threads -> Calls]
      BY <1>4 DEF Stamp, TInv, TypeOK
    <2>2. CallOwn'
      <3> SUFFICES ASSUME NEW u \in Threads, call'[u].pc \in {"stamp", "lookup", "hold"}
                   PROVE  call'[u].span \notin ended' /\ threadId[call'[u].span] = TidOf[u]
        BY <1>2 DEF CallOwn
      <3>1. u # t /\ call'[u] = call[u] /\ call[u].span # s
        BY <1>1, <2>1 DEF Idle
      <3> QED BY <1>2, <3>1 DEF CallOwn
    <2>3. \A x \in Spans, u \in Threads : Appending(x, u)' => Appending(x, u)
      BY <2>1 DEF Appending, Idle
    <2>4. \A x \in States : \A i \in 1..Len(closed[x]) : closed[x][i] \in Spans
      BY DEF TInv, TypeOK
    <2>5. QueueFresh' /\ QueueApart' /\ HeldFresh' /\ OnceAtMost'
      BY <1>2, <2>3, <2>4 DEF QueueFresh, QueueApart, HeldFresh, OnceAtMost
    <2>6. AppendFresh'
      BY <1>2, <2>1 DEF AppendFresh, Appending, Idle
    <2> QED BY <2>2, <2>5, <2>6
  <1>5. CASE st # None
    <2>1. NoteThenAppend(t, s, st)
      BY <1>5 DEF Stamp
    <2> HIDE DEF s, st
    <2> QED BY <1>1, <1>2, <1>3, <1>5, <2>1, SingleNote
  <1> QED BY <1>4, <1>5

LEMMA SingleHold ==
    ASSUME SInv, NEW t \in Threads, Hold(t)
    PROVE  Single'
  <1> USE DEF SInv, Single
  <1> DEFINE s == call[t].span
  <1>1. /\ s \in Spans /\ s \notin ended /\ delivered[s] = 0 /\ s \notin deferred
        /\ \A x \in States : \A i \in 1..Len(closed[x]) : closed[x][i] # s
        /\ \A u \in Threads : call[u].span = s /\ call[u].pc # "idle" => u = t
    BY StampAlone DEF Hold
  <1>2. /\ ended' = ended \cup {s} /\ deferred' = deferred \cup {s}
        /\ call' = [call EXCEPT ![t] = Idle] /\ call \in [Threads -> Calls]
        /\ UNCHANGED <<closed, delivered, threadId>>
    BY DEF Hold, TInv, TypeOK
  <1>3. CallOwn'
    <2> SUFFICES ASSUME NEW u \in Threads, call'[u].pc \in {"stamp", "lookup", "hold"}
                 PROVE  call'[u].span \notin ended' /\ threadId[call'[u].span] = TidOf[u]
      BY <1>2 DEF CallOwn
    <2>1. u # t /\ call'[u] = call[u] /\ call[u].span # s
      BY <1>1, <1>2 DEF Idle
    <2> QED BY <1>2, <2>1 DEF CallOwn
  <1>4. \A x \in Spans, u \in Threads : Appending(x, u)' => Appending(x, u)
    BY <1>2 DEF Appending, Idle
  <1>5. \A x \in States : \A i \in 1..Len(closed[x]) : closed[x][i] \in Spans
    BY DEF TInv, TypeOK
  <1>6. QueueFresh'
    BY <1>1, <1>2, <1>4, <1>5 DEF QueueFresh
  <1>7. AppendFresh'
    BY <1>1, <1>2 DEF AppendFresh, Appending, Idle
  <1> QED BY <1>1, <1>2, <1>3, <1>6, <1>7 DEF QueueApart, HeldFresh, OnceAtMost

\* The copy moves from the append in progress to the end of the deque; a full
\* deque drops its oldest span.
LEMMA SingleAppend ==
    ASSUME SInv, NEW t \in Threads, AppendClosed(t)
    PROVE  Single'
  <1> USE DEF SInv, Single
  <1> DEFINE s  == call[t].span
             st == call[t].dst
             q  == closed[st]
             k  == IF Len(q) = ClosedCap THEN 1 ELSE 0
             r  == closed'[st]
  <1>1. /\ s \in Spans /\ st \in States /\ q \in Seq(Spans) /\ Len(q) \in Nat
        /\ s \in ended /\ s \notin deferred /\ delivered[s] = 0
        /\ \A u \in Threads : Appending(s, u) => u = t
    BY CallType DEF AppendClosed, AppendFresh, TInv, TypeOK
  <1>2. \A x \in States : \A i \in 1..Len(closed[x]) : closed[x][i] # s
    BY <1>1 DEF QueueFresh, Appending, AppendClosed
  <1>3. /\ call' = [call EXCEPT ![t] = Idle] /\ call \in [Threads -> Calls]
        /\ UNCHANGED <<ended, deferred, delivered, threadId>>
    BY DEF AppendClosed, TInv, TypeOK
  <1>4. /\ Len(r) = Len(q) + 1 - k /\ r \in Seq(Spans)
        /\ \A i \in 1..Len(r) : r[i] = IF i = Len(r) THEN s ELSE q[i + k]
    <2>1. CASE Len(q) = ClosedCap
      <3>1. q # <<>>
        BY <2>1, <1>1
      <3>2. r = Append(Tail(q), s)
        BY <1>1, <2>1 DEF AppendClosed, TInv, TypeOK
      <3> HIDE DEF q, s, r
      <3> QED BY <1>1, <2>1, <3>1, <3>2, HeadTailProperties, AppendProperties
    <2>2. CASE Len(q) # ClosedCap
      <3>1. r = Append(q, s)
        BY <1>1, <2>2 DEF AppendClosed, TInv, TypeOK
      <3> HIDE DEF q, s, r
      <3> QED BY <1>1, <2>2, <3>1, AppendProperties
    <2> QED BY <2>1, <2>2
  <1>5. \A x \in States : x # st => closed'[x] = closed[x]
    BY <1>1 DEF AppendClosed, TInv, TypeOK
  <1>6. k \in {0, 1}
    OBVIOUS
  <1> HIDE DEF s, st, q, k, r
  <1>7. ASSUME NEW i \in 1..Len(r)
        PROVE  \/ i = Len(r) /\ r[i] = s
               \/ i # Len(r) /\ i + k \in 1..Len(q) /\ r[i] = q[i + k]
    BY <1>1, <1>4, <1>6
  <1>8. QueueApart'
    <2> SUFFICES ASSUME NEW x \in States, NEW y \in States,
                        NEW i \in 1..Len(closed'[x]), NEW j \in 1..Len(closed'[y]),
                        closed'[x][i] = closed'[y][j]
                 PROVE  x = y /\ i = j
      BY DEF QueueApart
    <2>1. CASE x = st /\ y = st
      <3>1. i \in 1..Len(r) /\ j \in 1..Len(r) /\ r[i] = r[j]
        BY <2>1 DEF r
      <3>2. CASE i = Len(r) \/ j = Len(r)
        <4>1. q[i + k] # s \/ i + k \notin 1..Len(q)
          BY <1>1, <1>2 DEF q
        <4>2. q[j + k] # s \/ j + k \notin 1..Len(q)
          BY <1>1, <1>2 DEF q
        <4> QED BY <2>1, <3>1, <3>2, <4>1, <4>2, <1>7
      <3>3. CASE i # Len(r) /\ j # Len(r)
        <4>1. i + k \in 1..Len(q) /\ j + k \in 1..Len(q) /\ q[i + k] = q[j + k]
          BY <3>1, <3>3, <1>7
        <4>2. i + k = j + k
          BY <4>1, <1>1 DEF QueueApart, q
        <4> QED BY <2>1, <4>2, <1>6
      <3> QED BY <3>2, <3>3
    <2>2. CASE x = st /\ y # st
      <3>1. closed'[y] = closed[y] /\ i \in 1..Len(r) /\ closed'[x] = r
        BY <2>2, <1>5 DEF r
      <3>2. r[i] # s
        BY <3>1, <1>2
      <3> QED BY <2>2, <3>1, <3>2, <1>1, <1>7 DEF QueueApart, q
    <2>3. CASE x # st /\ y = st
      <3>1. closed'[x] = closed[x] /\ j \in 1..Len(r) /\ closed'[y] = r
        BY <2>3, <1>5 DEF r
      <3>2. r[j] # s
        BY <3>1, <1>2
      <3> QED BY <2>3, <3>1, <3>2, <1>1, <1>7 DEF QueueApart, q
    <2>4. CASE x # st /\ y # st
      BY <2>4, <1>5 DEF QueueApart
    <2> QED BY <2>1, <2>2, <2>3, <2>4
  <1>9. \A u \in Threads : call'[u].pc = "append" =>
           u # t /\ call'[u] = call[u] /\ call[u].span # s
    BY <1>1, <1>3 DEF Idle, Appending
  <1>10. QueueFresh'
    <2> SUFFICES ASSUME NEW x \in States, NEW i \in 1..Len(closed'[x])
                 PROVE  /\ closed'[x][i] \in ended /\ closed'[x][i] \notin deferred
                        /\ delivered[closed'[x][i]] = 0
                        /\ \A u \in Threads : ~ (call'[u].pc = "append"
                                                 /\ call'[u].span = closed'[x][i])
      BY <1>3 DEF QueueFresh, Appending
    <2>1. CASE closed'[x][i] = s
      BY <2>1, <1>1, <1>9
    <2>2. CASE closed'[x][i] # s
      <3>1. PICK j \in 1..Len(closed[x]) : closed'[x][i] = closed[x][j]
        <4>1. CASE x = st
          BY <4>1, <2>2, <1>7 DEF r, q
        <4>2. CASE x # st
          BY <4>2, <1>5
        <4> QED BY <4>1, <4>2
      <3> QED BY <3>1, <1>9 DEF QueueFresh, Appending
    <2> QED BY <2>1, <2>2
  <1>11. AppendFresh'
    BY <1>3, <1>9 DEF AppendFresh, Appending
  <1>12. CallOwn'
    BY <1>3 DEF CallOwn, Idle
  <1> QED BY <1>3, <1>8, <1>10, <1>11, <1>12 DEF HeldFresh, OnceAtMost

\* The oldest copy of a deque becomes the delivery.
LEMMA SinglePopleft ==
    ASSUME SInv, NEW d \in Drainers, DrainPopleft(d)
    PROVE  Single'
  <1> USE DEF SInv, Single
  <1> DEFINE st == drain[d].at[2]
             q  == closed[st]
             h  == Head(q)
  <1>1. st \in States /\ q \in Seq(Spans) /\ q # <<>> /\ Len(q) \in Nat
    BY DEF DrainPopleft, TInv, TypeOK, Drains, Items
  <1>2. /\ h \in Spans /\ h = q[1] /\ Len(q) > 0 /\ Len(Tail(q)) = Len(q) - 1
        /\ \A i \in 1..Len(Tail(q)) : Tail(q)[i] = q[i + 1]
    BY <1>1, HeadTailProperties
  <1>3. /\ closed' = [closed EXCEPT ![st] = Tail(q)]
        /\ delivered' = [delivered EXCEPT ![h] = @ + 1]
        /\ closed \in [States -> Seq(Spans)] /\ delivered \in [Spans -> Nat]
        /\ UNCHANGED <<ended, deferred, call, threadId>>
    BY DEF DrainPopleft, TInv, TypeOK
  <1>4. /\ h \in ended /\ h \notin deferred /\ delivered[h] = 0
        /\ \A t \in Threads : ~ Appending(h, t)
    BY <1>1, <1>2 DEF QueueFresh
  <1> HIDE DEF st, h
  <1>5. ASSUME NEW x \in States, NEW i \in 1..Len(closed'[x])
        PROVE  LET j == IF x = st THEN i + 1 ELSE i
               IN  j \in 1..Len(closed[x]) /\ closed'[x][i] = closed[x][j]
                   /\ closed[x][j] # h /\ closed[x][j] \in Spans
    <2>1. CASE x = st
      <3>1. i \in 1..Len(Tail(q)) /\ closed'[x] = Tail(q) /\ closed[x] = q
        BY <2>1, <1>1, <1>3
      <3>2. i + 1 \in 1..Len(q) /\ i + 1 # 1 /\ closed'[x][i] = q[i + 1]
        BY <3>1, <1>1, <1>2
      <3>3. q[i + 1] # q[1]
        BY <3>2, <1>1, <1>2 DEF QueueApart
      <3> QED BY <2>1, <3>1, <3>2, <3>3, <1>1, <1>2
    <2>2. CASE x # st
      <3>1. closed'[x] = closed[x]
        BY <2>2, <1>3
      <3>2. closed[x][i] # h
        BY <2>2, <3>1, <1>1, <1>2 DEF QueueApart
      <3> QED BY <2>2, <3>1, <3>2, <1>3
    <2> QED BY <2>1, <2>2
  <1>6. QueueApart'
    <2> SUFFICES ASSUME NEW x \in States, NEW y \in States,
                        NEW i \in 1..Len(closed'[x]), NEW j \in 1..Len(closed'[y]),
                        closed'[x][i] = closed'[y][j]
                 PROVE  x = y /\ i = j
      BY DEF QueueApart
    <2> DEFINE a == IF x = st THEN i + 1 ELSE i
               b == IF y = st THEN j + 1 ELSE j
    <2>1. a \in 1..Len(closed[x]) /\ b \in 1..Len(closed[y])
          /\ closed[x][a] = closed[y][b]
      BY <1>5
    <2>2. x = y /\ a = b
      BY <2>1 DEF QueueApart
    <2> QED BY <2>2
  <1>7. QueueFresh'
    <2> SUFFICES ASSUME NEW x \in States, NEW i \in 1..Len(closed'[x])
                 PROVE  /\ closed'[x][i] \in ended /\ closed'[x][i] \notin deferred
                        /\ delivered'[closed'[x][i]] = 0
                        /\ \A t \in Threads : ~ Appending(closed'[x][i], t)
      <3>1. UNCHANGED <<ended, deferred, call>>
        BY <1>3
      <3> QED BY <3>1 DEF QueueFresh, Appending
    <2>1. PICK j \in 1..Len(closed[x]) : closed'[x][i] = closed[x][j]
                                         /\ closed[x][j] # h /\ closed[x][j] \in Spans
      BY <1>5
    <2> QED BY <2>1, <1>3 DEF QueueFresh
  <1>8. AppendFresh'
    <2>1. \A t \in Threads : call[t].pc = "append" =>
             call[t].span # h /\ call[t].span \in Spans
      BY <1>4, CallType DEF Appending, TInv
    <2> QED BY <2>1, <1>3 DEF AppendFresh, Appending
  <1>9. HeldFresh' /\ OnceAtMost'
    BY <1>3, <1>4 DEF HeldFresh, OnceAtMost, TInv, TypeOK
  <1> QED BY <1>3, <1>6, <1>7, <1>8, <1>9 DEF CallOwn

LEMMA SingleDrain ==
    ASSUME SInv, NEW d \in Drainers, DrainStep(d)
    PROVE  Single'
  <1>1. CASE DrainPopleft(d)
    BY <1>1, SinglePopleft
  <1>2. CASE ~ DrainPopleft(d)
    BY <1>2, SingleQuiet DEF DrainStep, DrainSnapshot, DrainVisit, DrainLeave,
                             DrainReturn, shape
  <1> QED BY <1>1, <1>2

LEMMA SingleStep == Closers = {} /\ SInv /\ [Next]_vars => SInv'
  <1> SUFFICES ASSUME Closers = {}, SInv, [Next]_vars PROVE Single'
    BY TypeStep DEF SInv
  <1>1. ASSUME NEW t \in Threads, ThreadStep(t) PROVE Single'
    BY <1>1, SingleContext, SingleClose, SingleEmit, SingleStamp, SingleHold,
       SingleAppend DEF ThreadStep
  <1>2. CASE UNCHANGED vars
    BY <1>2, SingleQuiet DEF vars
  <1> QED BY <1>1, <1>2, SingleDrain DEF Next

LEMMA SingleImplies == SInv => NoDoubleEmit
  <1> SUFFICES ASSUME SInv, NEW s \in Spans
               PROVE  /\ delivered[s] <= 1
                      /\ s \in deferred => Undelivered(s)
                      /\ \A t \in Threads : Appending(s, t) =>
                            /\ Undelivered(s) /\ s \notin deferred
                            /\ \A u \in Threads : Appending(s, u) => u = t
                      /\ \A st \in States : \A i \in 1..Len(closed[st]) :
                            Queued(s, st, i) =>
                              /\ Undelivered(s) /\ s \notin deferred
                              /\ \A t \in Threads : ~ Appending(s, t)
                              /\ \A st2 \in States : \A j \in 1..Len(closed[st2]) :
                                    Queued(s, st2, j) => st2 = st /\ j = i
    BY DEF NoDoubleEmit
  <1> USE DEF SInv, Single, Undelivered
  <1>1. delivered[s] <= 1 /\ (s \in deferred => Undelivered(s))
    BY DEF OnceAtMost, HeldFresh
  <1>2. ASSUME NEW t \in Threads, Appending(s, t)
        PROVE  /\ Undelivered(s) /\ s \notin deferred
               /\ \A u \in Threads : Appending(s, u) => u = t
    BY <1>2 DEF AppendFresh, Appending
  <1>3. ASSUME NEW st \in States, NEW i \in 1..Len(closed[st]), Queued(s, st, i)
        PROVE  /\ Undelivered(s) /\ s \notin deferred
               /\ \A t \in Threads : ~ Appending(s, t)
               /\ \A st2 \in States : \A j \in 1..Len(closed[st2]) :
                     Queued(s, st2, j) => st2 = st /\ j = i
    BY <1>3 DEF QueueFresh, QueueApart, Queued
  <1> QED BY <1>1, <1>2, <1>3

\* If every span is closed by its own thread, no span is emitted twice, whatever
\* the number of threads, requests and drains and wherever they interleave.
THEOREM EmitsOnce ==
    ASSUME Closers = {}
    PROVE  Spec => []NoDoubleEmit
  <1>1. Init => SInv
    BY TypeInit, SingleInit DEF SInv
  <1>2. SInv /\ [Next]_vars => SInv'
    BY SingleStep
  <1> QED BY <1>1, <1>2, SingleImplies, PTL DEF Spec

-------------------------------------------------------------------------------
(* Trees.  A span is pushed once, so it is on one stack; and a parent was     *)
(* pushed before its child, so a push cannot put one on another stack.        *)

OneStack == \A st, st2 \in States : st # st2 =>
    \A i \in 1..Len(stack[st]), j \in 1..Len(stack[st2]) : stack[st][i] # stack[st2][j]

ParentsApart == \A st, st2 \in States : st # st2 =>
    \A i \in 1..Len(stack[st]), j \in 1..Len(stack[st2]) :
        parent[stack[st][i]] # stack[st2][j]

ParentOpened == \A s \in Spans : parent[s] # None => threadId[parent[s]] # None

TreeInv == TInv /\ OneStack /\ ParentsApart /\ ParentOpened

\* The stacks hold nothing new.
Shrunk == \A st \in States : \A i \in 1..Len(stack'[st]) :
              \E j \in 1..Len(stack[st]) : stack'[st][i] = stack[st][j]

LEMMA TreeShrinks ==
    ASSUME TreeInv, Shrunk, UNCHANGED <<parent, threadId>>
    PROVE  OneStack' /\ ParentsApart' /\ ParentOpened'
  <1>1. OneStack'
    <2> SUFFICES ASSUME NEW st \in States, NEW st2 \in States, st # st2,
                        NEW i \in 1..Len(stack'[st]), NEW j \in 1..Len(stack'[st2])
                 PROVE  stack'[st][i] # stack'[st2][j]
      BY DEF OneStack
    <2>1. PICK a \in 1..Len(stack[st]) : stack'[st][i] = stack[st][a]
      BY DEF Shrunk
    <2>2. PICK b \in 1..Len(stack[st2]) : stack'[st2][j] = stack[st2][b]
      BY DEF Shrunk
    <2> QED BY <2>1, <2>2 DEF TreeInv, OneStack
  <1>2. ParentsApart'
    <2> SUFFICES ASSUME NEW st \in States, NEW st2 \in States, st # st2,
                        NEW i \in 1..Len(stack'[st]), NEW j \in 1..Len(stack'[st2])
                 PROVE  parent[stack'[st][i]] # stack'[st2][j]
      BY DEF ParentsApart
    <2>1. PICK a \in 1..Len(stack[st]) : stack'[st][i] = stack[st][a]
      BY DEF Shrunk
    <2>2. PICK b \in 1..Len(stack[st2]) : stack'[st2][j] = stack[st2][b]
      BY DEF Shrunk
    <2> QED BY <2>1, <2>2 DEF TreeInv, ParentsApart
  <1> QED BY <1>1, <1>2 DEF TreeInv, ParentOpened

LEMMA TreePush ==
    ASSUME TreeInv, NEW t \in Threads, NEW s \in Spans, Push(t, s)
    PROVE  OneStack' /\ ParentsApart' /\ ParentOpened'
  <1> USE DEF TreeInv
  <1>1. PICK cur \in States : cur = Current(t) /\ StateTid(cur) = TidOf[t]
    BY CurrentType DEF TInv
  <1>2. PICK up : up = IF stack[cur] = <<>> THEN None ELSE stack[cur][Len(stack[cur])]
    OBVIOUS
  <1>3. /\ stack' = [stack EXCEPT ![cur] = Append(stack[cur], s)]
        /\ threadId' = [threadId EXCEPT ![s] = TidOf[t]]
        /\ parent' = [parent EXCEPT ![s] = up]
        /\ threadId[s] = None
    BY <1>1, <1>2 DEF Push
  <1>4. /\ stack[cur] \in Seq(Spans) /\ Len(stack[cur]) \in Nat
        /\ Len(Append(stack[cur], s)) = Len(stack[cur]) + 1
        /\ \A i \in 1..Len(stack[cur]) + 1 :
              Append(stack[cur], s)[i] = IF i <= Len(stack[cur]) THEN stack[cur][i] ELSE s
    BY DEF TInv, TypeOK
  <1>5. \A st \in States : stack'[st] = IF st = cur THEN Append(stack[cur], s) ELSE stack[st]
    BY <1>3 DEF TInv, TypeOK
  <1>6. \A st \in States : \A i \in 1..Len(stack[st]) : stack[st][i] # s /\ stack[st][i] \in Spans
    BY <1>3 DEF TInv, TypeOK, StackOk
  <1>7. ASSUME NEW st \in States, NEW i \in 1..Len(stack'[st])
        PROVE  \/ i \in 1..Len(stack[st]) /\ stack'[st][i] = stack[st][i]
               \/ st = cur /\ stack'[st][i] = s
    <2>1. CASE st = cur
      <3>1. stack'[st] = Append(stack[cur], s)
        BY <1>5, <2>1
      <3>2. i \in 1..Len(stack[cur]) + 1
        BY <1>4, <3>1
      <3> QED BY <1>4, <2>1, <3>1, <3>2
    <2>2. CASE st # cur
      BY <1>5, <2>2
    <2> QED BY <2>1, <2>2
  <1>8. /\ \A x \in Spans : parent'[x] = IF x = s THEN up ELSE parent[x]
        /\ \A x \in Spans : threadId[x] # None => threadId'[x] # None
        /\ threadId'[s] # None
    BY <1>3 DEF TInv, TypeOK
  <1>9. /\ up # None => up \in Spans /\ threadId[up] # None
        /\ up # None => \E i \in 1..Len(stack[cur]) : stack[cur][i] = up
    <2>1. CASE stack[cur] = <<>>
      BY <1>2, <2>1
    <2>2. CASE stack[cur] # <<>>
      <3>1. Len(stack[cur]) \in 1..Len(stack[cur]) /\ up = stack[cur][Len(stack[cur])]
        BY <1>2, <1>4, <2>2, EmptySeq
      <3> QED BY <1>6, <3>1 DEF TInv, StackOk
    <2> QED BY <2>1, <2>2
  <1>10. OneStack'
    <2> SUFFICES ASSUME NEW st \in States, NEW st2 \in States, st # st2,
                        NEW i \in 1..Len(stack'[st]), NEW j \in 1..Len(stack'[st2])
                 PROVE  stack'[st][i] # stack'[st2][j]
      BY DEF OneStack
    <2>1. CASE st # cur /\ st2 # cur
      BY <1>5, <2>1 DEF OneStack
    <2>2. CASE st = cur
      BY <1>6, <1>7, <2>2 DEF OneStack
    <2>3. CASE st2 = cur
      BY <1>6, <1>7, <2>3 DEF OneStack
    <2> QED BY <2>1, <2>2, <2>3
  <1>11. ParentsApart'
    <2> SUFFICES ASSUME NEW st \in States, NEW st2 \in States, st # st2,
                        NEW i \in 1..Len(stack'[st]), NEW j \in 1..Len(stack'[st2])
                 PROVE  parent'[stack'[st][i]] # stack'[st2][j]
      BY DEF ParentsApart
    <2>1. CASE st = cur /\ stack'[st][i] = s
      <3>1. parent'[stack'[st][i]] = up /\ stack'[st2] = stack[st2]
        BY <1>5, <1>8, <2>1
      <3>2. stack[st2][j] # up
        <4>1. stack[st2][j] \in Spans /\ j \in 1..Len(stack[st2])
          BY <1>6, <3>1
        <4> QED BY <1>9, <2>1, <4>1 DEF OneStack
      <3> QED BY <3>1, <3>2
    <2>2. CASE i \in 1..Len(stack[st]) /\ stack'[st][i] = stack[st][i]
      <3>1. parent'[stack'[st][i]] = parent[stack[st][i]] /\ stack[st][i] \in Spans
        BY <1>6, <1>8, <2>2
      <3>2. parent[stack[st][i]] # s
        BY <1>3, <3>1 DEF ParentOpened, TInv, TypeOK
      <3> QED BY <1>7, <2>2, <3>1, <3>2 DEF ParentsApart
    <2> QED BY <1>7, <2>1, <2>2
  <1>12. ParentOpened'
    <2> SUFFICES ASSUME NEW x \in Spans, parent'[x] # None
                 PROVE  threadId'[parent'[x]] # None
      BY DEF ParentOpened
    <2>1. CASE x = s
      BY <1>8, <1>9, <2>1
    <2>2. CASE x # s
      <3>1. parent'[x] = parent[x] /\ parent[x] \in Spans
        BY <1>8, <2>2 DEF TInv, TypeOK
      <3> QED BY <1>8, <3>1 DEF ParentOpened
    <2> QED BY <2>1, <2>2
  <1> QED BY <1>10, <1>11, <1>12

LEMMA TreeStep == TreeInv /\ [Next]_vars => TreeInv'
  <1> SUFFICES ASSUME TreeInv, [Next]_vars PROVE OneStack' /\ ParentsApart' /\ ParentOpened'
    BY TypeStep DEF TreeInv
  <1>1. ASSUME UNCHANGED <<stack, parent, threadId>>
        PROVE  OneStack' /\ ParentsApart' /\ ParentOpened'
    BY <1>1, TreeShrinks DEF Shrunk
  <1>2. ASSUME NEW q \in Seq(Spans), NEW st \in States,
               \A i \in 1..Len(q) : \E j \in 1..Len(stack[st]) : q[i] = stack[st][j],
               stack' = [stack EXCEPT ![st] = q], UNCHANGED <<parent, threadId>>
        PROVE  OneStack' /\ ParentsApart' /\ ParentOpened'
    <2>1. Shrunk
      BY <1>2 DEF Shrunk, TreeInv, TInv, TypeOK
    <2> QED BY <1>2, <2>1, TreeShrinks
  <1>3. ASSUME NEW t \in Threads
        PROVE  Current(t) \in States /\ stack[Current(t)] \in Seq(Spans)
    BY <1>3, CurrentType DEF TreeInv, TInv, TypeOK
  <1>4. ASSUME NEW t \in Threads, Pop(t) PROVE OneStack' /\ ParentsApart' /\ ParentOpened'
    <2> DEFINE cur == Current(t)
               q == SubSeq(stack[cur], 1, Len(stack[cur]) - 1)
    <2>1. q \in Seq(Spans) /\ \A i \in 1..Len(q) :
             \E j \in 1..Len(stack[cur]) : q[i] = stack[cur][j]
      BY <1>3, <1>4, ButLast DEF Pop
    <2>2. stack' = [stack EXCEPT ![cur] = q] /\ UNCHANGED <<parent, threadId>>
      BY <1>4 DEF Pop
    <2> HIDE DEF q
    <2> QED BY <1>2, <1>3, <2>1, <2>2
  <1>5. ASSUME NEW t \in Threads, NEW s \in Spans,
               CloseAndRemove(t, s) \/ FinalizeDeferred(t, s)
        PROVE  OneStack' /\ ParentsApart' /\ ParentOpened'
    <2> DEFINE cur == Current(t)
    <2>1. UNCHANGED <<parent, threadId>>
      BY <1>5 DEF CloseAndRemove, FinalizeDeferred
    <2>2. CASE In(s, stack[cur]) /\ stack' = [stack EXCEPT ![cur] = Without(stack[cur], s)]
      <3>1. /\ Without(stack[cur], s) \in Seq(Spans)
            /\ \A i \in 1..Len(Without(stack[cur], s)) :
                  \E j \in 1..Len(stack[cur]) : Without(stack[cur], s)[i] = stack[cur][j]
        BY <1>3, <2>2, WithoutShrinks
      <3> HIDE DEF cur
      <3>2. cur \in States
        BY <1>3 DEF cur
      <3> QED BY <1>2, <2>1, <2>2, <3>1, <3>2
    <2>3. CASE stack' = stack
      BY <1>1, <2>1, <2>3
    <2> QED BY <1>5, <2>2, <2>3 DEF CloseAndRemove, FinalizeDeferred
  <1>6. ASSUME NEW t \in Threads, ThreadStep(t)
        PROVE  OneStack' /\ ParentsApart' /\ ParentOpened'
    <2>1. ASSUME NEW s \in Spans, \/ PushRefused(t, s) \/ CloseScope(t, s) \/ EmitClosed(t, s)
          PROVE  UNCHANGED <<stack, parent, threadId>>
      BY <2>1 DEF PushRefused, CloseScope, EmitClosed
    <2>2. ASSUME \/ ThreadStart(t) \/ ThreadExit(t) \/ ExitIsolated(t) \/ Stamp(t) \/ Hold(t)
                 \/ AppendClosed(t) \/ \E r \in Requests : EnterIsolated(t, r)
          PROVE  UNCHANGED <<stack, parent, threadId>>
      BY <2>2 DEF ThreadStart, ThreadExit, ExitIsolated, Stamp, Hold, AppendClosed,
                  EnterIsolated
    <2> QED BY <1>1, <1>4, <1>5, <1>6, <2>1, <2>2, TreePush DEF ThreadStep
  <1>7. ASSUME (\E d \in Drainers : DrainStep(d)) \/ UNCHANGED vars
        PROVE  UNCHANGED <<stack, parent, threadId>>
    BY <1>7 DEF DrainStep, DrainSnapshot, DrainVisit, DrainPopleft, DrainLeave,
                DrainReturn, vars
  <1> QED BY <1>1, <1>6, <1>7 DEF Next

\* No open span has its parent on the stack of another state, whatever requests nest on
\* a thread or run on several, whoever closes the spans, and also if thread identifiers
\* are recycled.
THEOREM TreesStayApart == Spec => []TreesApart
  <1>1. Init => TreeInv
    <2> SUFFICES ASSUME Init PROVE OneStack /\ ParentsApart /\ ParentOpened
      BY TypeInit DEF TreeInv
    <2> QED BY DEF Init, OneStack, ParentsApart, ParentOpened
  <1>2. TreeInv => TreesApart
    BY DEF TreeInv, ParentsApart, TreesApart, In
  <1> QED BY TreeStep, <1>1, <1>2, PTL DEF Spec

-------------------------------------------------------------------------------
(* Losses.  The cap is compared when the span is stamped, and the append that *)
(* evicts comes later; in between the deque only shrinks, because a state has *)
(* one thread that appends to it.                                             *)

\* The registry has threads under their identifiers, and calls work on states of theirs.
OwnStates ==
    /\ \A k \in Tids : registry[k] # None => StateTid(registry[k]) = k
    /\ \A t \in Threads : call[t].pc \in {"stamp", "append"} =>
          StateTid(call[t].dst) = TidOf[t]

\* The state holds no more than the cap, and has counted what it lost; and already what
\* the append in progress is about to evict.
BooksOk(st) ==
    /\ Len(closed[st]) <= ClosedCap
    /\ IsFiniteSet(lost[st]) /\ Cardinality(lost[st]) <= dropCount[st]
    /\ \A t \in Threads : /\ call[t].pc = "append" /\ call[t].dst = st
                          /\ Len(closed[st]) = ClosedCap
                          => Cardinality(lost[st]) < dropCount[st]

CountInv == SInv /\ OwnStates /\ \A st \in States : BooksOk(st)

\* A state is worked on by one thread at a time.
LEMMA OneAppender ==
    ASSUME TInv, OwnStates, NEW t \in Threads, NEW u \in Threads,
           call[t].pc \in {"stamp", "append"}, call[u].pc \in {"stamp", "append"},
           call[t].dst = call[u].dst
    PROVE  t = u
  <1>1. call[t] # Idle /\ call[u] # Idle
    BY DEF Idle
  <1>2. TidOf[t] = TidOf[u]
    BY DEF OwnStates
  <1> QED BY <1>1, <1>2 DEF TInv, AliveOk

\* The thread that is about to append to a state, or would be.
LEMMA OneOwner ==
    ASSUME TInv, OwnStates, NEW t \in Threads, NEW u \in Threads, NEW st \in States,
           life[t] = "live", StateTid(st) = TidOf[t],
           call[u].pc = "append", call[u].dst = st
    PROVE  t = u
  <1>1. call[u] # Idle /\ TidOf[u] = TidOf[t]
    BY DEF Idle, OwnStates
  <1> QED BY <1>1 DEF TInv, AliveOk

\* The books stay right when nothing is lost and no append is new.
LEMMA BooksQuiet ==
    ASSUME CountInv, UNCHANGED <<lost, dropCount>>,
           \A st \in States : Len(closed'[st]) <= Len(closed[st]),
           \A t \in Threads : call'[t].pc = "append" => call'[t] = call[t]
    PROVE  \A st \in States : BooksOk(st)'
  <1>1. \A st \in States : Len(closed[st]) \in Nat
    BY DEF CountInv, SInv, TInv, TypeOK
  <1> SUFFICES ASSUME NEW st \in States PROVE BooksOk(st)'
    OBVIOUS
  <1>2. BooksOk(st) /\ ClosedCap \in Nat
    BY DEF CountInv
  <1>3. CASE Len(closed'[st]) = Len(closed[st])
    BY <1>2, <1>3 DEF BooksOk
  <1>4. CASE Len(closed'[st]) # Len(closed[st])
    BY <1>1, <1>2, <1>4 DEF BooksOk
  <1> QED BY <1>3, <1>4

LEMMA OwnCalls ==
    ASSUME OwnStates, UNCHANGED <<registry, reqTid>>,
           \A u \in Threads : call'[u].pc \in {"stamp", "append"} =>
                call'[u] = call[u] \/ StateTid(call'[u].dst) = TidOf[u]
    PROVE  OwnStates'
  BY DEF OwnStates, StateTid

\* The state that a closing call appends to belongs to the caller.
LEMMA OwnTarget ==
    ASSUME SInv, OwnStates, NEW t \in Threads, Stamp(t)
    PROVE  LET st == IF call[t].pc = "stamp" THEN call[t].dst
                     ELSE registry[threadId[call[t].span]]
           IN  st # None => st \in States /\ StateTid(st) = TidOf[t]
  <1>1. call[t].pc \in {"stamp", "lookup"}
    BY DEF Stamp
  <1>2. threadId[call[t].span] = TidOf[t] /\ TidOf[t] \in Tids
    BY <1>1 DEF SInv, Single, CallOwn
  <1>3. CASE call[t].pc = "stamp"
    BY <1>3, CallType DEF OwnStates, SInv, TInv
  <1>4. CASE call[t].pc = "lookup"
    <2>1. registry[TidOf[t]] \in States \cup {None}
      BY <1>2 DEF SInv, TInv, TypeOK, Keys
    <2> QED BY <1>2, <1>4, <2>1 DEF OwnStates
  <1> QED BY <1>1, <1>3, <1>4

LEMMA EmitTarget ==
    ASSUME Closers = {}, SInv, OwnStates, NEW t \in Threads, NEW s \in Spans,
           EmitClosed(t, s)
    PROVE  LET st == registry[threadId[s]]
           IN  st # None => st \in States /\ StateTid(st) = TidOf[t]
  <1>1. threadId[s] = TidOf[t] /\ TidOf[t] \in Tids
    BY DEF EmitClosed, MayClose
  <1>2. registry[TidOf[t]] \in States \cup {None}
    BY <1>1 DEF SInv, TInv, TypeOK, Keys
  <1> QED BY <1>1, <1>2 DEF OwnStates

\* What a call that begins does to the calls.
LEMMA BeginCalls ==
    ASSUME TypeOK, NEW t \in Threads, NEW pc, NEW s, NEW dst, Begin(t, pc, s, dst)
    PROVE  \A u \in Threads :
               call'[u] = IF u = t THEN [pc |-> pc, span |-> s, dst |-> dst] ELSE call[u]
  BY DEF TypeOK, Begin

LEMMA OwnStep ==
    ASSUME Closers = {}, SInv, OwnStates, [Next]_vars
    PROVE  OwnStates'
  <1> USE DEF SInv, TInv
  <1>1. TypeOK /\ CtxOk
    OBVIOUS
  <1>2. ASSUME UNCHANGED <<registry, reqTid>>,
               \A u \in Threads : call'[u].pc \in {"stamp", "append"} => call'[u] = call[u]
        PROVE  OwnStates'
    BY <1>2, OwnCalls
  <1>3. ASSUME NEW t \in Threads, ThreadStart(t) PROVE OwnStates'
    BY <1>1, <1>3 DEF ThreadStart, OwnStates, StateTid, TypeOK, Keys
  <1>4. ASSUME NEW t \in Threads, NEW r \in Requests, EnterIsolated(t, r) PROVE OwnStates'
    <2>1. /\ reqTid[r] = None /\ reqTid' = [reqTid EXCEPT ![r] = TidOf[t]]
          /\ \A k \in Tids : registry'[k] = registry[k] /\ call' = call
      BY <1>1, <1>4 DEF EnterIsolated, TypeOK, Keys
    <2>2. \A st \in States : StateTid(st) \in Tids => StateTid(st)' = StateTid(st)
      BY <1>1, <2>1 DEF StateTid, TypeOK, States
    <2>3. \A k \in Tids : registry[k] \in States \cup {None}
      BY <1>1 DEF TypeOK, Keys
    <2>4. \A u \in Threads : call[u].pc \in {"stamp", "append"} =>
             call[u].dst \in States /\ TidOf[u] \in Tids
      BY <1>1, CallType
    <2> QED BY <2>1, <2>2, <2>3, <2>4 DEF OwnStates
  <1>5. ASSUME NEW t \in Threads, ExitIsolated(t) PROVE OwnStates'
    <2>1. /\ \A k \in Tids : registry'[k] = registry[k]
          /\ UNCHANGED <<reqTid, call>>
      BY <1>1, <1>5 DEF ExitIsolated, TypeOK, Keys
    <2> QED BY <2>1 DEF OwnStates, StateTid
  <1>6. ASSUME NEW d \in Drainers, DrainReturn(d) PROVE OwnStates'
    <2>1. drain[d].prunable \subseteq Requests
      BY <1>1 DEF TypeOK, Drains
    <2>2. /\ \A k \in Tids : registry'[k] = registry[k]
          /\ UNCHANGED <<reqTid, call>>
      BY <1>6, <2>1 DEF DrainReturn, Keys
    <2> QED BY <2>2 DEF OwnStates, StateTid
  <1>7. ASSUME NEW t \in Threads, NEW s, NEW pc, NEW dst, Begin(t, pc, s, dst),
               pc \in {"stamp", "append"} => StateTid(dst) = TidOf[t],
               UNCHANGED <<registry, reqTid>>
        PROVE  OwnStates'
    <2>1. \A u \in Threads :
             call'[u] = IF u = t THEN [pc |-> pc, span |-> s, dst |-> dst] ELSE call[u]
      BY <1>1, <1>7, BeginCalls
    <2> QED BY <1>7, <2>1, OwnCalls
  <1>8. ASSUME NEW t \in Threads PROVE StateTid(Current(t)) = TidOf[t]
    BY <1>1, <1>8, CurrentType
  <1>9. ASSUME NEW t \in Threads, Pop(t) PROVE OwnStates'
    <2>1. UNCHANGED <<registry, reqTid>>
      BY <1>9 DEF Pop, shape
    <2>2. CASE call' = call
      BY <1>2, <2>1, <2>2
    <2>3. CASE call' # call
      <3>1. PICK top : Begin(t, "stamp", top, Current(t))
        BY <1>9, <2>3 DEF Pop
      <3> QED BY <1>7, <1>8, <2>1, <3>1
    <2> QED BY <2>2, <2>3
  <1>10. ASSUME NEW t \in Threads, NEW s \in Spans,
                \/ CloseScope(t, s) \/ CloseAndRemove(t, s) \/ FinalizeDeferred(t, s)
         PROVE  OwnStates'
    <2>1. UNCHANGED <<registry, reqTid>>
      BY <1>10 DEF CloseScope, CloseAndRemove, FinalizeDeferred, shape
    <2>2. \/ call' = call \/ Begin(t, "lookup", s, None) \/ Begin(t, "hold", s, None)
          \/ Begin(t, "stamp", s, Current(t))
      BY <1>10 DEF CloseScope, CloseAndRemove, FinalizeDeferred
    <2> QED BY <1>2, <1>7, <1>8, <2>1, <2>2
  <1>11. ASSUME NEW t \in Threads, NEW s \in Spans, EmitClosed(t, s) PROVE OwnStates'
    <2>1. UNCHANGED <<registry, reqTid>>
      BY <1>11 DEF EmitClosed, shape
    <2>2. CASE registry[threadId[s]] = None
      BY <1>2, <1>11, <2>1, <2>2 DEF EmitClosed
    <2>3. CASE registry[threadId[s]] # None
      <3>1. Begin(t, "append", s, registry[threadId[s]])
        BY <1>11, <2>3 DEF EmitClosed, NoteThenAppend
      <3>2. StateTid(registry[threadId[s]]) = TidOf[t]
        BY <1>11, <2>3, EmitTarget
      <3> QED BY <1>7, <2>1, <3>1, <3>2
    <2> QED BY <2>2, <2>3
  <1>12. ASSUME NEW t \in Threads, Stamp(t) PROVE OwnStates'
    <2> DEFINE st == IF call[t].pc = "stamp" THEN call[t].dst
                     ELSE registry[threadId[call[t].span]]
    <2>1. UNCHANGED <<registry, reqTid>>
      BY <1>12 DEF Stamp, shape
    <2>2. CASE st = None
      <3>1. call' = [call EXCEPT ![t] = Idle]
        BY <1>12, <2>2 DEF Stamp
      <3> QED BY <1>1, <1>2, <2>1, <3>1 DEF Idle, TypeOK
    <2>3. CASE st # None
      <3>1. Begin(t, "append", call[t].span, st)
        BY <1>12, <2>3 DEF Stamp, NoteThenAppend
      <3>2. StateTid(st) = TidOf[t]
        BY <1>12, <2>3, OwnTarget
      <3> HIDE DEF st
      <3> QED BY <1>7, <2>1, <3>1, <3>2
    <2> QED BY <2>2, <2>3
  <1>13. ASSUME NEW t \in Threads, Hold(t) \/ AppendClosed(t) PROVE OwnStates'
    <2>1. UNCHANGED <<registry, reqTid>> /\ call' = [call EXCEPT ![t] = Idle]
      BY <1>13 DEF Hold, AppendClosed, shape
    <2> QED BY <1>1, <1>2, <2>1 DEF Idle, TypeOK
  <1>14. ASSUME NEW t \in Threads, \/ ThreadExit(t)
                                   \/ \E s \in Spans : Push(t, s) \/ PushRefused(t, s)
         PROVE  OwnStates'
    BY <1>2, <1>14 DEF ThreadExit, Push, PushRefused, shape
  <1>15. ASSUME NEW d \in Drainers,
                DrainSnapshot(d) \/ DrainVisit(d) \/ DrainPopleft(d) \/ DrainLeave(d)
         PROVE  OwnStates'
    BY <1>2, <1>15 DEF DrainSnapshot, DrainVisit, DrainPopleft, DrainLeave, shape
  <1>16. ASSUME UNCHANGED vars PROVE OwnStates'
    BY <1>2, <1>16 DEF vars
  <1>17. ASSUME NEW t \in Threads, ThreadStep(t) PROVE OwnStates'
    BY <1>3, <1>4, <1>5, <1>9, <1>10, <1>11, <1>12, <1>13, <1>14, <1>17 DEF ThreadStep
  <1>18. ASSUME NEW d \in Drainers, DrainStep(d) PROVE OwnStates'
    BY <1>6, <1>15, <1>18 DEF DrainStep
  <1> QED BY <1>16, <1>17, <1>18 DEF Next

\* A refused push is counted as it is refused.
LEMMA BooksRefuse ==
    ASSUME CountInv, NEW t \in Threads, NEW s \in Spans, PushRefused(t, s)
    PROVE  \A st \in States : BooksOk(st)'
  <1>1. TypeOK /\ CtxOk
    BY DEF CountInv, SInv, TInv
  <1>2. PICK cur \in States : cur = Current(t)
    BY <1>1, CurrentType
  <1>3. /\ dropCount' = [dropCount EXCEPT ![cur] = @ + 1]
        /\ lost' = [lost EXCEPT ![cur] = @ \cup {s}]
        /\ s \notin lost[cur] /\ UNCHANGED <<closed, call>>
    BY <1>2 DEF PushRefused
  <1> SUFFICES ASSUME NEW st \in States PROVE BooksOk(st)'
    OBVIOUS
  <1>4. BooksOk(st)
    BY DEF CountInv
  <1>5. CASE st # cur
    <2>1. lost'[st] = lost[st] /\ dropCount'[st] = dropCount[st]
      BY <1>1, <1>3, <1>5 DEF TypeOK
    <2> QED BY <1>3, <1>4, <2>1 DEF BooksOk
  <1>6. CASE st = cur
    <2>1. lost'[st] = lost[st] \cup {s} /\ dropCount'[st] = dropCount[st] + 1
          /\ dropCount[st] \in Nat
      BY <1>1, <1>3, <1>6 DEF TypeOK
    <2>2. IsFiniteSet(lost[st]) /\ s \notin lost[st]
      BY <1>3, <1>4, <1>6 DEF BooksOk
    <2>3. IsFiniteSet(lost[st] \cup {s})
          /\ Cardinality(lost[st] \cup {s}) = Cardinality(lost[st]) + 1
      BY <2>2, FS_AddElement
    <2>4. Cardinality(lost[st]) \in Nat
      BY <2>2, FS_CardinalityType
    <2>5. IsFiniteSet(lost'[st]) /\ Cardinality(lost'[st]) = Cardinality(lost[st]) + 1
      BY <2>1, <2>3
    <2>6. Cardinality(lost'[st]) <= dropCount'[st]
      BY <1>4, <2>1, <2>4, <2>5 DEF BooksOk
    <2>7. ASSUME NEW u \in Threads, call[u].pc = "append", call[u].dst = st,
                 Len(closed[st]) = ClosedCap
          PROVE  Cardinality(lost'[st]) < dropCount'[st]
      BY <1>4, <2>1, <2>4, <2>5, <2>7 DEF BooksOk
    <2> QED BY <1>3, <1>4, <2>5, <2>6, <2>7 DEF BooksOk
  <1> QED BY <1>5, <1>6

\* A full deque has its eviction counted before it happens.
LEMMA BooksNote ==
    ASSUME CountInv, NEW t \in Threads, NEW s, NEW dst \in States,
           NoteThenAppend(t, s, dst), life[t] = "live", StateTid(dst) = TidOf[t],
           call[t].pc # "append", UNCHANGED <<closed, lost>>
    PROVE  \A st \in States : BooksOk(st)'
  <1>1. TypeOK /\ TInv /\ OwnStates
    BY DEF CountInv, SInv, TInv
  <1>2. \A u \in Threads :
           call'[u] = IF u = t THEN [pc |-> "append", span |-> s, dst |-> dst] ELSE call[u]
    BY <1>1, BeginCalls DEF NoteThenAppend
  <1>3. \A u \in Threads : ~ (call[u].pc = "append" /\ call[u].dst = dst)
    BY <1>1, OneOwner
  <1> SUFFICES ASSUME NEW st \in States PROVE BooksOk(st)'
    OBVIOUS
  <1>4. BooksOk(st)
    BY DEF CountInv
  <1>5. CASE st # dst
    <2>1. dropCount'[st] = dropCount[st]
      BY <1>1, <1>5 DEF NoteThenAppend, TypeOK
    <2>2. \A u \in Threads : call'[u].pc = "append" /\ call'[u].dst = st => call'[u] = call[u]
      BY <1>2, <1>5
    <2> QED BY <1>4, <2>1, <2>2 DEF BooksOk
  <1>6. CASE st = dst
    <2>1. dropCount'[st] = IF Len(closed[st]) = ClosedCap THEN dropCount[st] + 1
                           ELSE dropCount[st]
      BY <1>1, <1>6 DEF NoteThenAppend, TypeOK
    <2>2. dropCount[st] \in Nat /\ Cardinality(lost[st]) \in Nat
      BY <1>1, <1>4, FS_CardinalityType DEF TypeOK, BooksOk
    <2> QED BY <1>4, <2>1, <2>2 DEF BooksOk
  <1> QED BY <1>5, <1>6

\* The append that evicts was counted, and no other one to the same deque is on its way.
LEMMA BooksAppend ==
    ASSUME CountInv, NEW t \in Threads, AppendClosed(t)
    PROVE  \A st \in States : BooksOk(st)'
  <1>1. TypeOK /\ TInv /\ OwnStates
    BY DEF CountInv, SInv, TInv
  <1>2. PICK s, dst, q : s = call[t].span /\ dst = call[t].dst /\ q = closed[dst]
    OBVIOUS
  <1>3. /\ s \in Spans /\ dst \in States /\ q \in Seq(Spans) /\ Len(q) \in Nat
        /\ call[t].pc = "append"
    BY <1>1, <1>2, CallType DEF AppendClosed, TypeOK
  <1>4. /\ call' = [call EXCEPT ![t] = Idle] /\ dropCount' = dropCount
        /\ \A u \in Threads : call'[u] = IF u = t THEN Idle ELSE call[u]
    BY <1>1 DEF AppendClosed, TypeOK
  <1>5. \A u \in Threads : call'[u].pc = "append" => u # t /\ call[u].pc = "append"
                                                     /\ call'[u] = call[u]
    BY <1>4 DEF Idle
  <1>6. \A u \in Threads : call'[u].pc = "append" => call'[u].dst # dst
    BY <1>1, <1>2, <1>3, <1>5, OneAppender
  <1> SUFFICES ASSUME NEW st \in States PROVE BooksOk(st)'
    OBVIOUS
  <1>7. BooksOk(st) /\ BooksOk(dst)
    BY <1>3 DEF CountInv
  <1>8. CASE Len(q) = ClosedCap
    <2>1. q # <<>>
      BY <1>8
    <2>2. Tail(q) \in Seq(Spans) /\ Len(Tail(q)) = Len(q) - 1
      BY <1>3, <2>1, HeadTailProperties
    <2>3. Len(Append(Tail(q), s)) = Len(q)
      BY <1>3, <2>2, AppendProperties
    <2>4. /\ closed' = [closed EXCEPT ![dst] = Append(Tail(q), s)]
          /\ lost' = [lost EXCEPT ![dst] = @ \cup {Head(q)}]
      BY <1>2, <1>8 DEF AppendClosed
    <2>5. CASE st # dst
      <3>1. closed'[st] = closed[st] /\ lost'[st] = lost[st] /\ dropCount'[st] = dropCount[st]
        BY <1>1, <1>4, <2>4, <2>5 DEF TypeOK
      <3> QED BY <1>5, <1>7, <3>1 DEF BooksOk
    <2>6. CASE st = dst
      <3>1. Len(closed'[st]) = ClosedCap /\ lost'[st] = lost[dst] \cup {Head(q)}
        BY <1>1, <1>3, <1>8, <2>3, <2>4, <2>6 DEF TypeOK
      <3>2. IsFiniteSet(lost[dst]) /\ Cardinality(lost[dst]) < dropCount[dst]
        BY <1>2, <1>3, <1>7, <1>8 DEF BooksOk
      <3>3. /\ IsFiniteSet(lost'[st]) /\ Cardinality(lost[dst]) \in Nat
            /\ Cardinality(lost'[st]) <= Cardinality(lost[dst]) + 1
        <4>1. /\ IsFiniteSet(lost[dst] \cup {Head(q)})
              /\ \/ Cardinality(lost[dst] \cup {Head(q)}) = Cardinality(lost[dst])
                 \/ Cardinality(lost[dst] \cup {Head(q)}) = Cardinality(lost[dst]) + 1
          BY <3>2, FS_AddElement
        <4>2. Cardinality(lost[dst]) \in Nat
          BY <3>2, FS_CardinalityType
        <4> QED BY <3>1, <4>1, <4>2
      <3>4. dropCount'[st] = dropCount[dst] /\ dropCount[dst] \in Nat
        BY <1>1, <1>3, <1>4, <2>6 DEF TypeOK
      <3>5. Cardinality(lost'[st]) \in Nat
        BY <3>3, FS_CardinalityType
      <3>6. Cardinality(lost'[st]) <= dropCount'[st]
        BY <3>2, <3>3, <3>4, <3>5
      <3> QED BY <1>6, <2>6, <3>1, <3>3, <3>6 DEF BooksOk
    <2> QED BY <2>5, <2>6
  <1>9. CASE Len(q) # ClosedCap
    <2>1. closed' = [closed EXCEPT ![dst] = Append(q, s)] /\ lost' = lost
      BY <1>2, <1>9 DEF AppendClosed
    <2>2. CASE st # dst
      <3>1. closed'[st] = closed[st]
        BY <1>1, <2>1, <2>2 DEF TypeOK
      <3> QED BY <1>4, <1>5, <1>7, <2>1, <3>1 DEF BooksOk
    <2>3. CASE st = dst
      <3>1. Len(closed'[st]) = Len(q) + 1
        BY <1>1, <1>3, <2>1, <2>3, AppendProperties DEF TypeOK
      <3>2. Len(closed'[st]) <= ClosedCap
        BY <1>2, <1>3, <1>7, <1>9, <3>1 DEF BooksOk
      <3> QED BY <1>4, <1>6, <1>7, <2>1, <2>3, <3>2 DEF BooksOk
    <2> QED BY <2>2, <2>3
  <1> QED BY <1>8, <1>9

LEMMA BooksStep ==
    ASSUME Closers = {}, CountInv, [Next]_vars
    PROVE  \A st \in States : BooksOk(st)'
  <1>1. TypeOK /\ TInv /\ SInv /\ OwnStates
    BY DEF CountInv, SInv, TInv
  <1>2. ASSUME UNCHANGED <<closed, lost, dropCount>>,
               \A u \in Threads : call'[u].pc = "append" => call'[u] = call[u]
        PROVE  \A st \in States : BooksOk(st)'
    <2>1. \A st \in States : Len(closed'[st]) <= Len(closed[st])
      BY <1>1, <1>2 DEF TypeOK
    <2> QED BY <1>2, <2>1, BooksQuiet
  <1>3. ASSUME NEW t \in Threads, NEW s, NEW pc, NEW dst, Begin(t, pc, s, dst),
               pc # "append", UNCHANGED <<closed, lost, dropCount>>
        PROVE  \A st \in States : BooksOk(st)'
    <2>1. \A u \in Threads :
             call'[u] = IF u = t THEN [pc |-> pc, span |-> s, dst |-> dst] ELSE call[u]
      BY <1>1, <1>3, BeginCalls
    <2> QED BY <1>2, <1>3, <2>1
  <1>4. ASSUME NEW t \in Threads, call' = [call EXCEPT ![t] = Idle]
        PROVE  \A u \in Threads : call'[u].pc = "append" => call'[u] = call[u]
    BY <1>1, <1>4 DEF Idle, TypeOK
  <1>5. ASSUME NEW t \in Threads, Pop(t) PROVE \A st \in States : BooksOk(st)'
    <2>1. UNCHANGED <<closed, lost, dropCount>>
      BY <1>5 DEF Pop
    <2>2. call' = call \/ \E top : Begin(t, "stamp", top, Current(t))
      BY <1>5 DEF Pop
    <2> QED BY <1>2, <1>3, <2>1, <2>2
  <1>6. ASSUME NEW t \in Threads, NEW s \in Spans,
               \/ CloseScope(t, s) \/ CloseAndRemove(t, s) \/ FinalizeDeferred(t, s)
        PROVE  \A st \in States : BooksOk(st)'
    <2>1. UNCHANGED <<closed, lost, dropCount>>
      BY <1>6 DEF CloseScope, CloseAndRemove, FinalizeDeferred
    <2>2. \/ call' = call \/ Begin(t, "lookup", s, None) \/ Begin(t, "hold", s, None)
          \/ Begin(t, "stamp", s, Current(t))
      BY <1>6 DEF CloseScope, CloseAndRemove, FinalizeDeferred
    <2> QED BY <1>2, <1>3, <2>1, <2>2
  <1>7. ASSUME NEW t \in Threads, NEW s \in Spans, EmitClosed(t, s)
        PROVE  \A st \in States : BooksOk(st)'
    <2> DEFINE dst == registry[threadId[s]]
    <2>1. UNCHANGED <<closed, lost>> /\ life[t] = "live" /\ call[t].pc = "idle"
      BY <1>7 DEF EmitClosed, Ready
    <2>2. CASE dst = None
      BY <1>2, <1>7, <2>1, <2>2 DEF EmitClosed
    <2>3. CASE dst # None
      <3>1. NoteThenAppend(t, s, dst)
        BY <1>7, <2>3 DEF EmitClosed
      <3>2. dst \in States /\ StateTid(dst) = TidOf[t]
        BY <1>1, <1>7, <2>3, EmitTarget
      <3> HIDE DEF dst
      <3> QED BY <2>1, <3>1, <3>2, BooksNote
    <2> QED BY <2>2, <2>3
  <1>8. ASSUME NEW t \in Threads, Stamp(t) PROVE \A st \in States : BooksOk(st)'
    <2> DEFINE dst == IF call[t].pc = "stamp" THEN call[t].dst
                      ELSE registry[threadId[call[t].span]]
    <2>1. UNCHANGED <<closed, lost>> /\ life[t] = "live" /\ call[t].pc # "append"
      BY <1>1, <1>8 DEF Stamp, TInv, AliveOk, Idle
    <2>2. CASE dst = None
      BY <1>2, <1>4, <1>8, <2>1, <2>2 DEF Stamp
    <2>3. CASE dst # None
      <3>1. NoteThenAppend(t, call[t].span, dst)
        BY <1>8, <2>3 DEF Stamp
      <3>2. dst \in States /\ StateTid(dst) = TidOf[t]
        BY <1>1, <1>8, <2>3, OwnTarget
      <3> HIDE DEF dst
      <3> QED BY <2>1, <3>1, <3>2, BooksNote
    <2> QED BY <2>2, <2>3
  <1>9. ASSUME NEW t \in Threads, Hold(t) PROVE \A st \in States : BooksOk(st)'
    BY <1>2, <1>4, <1>9 DEF Hold
  <1>10. ASSUME NEW t \in Threads,
                \/ ThreadStart(t) \/ ThreadExit(t) \/ ExitIsolated(t)
                \/ \E r \in Requests : EnterIsolated(t, r)
                \/ \E s \in Spans : Push(t, s)
         PROVE  \A st \in States : BooksOk(st)'
    BY <1>2, <1>10 DEF ThreadStart, ThreadExit, ExitIsolated, EnterIsolated, Push
  <1>11. ASSUME NEW d \in Drainers, DrainPopleft(d)
         PROVE  \A st \in States : BooksOk(st)'
    <2>1. PICK dst : dst = drain[d].at[2]
      OBVIOUS
    <2>2. /\ closed[dst] # <<>> /\ closed' = [closed EXCEPT ![dst] = Tail(closed[dst])]
          /\ UNCHANGED <<lost, dropCount, call>>
      BY <1>11, <2>1 DEF DrainPopleft
    <2>3. ASSUME NEW st \in States PROVE Len(closed'[st]) <= Len(closed[st])
      <3>1. closed[st] \in Seq(Spans) /\ Len(closed[st]) \in Nat
        BY <1>1 DEF TypeOK
      <3>2. CASE st = dst
        <4>1. closed'[st] = Tail(closed[st])
          BY <1>1, <2>2, <3>2 DEF TypeOK
        <4>2. Len(Tail(closed[st])) = Len(closed[st]) - 1
          BY <2>2, <3>1, <3>2, HeadTailProperties
        <4> QED BY <3>1, <4>1, <4>2
      <3>3. CASE st # dst
        BY <1>1, <2>2, <3>1, <3>3 DEF TypeOK
      <3> QED BY <3>2, <3>3
    <2> QED BY <2>2, <2>3, BooksQuiet
  <1>12. ASSUME NEW d \in Drainers,
                DrainSnapshot(d) \/ DrainVisit(d) \/ DrainLeave(d) \/ DrainReturn(d)
         PROVE  \A st \in States : BooksOk(st)'
    BY <1>2, <1>12 DEF DrainSnapshot, DrainVisit, DrainLeave, DrainReturn
  <1>13. ASSUME UNCHANGED vars PROVE \A st \in States : BooksOk(st)'
    BY <1>2, <1>13 DEF vars
  <1>14. ASSUME NEW t \in Threads, ThreadStep(t) PROVE \A st \in States : BooksOk(st)'
    <2>1. ASSUME NEW s \in Spans, PushRefused(t, s) PROVE \A st \in States : BooksOk(st)'
      BY <2>1, BooksRefuse
    <2>2. ASSUME AppendClosed(t) PROVE \A st \in States : BooksOk(st)'
      BY <2>2, BooksAppend
    <2>3. CASE \E s \in Spans : \/ Push(t, s) \/ PushRefused(t, s) \/ CloseScope(t, s)
                               \/ CloseAndRemove(t, s) \/ FinalizeDeferred(t, s)
                               \/ EmitClosed(t, s)
      <3> PICK s \in Spans : \/ Push(t, s) \/ PushRefused(t, s) \/ CloseScope(t, s)
                            \/ CloseAndRemove(t, s) \/ FinalizeDeferred(t, s)
                            \/ EmitClosed(t, s)
        BY <2>3
      <3>1. CASE Push(t, s)
        BY <1>10, <3>1
      <3>2. CASE CloseScope(t, s) \/ CloseAndRemove(t, s) \/ FinalizeDeferred(t, s)
        BY <1>6, <3>2
      <3> QED BY <1>7, <2>1, <3>1, <3>2
    <2> QED BY <1>5, <1>8, <1>9, <1>10, <1>14, <2>2, <2>3 DEF ThreadStep
  <1>15. ASSUME NEW d \in Drainers, DrainStep(d) PROVE \A st \in States : BooksOk(st)'
    BY <1>11, <1>12, <1>15 DEF DrainStep
  <1> QED BY <1>13, <1>14, <1>15 DEF Next

\* drop_count counts every span that a state refused or evicted, if every span is closed
\* by its own thread.
THEOREM LossesCounted ==
    ASSUME Closers = {}
    PROVE  Spec => []EveryLossCounted
  <1>1. Init => CountInv
    <2> SUFFICES ASSUME Init PROVE OwnStates /\ \A st \in States : BooksOk(st)
      BY TypeInit, SingleInit DEF CountInv, SInv
    <2>1. OwnStates
      BY DEF Init, OwnStates, Idle, Keys
    <2>2. \A st \in States : closed[st] = <<>> /\ lost[st] = {} /\ dropCount[st] = 0
      BY DEF Init
    <2> QED BY <2>1, <2>2, FS_EmptySet DEF BooksOk, Init, Idle
  <1>2. CountInv /\ [Next]_vars => CountInv'
    BY SingleStep, OwnStep, BooksStep DEF CountInv
  <1>3. CountInv => EveryLossCounted
    BY DEF CountInv, BooksOk, EveryLossCounted
  <1> QED BY <1>1, <1>2, <1>3, PTL DEF Spec

-------------------------------------------------------------------------------
(* The stacks, deques and drains implement the ledger.  The status of a span is  *)
(* read off the places where it is, so a span that was lost must be nowhere else. *)

LostOk == \A st \in States : \A s \in lost[st] :
    /\ delivered[s] = 0 /\ s \notin deferred
    /\ threadId[s] = None \/ s \in ended
    /\ \A x \in States : \A i \in 1..Len(closed[x]) : closed[x][i] # s
    /\ \A t \in Threads : ~ Appending(s, t)

BornOk == \A s \in ended : threadId[s] # None

LedgerInv == SInv /\ LostOk /\ BornOk

Lost(s) == \E st \in States : s \in lost[st]

Stat(s) == IF delivered[s] > 1 THEN "duplicated"
           ELSE IF delivered[s] = 1 THEN "delivered"
           ELSE IF \E st \in States : s \in lost[st] THEN "dropped"
           ELSE IF s \in ended THEN "closed"
           ELSE IF threadId[s] # None THEN "open" ELSE "unborn"

\* One span moves on the ledger, or none does.
LedgerStep == \/ UNCHANGED [s \in Spans |-> Stat(s)]
              \/ \E s \in Spans :
                   /\ <<Stat(s), Stat(s)'>> \in
                        {<<"unborn", "open">>, <<"unborn", "dropped">>, <<"open", "closed">>,
                         <<"closed", "delivered">>, <<"closed", "dropped">>}
                   /\ \A u \in Spans : u # s => Stat(u)' = Stat(u)

LEMMA LedgerMoves == LedgerStep => [Ledger!Next]_[s \in Spans |-> Stat(s)]
  <1> SUFFICES ASSUME NEW s \in Spans,
                      <<Stat(s), Stat(s)'>> \in
                        {<<"unborn", "open">>, <<"unborn", "dropped">>, <<"open", "closed">>,
                         <<"closed", "delivered">>, <<"closed", "dropped">>},
                      \A u \in Spans : u # s => Stat(u)' = Stat(u)
               PROVE  Ledger!Next
    BY DEF LedgerStep
  <1>1. [u \in Spans |-> Stat(u)'] = [[u \in Spans |-> Stat(u)] EXCEPT ![s] = Stat(s)']
    OBVIOUS
  <1>2. ASSUME NEW from, NEW to, Stat(s) = from, Stat(s)' = to
        PROVE  Ledger!Move(s, from, to)
    BY <1>1, <1>2 DEF Ledger!Move, Stat
  <1> QED BY <1>2 DEF Ledger!Next, Ledger!Open, Ledger!Refuse, Ledger!Close, Ledger!Deliver,
               Ledger!Evict

LEMMA LedgerSettled ==
    ASSUME UNCHANGED <<ended, delivered, lost, threadId>>
    PROVE  LedgerStep
  BY DEF LedgerStep, Stat

\* Steps that move no copy of a span that was lost, and change no status.
LEMMA LedgerQuiet ==
    ASSUME LedgerInv, UNCHANGED <<closed, ended, delivered, lost, threadId>>,
           deferred' \subseteq deferred,
           \A s, t : s \in Spans /\ t \in Threads /\ Appending(s, t)' =>
               Appending(s, t) \/ s \in deferred
    PROVE  LostOk' /\ BornOk' /\ LedgerStep
  <1>1. lost \in [States -> SUBSET Spans]
    BY DEF LedgerInv, SInv, TInv, TypeOK
  <1>2. LostOk'
    BY <1>1 DEF LedgerInv, LostOk
  <1> QED BY <1>2, LedgerSettled DEF LedgerInv, BornOk

LEMMA LedgerPush ==
    ASSUME LedgerInv, NEW t \in Threads, NEW s \in Spans, Push(t, s)
    PROVE  LostOk' /\ BornOk' /\ LedgerStep
  <1>1. TypeOK /\ CtxOk
    BY DEF LedgerInv, SInv, TInv
  <1>2. Current(t) \in States /\ StateTid(Current(t)) \in Tids
    BY <1>1, CurrentType
  <1>3. PICK tid \in Tids : tid = StateTid(Current(t))
    BY <1>2
  <1>4. /\ threadId[s] = None /\ \A st \in States : s \notin lost[st]
        /\ threadId' = [threadId EXCEPT ![s] = tid] /\ tid # None
        /\ UNCHANGED <<closed, ended, call, deferred, delivered, lost>>
    BY <1>3, ConstantsAssumption DEF Push
  <1>5. \A u \in Spans : threadId'[u] = IF u = s THEN tid ELSE threadId[u]
    BY <1>1, <1>4 DEF TypeOK
  <1>6. s \notin ended /\ delivered[s] = 0
    BY <1>1, <1>4 DEF LedgerInv, BornOk, SInv, Single, OnceAtMost, TypeOK
  <1>7. LostOk'
    <2>1. \A st \in States : \A u \in lost[st] : threadId'[u] = threadId[u]
      BY <1>1, <1>4, <1>5 DEF TypeOK
    <2> QED BY <1>4, <2>1 DEF LedgerInv, LostOk, Appending
  <1>8. BornOk'
    BY <1>1, <1>4, <1>5 DEF LedgerInv, BornOk, TypeOK
  <1>9. Stat(s) = "unborn" /\ Stat(s)' = "open"
    BY <1>4, <1>5, <1>6 DEF Stat
  <1>10. \A u \in Spans : u # s => Stat(u)' = Stat(u)
    BY <1>4, <1>5 DEF Stat
  <1> QED BY <1>7, <1>8, <1>9, <1>10 DEF LedgerStep

LEMMA LedgerRefused ==
    ASSUME LedgerInv, NEW t \in Threads, NEW s \in Spans, PushRefused(t, s)
    PROVE  LostOk' /\ BornOk' /\ LedgerStep
  <1>1. TypeOK /\ CtxOk /\ CallOk
    BY DEF LedgerInv, SInv, TInv
  <1>2. PICK cur \in States : cur = Current(t)
    BY <1>1, CurrentType
  <1>3. /\ threadId[s] = None /\ \A st \in States : s \notin lost[st]
        /\ lost' = [lost EXCEPT ![cur] = @ \cup {s}]
        /\ UNCHANGED <<closed, ended, call, deferred, delivered, threadId>>
    BY <1>2 DEF PushRefused
  <1>4. \A st \in States : lost'[st] = IF st = cur THEN lost[st] \cup {s} ELSE lost[st]
    BY <1>1, <1>3 DEF TypeOK
  <1>5. s \notin ended /\ delivered[s] = 0
    BY <1>1, <1>3 DEF LedgerInv, BornOk, SInv, Single, OnceAtMost, TypeOK
  <1>6. /\ s \notin deferred
        /\ \A x \in States : \A i \in 1..Len(closed[x]) : closed[x][i] # s
        /\ \A u \in Threads : ~ Appending(s, u)
    BY <1>5 DEF LedgerInv, SInv, Single, HeldFresh, QueueFresh, AppendFresh, Appending
  <1>7. LostOk'
    BY <1>3, <1>4, <1>5, <1>6 DEF LedgerInv, LostOk, Appending
  <1>8. BornOk'
    BY <1>3 DEF LedgerInv, BornOk
  <1>9. Stat(s) = "unborn" /\ Stat(s)' = "dropped"
    BY <1>3, <1>4, <1>5 DEF Stat
  <1>10. ASSUME NEW u \in Spans, u # s PROVE Stat(u)' = Stat(u)
    <2>1. (\E st \in States : u \in lost'[st]) <=> \E st \in States : u \in lost[st]
      BY <1>4, <1>10
    <2> QED BY <1>3, <2>1 DEF Stat
  <1> QED BY <1>7, <1>8, <1>9, <1>10 DEF LedgerStep

\* The write of end_ns, in Stamp and in Hold: the span becomes closed.
LEMMA LedgerEnds ==
    ASSUME LedgerInv, NEW t \in Threads, call[t].pc \in {"stamp", "lookup", "hold"},
           ended' = ended \cup {call[t].span},
           UNCHANGED <<closed, delivered, lost, threadId>>,
           deferred' \subseteq deferred \cup {call[t].span},
           \A s, u : s \in Spans /\ u \in Threads /\ Appending(s, u)' =>
               Appending(s, u) \/ s = call[t].span
    PROVE  LostOk' /\ BornOk' /\ LedgerStep
  <1>1. TypeOK /\ CallOk
    BY DEF LedgerInv, SInv, TInv
  <1>2. PICK s : s = call[t].span
    OBVIOUS
  <1>3. s \in Spans /\ s \notin ended /\ delivered[s] = 0
    BY <1>2, StampAlone DEF LedgerInv
  <1>4. threadId[s] # None
    BY <1>1, <1>2 DEF CallOk, Idle
  <1>5. \A st \in States : s \notin lost[st]
    BY <1>3, <1>4 DEF LedgerInv, LostOk
  <1>6. LostOk'
    <2>1. lost \in [States -> SUBSET Spans]
      BY <1>1 DEF TypeOK
    <2>2. ASSUME NEW st \in States, NEW u \in lost[st]
          PROVE  u \in Spans /\ u # s
      BY <1>5, <2>1, <2>2
    <2> QED BY <1>2, <2>2 DEF LedgerInv, LostOk
  <1>7. BornOk'
    BY <1>2, <1>4 DEF LedgerInv, BornOk
  <1>8. Stat(s) = "open" /\ Stat(s)' = "closed"
    BY <1>2, <1>3, <1>4, <1>5 DEF Stat
  <1>9. \A u \in Spans : u # s => Stat(u)' = Stat(u)
    BY <1>2 DEF Stat
  <1> QED BY <1>3, <1>6, <1>7, <1>8, <1>9 DEF LedgerStep

LEMMA LedgerAppend ==
    ASSUME LedgerInv, NEW t \in Threads, AppendClosed(t)
    PROVE  LostOk' /\ BornOk' /\ LedgerStep
  <1>1. TypeOK
    BY DEF LedgerInv, SInv, TInv
  <1>2. PICK s, dst, q : s = call[t].span /\ dst = call[t].dst /\ q = closed[dst]
    OBVIOUS
  <1>3. /\ s \in Spans /\ dst \in States /\ q \in Seq(Spans) /\ Len(q) \in Nat
        /\ call[t].pc = "append"
    BY <1>1, <1>2, CallType DEF AppendClosed, TypeOK
  <1>4. /\ UNCHANGED <<ended, deferred, delivered, threadId>>
        /\ call' = [call EXCEPT ![t] = Idle]
    BY DEF AppendClosed
  <1>5. \A u \in Threads : call'[u] = IF u = t THEN Idle ELSE call[u]
    BY <1>1, <1>4 DEF TypeOK
  <1>6. \A u \in Spans, v \in Threads : Appending(u, v)' => Appending(u, v)
    BY <1>5 DEF Appending, Idle
  <1>7. \A st \in States : s \notin lost[st]
    BY <1>2, <1>3 DEF LedgerInv, LostOk, Appending
  <1>8. BornOk'
    BY <1>4 DEF LedgerInv, BornOk
  <1>9. CASE Len(q) # ClosedCap
    <2>1. closed' = [closed EXCEPT ![dst] = Append(q, s)] /\ lost' = lost
      BY <1>2, <1>9 DEF AppendClosed
    <2>2. ASSUME NEW x \in States, NEW i \in 1..Len(closed'[x])
          PROVE  closed'[x][i] = s \/ \E j \in 1..Len(closed[x]) : closed'[x][i] = closed[x][j]
      <3>1. CASE x = dst
        <4>1. closed'[x] = Append(q, s)
          BY <1>1, <2>1, <3>1 DEF TypeOK
        <4> QED BY <1>2, <1>3, <3>1, <4>1, AppendProperties
      <3>2. CASE x # dst
        BY <1>1, <2>1, <3>2 DEF TypeOK
      <3> QED BY <3>1, <3>2
    <2>3. LostOk'
      <3>1. lost \in [States -> SUBSET Spans]
        BY <1>1 DEF TypeOK
      <3> QED BY <1>4, <1>6, <1>7, <2>1, <2>2, <3>1 DEF LedgerInv, LostOk
    <2> QED BY <1>4, <1>8, <2>1, <2>3, LedgerSettled
  <1>10. CASE Len(q) = ClosedCap
    <2>1. q # <<>>
      BY <1>10, ConstantsAssumption
    <2>2. PICK h : h = Head(q) /\ h \in Spans /\ h = closed[dst][1] /\ 1 \in 1..Len(closed[dst])
      BY <1>2, <1>3, <2>1
    <2>3. /\ Tail(q) \in Seq(Spans) /\ Len(Tail(q)) = Len(q) - 1
          /\ \A i \in 1..Len(Tail(q)) : Tail(q)[i] = q[i + 1]
      BY <1>3, <2>1, HeadTailProperties
    <2>4. /\ closed' = [closed EXCEPT ![dst] = Append(Tail(q), s)]
          /\ lost' = [lost EXCEPT ![dst] = @ \cup {h}]
      BY <1>2, <1>10, <2>2 DEF AppendClosed
    <2>5. \A st \in States : lost'[st] = IF st = dst THEN lost[st] \cup {h} ELSE lost[st]
      BY <1>1, <2>4 DEF TypeOK
    <2>6. /\ h \in ended /\ h \notin deferred /\ delivered[h] = 0
          /\ \A u \in Threads : ~ Appending(h, u)
      BY <1>3, <2>2 DEF LedgerInv, SInv, Single, QueueFresh
    <2>7. \A st \in States : h \notin lost[st]
      BY <1>3, <2>2 DEF LedgerInv, LostOk
    <2>8. h # s
      BY <1>2, <1>3, <2>6 DEF Appending
    <2>9. ASSUME NEW x \in States, NEW i \in 1..Len(closed'[x])
          PROVE  \/ closed'[x][i] = s
                 \/ \E j \in 1..Len(closed[x]) : /\ closed'[x][i] = closed[x][j]
                                                 /\ x = dst => j # 1
      <3>1. CASE x = dst
        <4>1. closed'[x] = Append(Tail(q), s)
          BY <1>1, <2>4, <3>1 DEF TypeOK
        <4>2. s \in Spans /\ q \in Seq(Spans) /\ q = closed[x]
          BY <1>2, <1>3, <3>1
        <4>3. i \in 1..Len(Append(Tail(q), s))
          BY <4>1
        <4> QED BY ONLY <2>1, <4>1, <4>2, <4>3, Rotated
      <3>2. CASE x # dst
        <4>1. closed'[x] = closed[x]
          BY <1>1, <2>4, <3>2 DEF TypeOK
        <4> QED BY <3>2, <4>1
      <3> QED BY <3>1, <3>2
    <2>10. \A x \in States : \A i \in 1..Len(closed'[x]) : closed'[x][i] # h
      <3>1. QueueApart
        BY DEF LedgerInv, SInv, Single
      <3> QED BY <1>3, <2>2, <2>8, <2>9, <3>1 DEF QueueApart
    <2>11. LostOk'
      <3> SUFFICES ASSUME NEW st \in States, NEW u \in lost'[st]
                   PROVE  /\ delivered'[u] = 0 /\ u \notin deferred'
                          /\ threadId'[u] = None \/ u \in ended'
                          /\ \A x \in States : \A i \in 1..Len(closed'[x]) : closed'[x][i] # u
                          /\ \A v \in Threads : ~ Appending(u, v)'
        BY DEF LostOk
      <3>1. CASE u = h
        BY <1>4, <1>6, <2>2, <2>6, <2>10, <3>1
      <3>2. CASE u # h
        <4>1. u \in lost[st] /\ u \in Spans
          <5>1. u \in lost[st]
            BY <2>5, <3>2
          <5>2. lost[st] \in SUBSET Spans
            BY <1>1 DEF TypeOK
          <5> QED BY <5>1, <5>2
        <4>2. /\ delivered[u] = 0 /\ u \notin deferred
              /\ threadId[u] = None \/ u \in ended
              /\ \A x \in States : \A i \in 1..Len(closed[x]) : closed[x][i] # u
              /\ \A v \in Threads : ~ Appending(u, v)
          BY <4>1 DEF LedgerInv, LostOk
        <4>3. u # s
          BY <1>7, <4>1
        <4> QED BY <1>4, <1>6, <2>9, <4>1, <4>2, <4>3
      <3> QED BY <3>1, <3>2
    <2>12. Stat(h) = "closed" /\ Stat(h)' = "dropped"
      <3>1. h \in lost'[dst]
        BY <1>3, <2>5
      <3>2. threadId'[h] = threadId[h] /\ delivered'[h] = 0 /\ h \in ended
        BY <1>4, <2>6
      <3> QED BY <1>3, <2>6, <2>7, <3>1, <3>2 DEF Stat
    <2>13. ASSUME NEW u \in Spans, u # h PROVE Stat(u)' = Stat(u)
      <3>1. (\E st \in States : u \in lost'[st]) <=> \E st \in States : u \in lost[st]
        BY <2>5, <2>13
      <3> QED BY <1>4, <3>1 DEF Stat
    <2> QED BY <1>8, <2>2, <2>11, <2>12, <2>13 DEF LedgerStep
  <1> QED BY <1>9, <1>10

LEMMA LedgerPopleft ==
    ASSUME LedgerInv, NEW d \in Drainers, DrainPopleft(d)
    PROVE  LostOk' /\ BornOk' /\ LedgerStep
  <1>1. TypeOK
    BY DEF LedgerInv, SInv, TInv
  <1>2. PICK dst, q : dst = drain[d].at[2] /\ q = closed[dst]
    OBVIOUS
  <1>3. dst \in States
    <2>1. drain[d] \in Drains /\ drain[d].at # None
      BY <1>1 DEF TypeOK, DrainPopleft
    <2> QED BY <1>2, <2>1 DEF Drains, Items
  <1>4. q \in Seq(Spans) /\ Len(q) \in Nat /\ q # <<>>
    BY <1>1, <1>2, <1>3 DEF DrainPopleft, TypeOK
  <1>5. PICK h : h = Head(q) /\ h \in Spans /\ h = closed[dst][1] /\ 1 \in 1..Len(closed[dst])
    <2>1. Head(q) = q[1] /\ 1 \in 1..Len(q) /\ q[1] \in Spans
      BY ONLY <1>4
    <2> QED BY <1>2, <2>1
  <1>6. /\ closed' = [closed EXCEPT ![dst] = Tail(q)]
        /\ delivered' = [delivered EXCEPT ![h] = @ + 1]
        /\ UNCHANGED <<ended, deferred, lost, threadId, call>>
    BY <1>2, <1>5 DEF DrainPopleft
  <1>7. \A u \in Spans : delivered'[u] = IF u = h THEN delivered[u] + 1 ELSE delivered[u]
    BY <1>1, <1>6 DEF TypeOK
  <1>8. h \in ended /\ delivered[h] = 0 /\ \A st \in States : h \notin lost[st]
    BY <1>3, <1>5 DEF LedgerInv, LostOk, SInv, Single, QueueFresh
  <1>9. ASSUME NEW x \in States, NEW i \in 1..Len(closed'[x])
        PROVE  \E j \in 1..Len(closed[x]) : closed'[x][i] = closed[x][j]
    <2>1. CASE x = dst
      <3>1. closed'[x] = Tail(q)
        BY <1>1, <1>6, <2>1 DEF TypeOK
      <3>2. Tail(q)[i] = q[i + 1] /\ i + 1 \in 1..Len(q)
        <4>1. i \in 1..Len(Tail(q)) /\ q \in Seq(Spans) /\ q # <<>>
          BY <1>4, <3>1
        <4> QED BY ONLY <4>1, Shifted
      <3>3. q = closed[x]
        BY <1>2, <2>1
      <3> QED BY <3>1, <3>2, <3>3
    <2>2. CASE x # dst
      BY <1>1, <1>6, <2>2 DEF TypeOK
    <2> QED BY <2>1, <2>2
  <1>10. LostOk'
    <2> SUFFICES ASSUME NEW st \in States, NEW u \in lost'[st]
                 PROVE  /\ delivered'[u] = 0 /\ u \notin deferred'
                        /\ threadId'[u] = None \/ u \in ended'
                        /\ \A x \in States : \A i \in 1..Len(closed'[x]) : closed'[x][i] # u
                        /\ \A v \in Threads : ~ Appending(u, v)'
      BY DEF LostOk
    <2>1. u \in lost[st] /\ u \in Spans /\ u # h
      BY <1>1, <1>6, <1>8 DEF TypeOK
    <2>2. /\ delivered[u] = 0 /\ u \notin deferred
          /\ threadId[u] = None \/ u \in ended
          /\ \A x \in States : \A i \in 1..Len(closed[x]) : closed[x][i] # u
          /\ \A v \in Threads : ~ Appending(u, v)
      BY <2>1 DEF LedgerInv, LostOk
    <2>3. \A x \in States : \A i \in 1..Len(closed'[x]) : closed'[x][i] # u
      BY <1>9, <2>2
    <2>4. delivered'[u] = 0
      BY <1>7, <2>1, <2>2
    <2>5. \A v \in Threads : ~ Appending(u, v)'
      BY <1>6, <2>2 DEF Appending
    <2> QED BY <1>6, <2>2, <2>3, <2>4, <2>5
  <1>11. BornOk'
    BY <1>6 DEF LedgerInv, BornOk
  <1>12. Stat(h) = "closed" /\ Stat(h)' = "delivered"
    BY <1>5, <1>6, <1>7, <1>8 DEF Stat
  <1>13. \A u \in Spans : u # h => Stat(u)' = Stat(u)
    BY <1>6, <1>7 DEF Stat
  <1> QED BY <1>5, <1>10, <1>11, <1>12, <1>13 DEF LedgerStep

LEMMA LedgerNext ==
    ASSUME Closers = {}, LedgerInv, [Next]_vars
    PROVE  LostOk' /\ BornOk' /\ LedgerStep
  <1>1. TypeOK /\ CallOk
    BY DEF LedgerInv, SInv, TInv
  <1>2. ASSUME NEW t \in Threads, NEW s, NEW pc, NEW dst, Begin(t, pc, s, dst),
               pc # "append" \/ s \in deferred
        PROVE  \A x, u : x \in Spans /\ u \in Threads /\ Appending(x, u)' =>
                   Appending(x, u) \/ x \in deferred
    <2>1. \A u \in Threads :
             call'[u] = IF u = t THEN [pc |-> pc, span |-> s, dst |-> dst] ELSE call[u]
      BY <1>1, <1>2, BeginCalls
    <2> QED BY <1>2, <2>1 DEF Appending
  <1>3. ASSUME NEW t \in Threads, Pop(t) PROVE LostOk' /\ BornOk' /\ LedgerStep
    <2>1. UNCHANGED <<closed, ended, delivered, lost, threadId, deferred>>
      BY <1>3 DEF Pop
    <2>2. call' = call \/ \E top : Begin(t, "stamp", top, Current(t))
      BY <1>3 DEF Pop
    <2>3. \A x, u : x \in Spans /\ u \in Threads /\ Appending(x, u)' =>
                        Appending(x, u) \/ x \in deferred
      <3>1. CASE call' = call
        BY <3>1 DEF Appending
      <3> QED BY <1>2, <2>2, <3>1
    <2> QED BY <2>1, <2>3, LedgerQuiet
  <1>4. ASSUME NEW t \in Threads, NEW s \in Spans,
               \/ CloseScope(t, s) \/ CloseAndRemove(t, s) \/ FinalizeDeferred(t, s)
        PROVE  LostOk' /\ BornOk' /\ LedgerStep
    <2>1. UNCHANGED <<closed, ended, delivered, lost, threadId, deferred>>
      BY <1>4 DEF CloseScope, CloseAndRemove, FinalizeDeferred
    <2>2. \/ call' = call \/ Begin(t, "lookup", s, None) \/ Begin(t, "hold", s, None)
          \/ Begin(t, "stamp", s, Current(t))
      BY <1>4 DEF CloseScope, CloseAndRemove, FinalizeDeferred
    <2>3. \A x, u : x \in Spans /\ u \in Threads /\ Appending(x, u)' =>
                        Appending(x, u) \/ x \in deferred
      <3>1. CASE call' = call
        BY <3>1 DEF Appending
      <3> QED BY <1>2, <2>2, <3>1
    <2> QED BY <2>1, <2>3, LedgerQuiet
  <1>5. ASSUME NEW t \in Threads, NEW s \in Spans, EmitClosed(t, s)
        PROVE  LostOk' /\ BornOk' /\ LedgerStep
    <2>1. /\ UNCHANGED <<closed, ended, delivered, lost, threadId>>
          /\ deferred' \subseteq deferred /\ s \in deferred
      BY <1>5 DEF EmitClosed
    <2>2. call' = call \/ \E dst : Begin(t, "append", s, dst)
      BY <1>5 DEF EmitClosed, NoteThenAppend
    <2>3. \A x, u : x \in Spans /\ u \in Threads /\ Appending(x, u)' =>
                        Appending(x, u) \/ x \in deferred
      <3>1. CASE call' = call
        BY <3>1 DEF Appending
      <3> QED BY <1>2, <2>1, <2>2, <3>1
    <2> QED BY <2>1, <2>3, LedgerQuiet
  <1>6. ASSUME NEW t \in Threads, Stamp(t) PROVE LostOk' /\ BornOk' /\ LedgerStep
    <2>1. /\ call[t].pc \in {"stamp", "lookup", "hold"} /\ ended' = ended \cup {call[t].span}
          /\ UNCHANGED <<closed, delivered, lost, threadId, deferred>>
      BY <1>6 DEF Stamp
    <2>2. \/ call' = [call EXCEPT ![t] = Idle]
          \/ \E dst : Begin(t, "append", call[t].span, dst)
      BY <1>6 DEF Stamp, NoteThenAppend
    <2>3. \A x, u : x \in Spans /\ u \in Threads /\ Appending(x, u)' =>
                        Appending(x, u) \/ x = call[t].span
      <3>1. CASE call' = [call EXCEPT ![t] = Idle]
        BY <1>1, <3>1 DEF Appending, Idle, TypeOK
      <3>2. ASSUME NEW dst, Begin(t, "append", call[t].span, dst)
            PROVE  \A x, u : x \in Spans /\ u \in Threads /\ Appending(x, u)' =>
                        Appending(x, u) \/ x = call[t].span
        <4>1. \A u \in Threads :
                 call'[u] = IF u = t THEN [pc |-> "append", span |-> call[t].span, dst |-> dst]
                            ELSE call[u]
          BY <1>1, <3>2, BeginCalls
        <4> QED BY <4>1 DEF Appending
      <3> QED BY <2>2, <3>1, <3>2
    <2> QED BY <2>1, <2>3, LedgerEnds
  <1>7. ASSUME NEW t \in Threads, Hold(t) PROVE LostOk' /\ BornOk' /\ LedgerStep
    <2>1. /\ call[t].pc \in {"stamp", "lookup", "hold"} /\ ended' = ended \cup {call[t].span}
          /\ UNCHANGED <<closed, delivered, lost, threadId>>
          /\ deferred' \subseteq deferred \cup {call[t].span}
          /\ call' = [call EXCEPT ![t] = Idle]
      BY <1>7 DEF Hold
    <2>2. \A x, u : x \in Spans /\ u \in Threads /\ Appending(x, u)' => Appending(x, u)
      BY <1>1, <2>1 DEF Appending, Idle, TypeOK
    <2> QED BY <2>1, <2>2, LedgerEnds
  <1>8. ASSUME UNCHANGED <<closed, ended, delivered, lost, threadId, deferred, call>>
        PROVE  LostOk' /\ BornOk' /\ LedgerStep
    BY <1>8, LedgerQuiet DEF Appending
  <1>9. ASSUME NEW t \in Threads,
               \/ ThreadStart(t) \/ ThreadExit(t) \/ ExitIsolated(t)
               \/ \E r \in Requests : EnterIsolated(t, r)
        PROVE  LostOk' /\ BornOk' /\ LedgerStep
    BY <1>8, <1>9 DEF ThreadStart, ThreadExit, ExitIsolated, EnterIsolated
  <1>10. ASSUME NEW d \in Drainers,
                DrainSnapshot(d) \/ DrainVisit(d) \/ DrainLeave(d) \/ DrainReturn(d)
         PROVE  LostOk' /\ BornOk' /\ LedgerStep
    BY <1>8, <1>10 DEF DrainSnapshot, DrainVisit, DrainLeave, DrainReturn
  <1>11. ASSUME UNCHANGED vars PROVE LostOk' /\ BornOk' /\ LedgerStep
    BY <1>8, <1>11 DEF vars
  <1>12. ASSUME NEW t \in Threads, ThreadStep(t) PROVE LostOk' /\ BornOk' /\ LedgerStep
    <2>1. CASE \E s \in Spans : \/ Push(t, s) \/ PushRefused(t, s) \/ CloseScope(t, s)
                               \/ CloseAndRemove(t, s) \/ FinalizeDeferred(t, s)
                               \/ EmitClosed(t, s)
      <3> PICK s \in Spans : \/ Push(t, s) \/ PushRefused(t, s) \/ CloseScope(t, s)
                            \/ CloseAndRemove(t, s) \/ FinalizeDeferred(t, s)
                            \/ EmitClosed(t, s)
        BY <2>1
      <3>1. CASE Push(t, s)
        BY <3>1, LedgerPush
      <3>2. CASE PushRefused(t, s)
        BY <3>2, LedgerRefused
      <3>3. CASE CloseScope(t, s) \/ CloseAndRemove(t, s) \/ FinalizeDeferred(t, s)
        BY <1>4, <3>3
      <3> QED BY <1>5, <3>1, <3>2, <3>3
    <2>2. CASE AppendClosed(t)
      BY <2>2, LedgerAppend
    <2>3. CASE ThreadStart(t) \/ ThreadExit(t) \/ ExitIsolated(t)
               \/ \E r \in Requests : EnterIsolated(t, r)
      BY <1>9, <2>3
    <2> QED BY <1>3, <1>6, <1>7, <1>12, <2>1, <2>2, <2>3 DEF ThreadStep
  <1>13. ASSUME NEW d \in Drainers, DrainStep(d) PROVE LostOk' /\ BornOk' /\ LedgerStep
    <2>1. CASE DrainPopleft(d)
      BY <2>1, LedgerPopleft
    <2> QED BY <1>10, <1>13, <2>1 DEF DrainStep
  <1> QED BY <1>11, <1>12, <1>13 DEF Next

\* The scope stacks implement SpanLedger: a span is delivered or dropped once, and after
\* it was closed, however calls and drains interleave; if every span is closed by its own
\* thread.
THEOREM LedgerImplemented ==
    ASSUME Closers = {}
    PROVE  Spec => ImplementsLedger
  <1>1. Init => LedgerInv
    BY TypeInit, SingleInit DEF LedgerInv, SInv, LostOk, BornOk, Init
  <1>2. Init => Ledger!Init
    BY DEF Init, Ledger!Init
  <1>3. LedgerInv /\ [Next]_vars => LedgerInv' /\ [Ledger!Next]_[s \in Spans |-> Stat(s)]
    BY SingleStep, LedgerNext, LedgerMoves DEF LedgerInv
  <1> QED BY <1>1, <1>2, <1>3, PTL DEF Spec, ImplementsLedger, Ledger!Spec, Stat

-------------------------------------------------------------------------------
(* No closed span is out of reach of the drains, if threads have identifiers of *)
(* their own and no request contexts.  The registry never forgets a thread, and *)
(* a call works on the state of its own thread.                                 *)

NoContexts == Closers = {} /\ Requests = {}
              /\ \A t, u \in Threads : TidOf[t] = TidOf[u] => t = u

HomeOk == /\ \A t \in Threads : life[t] # "new" => registry[TidOf[t]] = t
          /\ \A t \in Threads : call[t].pc \in {"stamp", "append"} => call[t].dst = t
          /\ \A t \in Threads : closed[t] # <<>> => life[t] # "new"

\* A closed span is delivered, held, dropped, in a deque or about to be in one.
Placed(s) == \/ delivered[s] > 0
             \/ s \in deferred
             \/ \E st \in States : s \in lost[st]
             \/ \E st \in States : In(s, closed[st])
             \/ \E t \in Threads : Appending(s, t)

HomeInv == SInv /\ HomeOk /\ \A s \in ended : Placed(s)

LEMMA HomeCalls ==
    ASSUME HomeInv, UNCHANGED <<life, registry>>,
           \A t \in Threads : call'[t] = call[t] \/ call'[t].pc \notin {"stamp", "append"}
                                 \/ call'[t].dst = t,
           \A t \in Threads : closed'[t] # <<>> => life[t] # "new"
    PROVE  HomeOk'
  BY DEF HomeInv, HomeOk

\* What happens to a span whose place changes.
LEMMA StaysPlaced ==
    ASSUME HomeInv, UNCHANGED <<ended, delivered, lost>>, deferred \subseteq deferred',
           \A st \in States, s \in Spans : In(s, closed[st]) => In(s, closed'[st]),
           \A t \in Threads, s \in Spans : Appending(s, t) => Appending(s, t)'
    PROVE  \A s \in ended' : Placed(s)'
  <1> SUFFICES ASSUME NEW s \in ended' PROVE Placed(s)'
    OBVIOUS
  <1>1. s \in ended /\ s \in Spans /\ Placed(s)
    BY DEF HomeInv, SInv, TInv, TypeOK
  <1>2. CASE \E st \in States : In(s, closed[st])
    <2>1. \E st \in States : In(s, closed'[st])
      BY <1>1, <1>2
    <2> QED BY <2>1 DEF Placed, In
  <1>3. CASE \E t \in Threads : Appending(s, t)
    BY <1>1, <1>3 DEF Placed
  <1> QED BY <1>1, <1>2, <1>3 DEF Placed

\* A call that begins while the thread is idle leaves the places alone.
LEMMA BeginPlaced ==
    ASSUME HomeInv, NEW t \in Threads, call[t].pc # "append",
           call' = call \/ \E pc, s, dst : Begin(t, pc, s, dst)
    PROVE  \A u \in Threads, s \in Spans : Appending(s, u) => Appending(s, u)'
  <1>1. TypeOK
    BY DEF HomeInv, SInv, TInv
  <1>2. ASSUME NEW u \in Threads, u # t PROVE call'[u] = call[u]
    <2>1. CASE call' = call
      BY <2>1
    <2>2. ASSUME NEW pc, NEW s, NEW dst, Begin(t, pc, s, dst) PROVE call'[u] = call[u]
      <3>1. call'[u] = IF u = t THEN [pc |-> pc, span |-> s, dst |-> dst] ELSE call[u]
        BY <1>1, <2>2, BeginCalls
      <3> QED BY <1>2, <3>1
    <2> QED BY <2>1, <2>2
  <1> QED BY <1>2 DEF Appending

\* Steps that close nothing and leave the deques alone.
LEMMA HomeQuiet ==
    ASSUME HomeInv, NEW t \in Threads, call[t].pc # "append",
           UNCHANGED <<life, registry, closed, ended, delivered, lost>>,
           deferred \subseteq deferred',
           call' = call \/ \E pc, s, dst : /\ Begin(t, pc, s, dst)
                                           /\ pc \in {"stamp", "append"} => dst = t
    PROVE  HomeOk' /\ \A s \in ended' : Placed(s)'
  <1>1. TypeOK
    BY DEF HomeInv, SInv, TInv
  <1>2. HomeOk'
    <2>1. CASE call' = call
      BY <2>1, HomeCalls DEF HomeInv, HomeOk
    <2>2. ASSUME NEW pc, NEW s, NEW dst, Begin(t, pc, s, dst),
                 pc \in {"stamp", "append"} => dst = t
          PROVE  HomeOk'
      <3>1. \A u \in Threads :
               call'[u] = IF u = t THEN [pc |-> pc, span |-> s, dst |-> dst] ELSE call[u]
        BY <1>1, <2>2, BeginCalls
      <3> QED BY <2>2, <3>1 DEF HomeInv, HomeOk
    <2> QED BY <2>1, <2>2
  <1>3. \A u \in Threads, s \in Spans : Appending(s, u) => Appending(s, u)'
    BY BeginPlaced
  <1>4. \A s \in ended' : Placed(s)'
    BY <1>3, StaysPlaced
  <1> QED BY <1>2, <1>4

LEMMA HomeStart ==
    ASSUME NoContexts, HomeInv, NEW t \in Threads, ThreadStart(t) \/ ThreadExit(t)
    PROVE  HomeOk' /\ \A s \in ended' : Placed(s)'
  <1>1. TypeOK
    BY DEF HomeInv, SInv, TInv
  <1>2. UNCHANGED <<closed, ended, call, deferred, delivered, lost>>
    BY DEF ThreadStart, ThreadExit
  <1>3. \A s \in ended' : Placed(s)'
    BY <1>2, StaysPlaced DEF Appending
  <1>4. /\ \A u \in Threads : life'[u] = "new" => life[u] = "new"
        /\ \A u \in Threads : life'[u] # "new" => registry'[TidOf[u]] = u
    <2>1. CASE ThreadStart(t)
      <3>1. life' = [life EXCEPT ![t] = "live"] /\ registry' = [registry EXCEPT ![TidOf[t]] = t]
        BY <2>1 DEF ThreadStart
      <3>2. \A u \in Threads : TidOf[u] \in Keys
        BY ConstantsAssumption DEF Keys
      <3> QED BY <1>1, <3>1, <3>2 DEF HomeInv, HomeOk, TypeOK, NoContexts
    <2>2. CASE ThreadExit(t)
      <3>1. life' = [life EXCEPT ![t] = "dead"] /\ registry' = registry /\ life[t] = "live"
        BY <2>2 DEF ThreadExit, Ready
      <3> QED BY <1>1, <3>1 DEF HomeInv, HomeOk, TypeOK
    <2> QED BY <2>1, <2>2
  <1>5. HomeOk'
    BY <1>2, <1>4 DEF HomeInv, HomeOk
  <1> QED BY <1>3, <1>5

LEMMA HomePush ==
    ASSUME HomeInv, NEW t \in Threads, NEW s \in Spans, Push(t, s) \/ PushRefused(t, s)
    PROVE  HomeOk' /\ \A u \in ended' : Placed(u)'
  <1>1. TypeOK
    BY DEF HomeInv, SInv, TInv
  <1>2. /\ UNCHANGED <<life, registry, closed, ended, call, deferred, delivered>>
        /\ lost' = lost \/ lost' = [lost EXCEPT ![Current(t)] = @ \cup {s}]
    BY DEF Push, PushRefused, shape
  <1>3. \A st \in States : lost[st] \subseteq lost'[st]
    <2>1. PICK cur : cur = Current(t)
      OBVIOUS
    <2>2. CASE lost' = [lost EXCEPT ![cur] = @ \cup {s}]
      BY <1>1, <2>2 DEF TypeOK
    <2> QED BY <1>2, <2>1, <2>2
  <1>4. ASSUME NEW u \in ended' PROVE Placed(u)'
    <2>1. Placed(u)
      BY <1>2, <1>4 DEF HomeInv
    <2>2. (\E st \in States : u \in lost[st]) => \E st \in States : u \in lost'[st]
      BY <1>3
    <2> QED BY <1>2, <2>1, <2>2 DEF Placed, Appending
  <1>5. HomeOk'
    BY <1>2 DEF HomeInv, HomeOk
  <1> QED BY <1>4, <1>5

\* The span that EmitClosed takes out of the pending list is the one it appends.
LEMMA HomeEmit ==
    ASSUME NoContexts, HomeInv, NEW t \in Threads, NEW s \in Spans, EmitClosed(t, s)
    PROVE  HomeOk' /\ \A u \in ended' : Placed(u)'
  <1>1. TypeOK /\ life[t] = "live" /\ call[t].pc = "idle" /\ threadId[s] = TidOf[t]
    BY DEF HomeInv, SInv, TInv, EmitClosed, Ready, MayClose, NoContexts
  <1>2. registry[threadId[s]] = t /\ t # None
    BY <1>1, ConstantsAssumption DEF HomeInv, HomeOk, States
  <1>3. /\ UNCHANGED <<life, registry, closed, ended, delivered, lost>>
        /\ deferred' = deferred \ {s} /\ Begin(t, "append", s, t)
    BY <1>2 DEF EmitClosed, NoteThenAppend, shape
  <1>4. \A u \in Threads :
           call'[u] = IF u = t THEN [pc |-> "append", span |-> s, dst |-> t] ELSE call[u]
    BY <1>1, <1>3, BeginCalls
  <1>5. HomeOk'
    BY <1>3, <1>4 DEF HomeInv, HomeOk
  <1>6. ASSUME NEW u \in ended' PROVE Placed(u)'
    <2>1. Placed(u)
      BY <1>3, <1>6 DEF HomeInv
    <2>2. Appending(s, t)'
      BY <1>4 DEF Appending
    <2>3. (\E v \in Threads : Appending(u, v)) => \E v \in Threads : Appending(u, v)'
      BY <1>1, <1>4 DEF Appending
    <2>4. u = s \/ (u \in deferred => u \in deferred')
      BY <1>3
    <2> QED BY <1>3, <2>1, <2>2, <2>3, <2>4 DEF Placed
  <1> QED BY <1>5, <1>6

\* The write of end_ns is followed by the append, or puts the span into the pending list.
LEMMA HomeEnds ==
    ASSUME NoContexts, HomeInv, NEW t \in Threads, Stamp(t) \/ Hold(t)
    PROVE  HomeOk' /\ \A u \in ended' : Placed(u)'
  <1>1. TypeOK /\ call[t].pc \in {"stamp", "lookup", "hold"} /\ call[t] # Idle
    BY DEF HomeInv, SInv, TInv, Stamp, Hold, Idle
  <1>2. PICK s : s = call[t].span
    OBVIOUS
  <1>3. life[t] = "live" /\ threadId[s] = TidOf[t] /\ t # None /\ t \in States
    BY <1>1, <1>2, ConstantsAssumption
       DEF HomeInv, SInv, TInv, AliveOk, Single, CallOwn, States
  <1>4. /\ UNCHANGED <<life, registry, closed, delivered, lost>>
        /\ ended' = ended \cup {s} /\ deferred \subseteq deferred'
    BY <1>2 DEF Stamp, Hold, shape
  <1>5. \/ Hold(t) /\ call' = [call EXCEPT ![t] = Idle] /\ s \in deferred'
        \/ Begin(t, "append", s, t)
    <2>1. CASE Hold(t)
      BY <1>2, <2>1 DEF Hold
    <2>2. CASE Stamp(t)
      <3>1. (IF call[t].pc = "stamp" THEN call[t].dst ELSE registry[threadId[s]]) = t
        BY <1>1, <1>2, <1>3 DEF HomeInv, HomeOk
      <3> QED BY <1>2, <1>3, <2>2, <3>1 DEF Stamp, NoteThenAppend
    <2> QED BY <2>1, <2>2
  <1>6. \A u \in Threads : u # t => call'[u] = call[u]
    <2>1. CASE Hold(t)
      BY <1>1, <2>1 DEF Hold, TypeOK
    <2>2. CASE Begin(t, "append", s, t)
      BY <1>1, <2>2, BeginCalls
    <2> QED BY <1>5, <2>1, <2>2
  <1>7. \/ call'[t] = Idle /\ s \in deferred'
        \/ call'[t] = [pc |-> "append", span |-> s, dst |-> t]
    <2>1. CASE Hold(t) /\ call' = [call EXCEPT ![t] = Idle] /\ s \in deferred'
      BY <1>1, <2>1 DEF TypeOK
    <2>2. CASE Begin(t, "append", s, t)
      BY <1>1, <2>2, BeginCalls
    <2> QED BY <1>5, <2>1, <2>2
  <1>8. HomeOk'
    BY <1>4, <1>6, <1>7 DEF HomeInv, HomeOk, Idle
  <1>9. ASSUME NEW u \in ended' PROVE Placed(u)'
    <2>1. CASE u = s
      BY <1>7, <2>1 DEF Placed, Appending
    <2>2. CASE u # s
      <3>1. Placed(u)
        BY <1>4, <1>9, <2>2 DEF HomeInv
      <3>2. (\E v \in Threads : Appending(u, v)) => \E v \in Threads : Appending(u, v)'
        BY <1>1, <1>6 DEF Appending
      <3> QED BY <1>4, <3>1, <3>2 DEF Placed
    <2> QED BY <2>1, <2>2
  <1> QED BY <1>8, <1>9

\* The deques only lose what is dropped or delivered.
LEMMA HomeAppend ==
    ASSUME HomeInv, NEW t \in Threads, AppendClosed(t)
    PROVE  HomeOk' /\ \A u \in ended' : Placed(u)'
  <1>1. TypeOK
    BY DEF HomeInv, SInv, TInv
  <1>2. PICK s, q : s = call[t].span /\ q = closed[t]
    OBVIOUS
  <1>3. /\ call[t].pc = "append" /\ call[t].dst = t /\ t \in States /\ s \in Spans
        /\ q \in Seq(Spans) /\ Len(q) \in Nat
    BY <1>1, <1>2, CallType DEF AppendClosed, HomeInv, HomeOk, TypeOK, States
  <1>4. life[t] = "live"
    BY <1>3 DEF HomeInv, SInv, TInv, AliveOk, Idle
  <1>5. /\ UNCHANGED <<life, registry, ended, deferred, delivered>>
        /\ call' = [call EXCEPT ![t] = Idle]
    BY DEF AppendClosed, shape
  <1>6. \A u \in Threads : call'[u] = IF u = t THEN Idle ELSE call[u]
    BY <1>1, <1>5 DEF TypeOK
  <1>7. /\ \A st \in States : st # t => closed'[st] = closed[st]
        /\ In(s, closed'[t])
        /\ \A u \in Spans : In(u, q) => In(u, closed'[t]) \/ u \in lost'[t]
        /\ \A st \in States : lost[st] \subseteq lost'[st]
    <2>1. CASE Len(q) # ClosedCap
      <3>1. closed' = [closed EXCEPT ![t] = Append(q, s)] /\ lost' = lost
        BY <1>2, <1>3, <2>1 DEF AppendClosed
      <3>2. closed'[t] = Append(q, s)
        BY <1>1, <1>3, <3>1 DEF TypeOK
      <3>3. /\ Len(Append(q, s)) = Len(q) + 1 /\ Append(q, s)[Len(q) + 1] = s
            /\ \A i \in 1..Len(q) : Append(q, s)[i] = q[i]
        BY <1>3, AppendProperties
      <3>4. In(s, closed'[t]) /\ \A u \in Spans : In(u, q) => In(u, closed'[t])
        BY <1>3, <3>2, <3>3 DEF In
      <3> QED BY <1>1, <3>1, <3>4 DEF TypeOK
    <2>2. CASE Len(q) = ClosedCap
      <3>1. q # <<>>
        BY <2>2, ConstantsAssumption
      <3>2. /\ closed' = [closed EXCEPT ![t] = Append(Tail(q), s)]
            /\ lost' = [lost EXCEPT ![t] = @ \cup {Head(q)}]
        BY <1>2, <1>3, <2>2 DEF AppendClosed
      <3>3. closed'[t] = Append(Tail(q), s) /\ Head(q) \in lost'[t] /\ Head(q) = q[1]
        BY <1>1, <1>3, <3>1, <3>2 DEF TypeOK
      <3>4. /\ Tail(q) \in Seq(Spans) /\ Len(Tail(q)) = Len(q) - 1
            /\ \A i \in 1..Len(Tail(q)) : Tail(q)[i] = q[i + 1]
        BY <1>3, <3>1, HeadTailProperties
      <3>5. /\ Len(Append(Tail(q), s)) = Len(q) /\ Append(Tail(q), s)[Len(q)] = s
            /\ \A i \in 1..(Len(q) - 1) : Append(Tail(q), s)[i] = q[i + 1]
        BY <1>3, <3>4, AppendProperties
      <3>6. In(s, closed'[t])
        BY <1>3, <2>2, <3>3, <3>5, ConstantsAssumption DEF In
      <3>7. ASSUME NEW i \in 1..Len(q), i # 1 PROVE In(q[i], closed'[t])
        <4>1. PICK k \in 1..(Len(q) - 1) : i = k + 1
          BY <1>3, <3>7
        <4>2. Append(Tail(q), s)[k] = q[k + 1]
          BY <3>5
        <4>3. k \in 1..Len(closed'[t]) /\ closed'[t][k] = q[i]
          BY <1>3, <3>3, <3>5, <4>1, <4>2
        <4> QED BY <4>3 DEF In
      <3>8. \A u \in Spans : In(u, q) => In(u, closed'[t]) \/ u \in lost'[t]
        BY <3>3, <3>7 DEF In
      <3> QED BY <1>1, <3>2, <3>6, <3>8 DEF TypeOK
    <2> QED BY <2>1, <2>2
  <1>8. HomeOk'
    <2>1. \A u \in Threads : u # t => closed'[u] = closed[u]
      BY <1>7 DEF States
    <2> QED BY <1>4, <1>5, <1>6, <2>1 DEF HomeInv, HomeOk, Idle
  <1>9. ASSUME NEW u \in ended' PROVE Placed(u)'
    <2>1. Placed(u) /\ u \in Spans
      BY <1>1, <1>5, <1>9 DEF HomeInv, TypeOK
    <2>2. CASE \E st \in States : In(u, closed[st])
      <3>1. PICK st \in States : In(u, closed[st])
        BY <2>2
      <3>2. In(u, closed'[st]) \/ u \in lost'[st]
        <4>1. CASE st = t
          BY <1>2, <1>7, <2>1, <3>1, <4>1
        <4>2. CASE st # t
          BY <1>7, <3>1, <4>2
        <4> QED BY <4>1, <4>2
      <3>3. (\E x \in States : In(u, closed'[x])) \/ \E x \in States : u \in lost'[x]
        BY <3>2
      <3> QED BY <3>3 DEF Placed, In
    <2>3. CASE \E v \in Threads : Appending(u, v)
      <3>1. CASE u = s
        <4>1. \E x \in States : In(u, closed'[x])
          BY <1>3, <1>7, <3>1
        <4> QED BY <4>1 DEF Placed, In
      <3>2. CASE u # s
        BY <1>2, <1>6, <2>3, <3>2 DEF Placed, Appending
      <3> QED BY <3>1, <3>2
    <2>4. (\E st \in States : u \in lost[st]) => \E st \in States : u \in lost'[st]
      BY <1>7
    <2> QED BY <1>5, <2>1, <2>2, <2>3, <2>4 DEF Placed
  <1> QED BY <1>8, <1>9

LEMMA HomePopleft ==
    ASSUME HomeInv, NEW d \in Drainers, DrainPopleft(d)
    PROVE  HomeOk' /\ \A u \in ended' : Placed(u)'
  <1>1. TypeOK
    BY DEF HomeInv, SInv, TInv
  <1>2. PICK dst, q : dst = drain[d].at[2] /\ q = closed[dst]
    OBVIOUS
  <1>3. dst \in States
    <2>1. drain[d] \in Drains /\ drain[d].at # None
      BY <1>1 DEF TypeOK, DrainPopleft
    <2> QED BY <1>2, <2>1 DEF Drains, Items
  <1>4. q \in Seq(Spans) /\ Len(q) \in Nat /\ q # <<>>
    BY <1>1, <1>2, <1>3 DEF DrainPopleft, TypeOK
  <1>5. /\ closed' = [closed EXCEPT ![dst] = Tail(q)]
        /\ delivered' = [delivered EXCEPT ![Head(q)] = @ + 1]
        /\ UNCHANGED <<life, registry, ended, deferred, lost, call>>
    BY <1>2 DEF DrainPopleft, shape
  <1>6. /\ Tail(q) \in Seq(Spans) /\ Len(Tail(q)) = Len(q) - 1
        /\ \A i \in 1..Len(Tail(q)) : Tail(q)[i] = q[i + 1]
    BY <1>4, HeadTailProperties
  <1>7. \A st \in States : closed'[st] = IF st = dst THEN Tail(q) ELSE closed[st]
    BY <1>1, <1>5 DEF TypeOK
  <1>8. PICK h \in Spans : h = Head(q) /\ h = q[1]
    BY <1>4
  <1>9. \A u \in Spans : delivered'[u] = IF u = h THEN delivered[u] + 1 ELSE delivered[u]
    BY <1>1, <1>5, <1>8 DEF TypeOK
  <1>10. HomeOk'
    <2>1. \A u \in Threads : closed'[u] # <<>> => closed[u] # <<>>
      BY <1>2, <1>4, <1>7 DEF States
    <2> QED BY <1>5, <2>1 DEF HomeInv, HomeOk
  <1>11. ASSUME NEW u \in ended' PROVE Placed(u)'
    <2>1. Placed(u) /\ u \in Spans
      BY <1>1, <1>5, <1>11 DEF HomeInv, TypeOK
    <2>2. CASE u = h
      BY <1>1, <1>9, <2>1, <2>2 DEF Placed, TypeOK
    <2>3. CASE u # h
      <3>1. ASSUME NEW st \in States, In(u, closed[st]) PROVE In(u, closed'[st])
        <4>1. CASE st # dst
          BY <1>7, <3>1, <4>1
        <4>2. CASE st = dst
          <5>1. PICK i \in 1..Len(q) : q[i] = u
            BY <1>2, <3>1, <4>2 DEF In
          <5>2. i - 1 \in 1..Len(Tail(q)) /\ Tail(q)[i - 1] = u
            BY <1>4, <1>6, <1>8, <2>3, <5>1
          <5> QED BY <1>7, <4>2, <5>2 DEF In
        <4> QED BY <4>1, <4>2
      <3>2. (\E st \in States : In(u, closed[st])) => \E st \in States : In(u, closed'[st])
        BY <3>1
      <3>3. delivered'[u] = delivered[u]
        BY <1>9, <2>1, <2>3
      <3> QED BY <1>5, <2>1, <3>2, <3>3 DEF Placed, Appending, In
    <2> QED BY <2>2, <2>3
  <1> QED BY <1>10, <1>11

LEMMA HomeStep ==
    ASSUME NoContexts, HomeInv, [Next]_vars
    PROVE  HomeOk' /\ \A u \in ended' : Placed(u)'
  <1>1. TypeOK
    BY DEF HomeInv, SInv, TInv
  <1>2. \A t \in Threads : Current(t) = t
    BY <1>1 DEF Current, TypeOK, NoContexts
  <1>3. ASSUME NEW t \in Threads, Pop(t) PROVE HomeOk' /\ \A u \in ended' : Placed(u)'
    <2>1. /\ UNCHANGED <<life, registry, closed, ended, delivered, lost, deferred>>
          /\ call[t].pc # "append"
      BY <1>3 DEF Pop, shape, Ready
    <2>2. call' = call \/ \E top : Begin(t, "stamp", top, t)
      BY <1>2, <1>3 DEF Pop
    <2> QED BY <2>1, <2>2, HomeQuiet
  <1>4. ASSUME NEW t \in Threads, NEW s \in Spans,
               \/ CloseScope(t, s) \/ CloseAndRemove(t, s) \/ FinalizeDeferred(t, s)
        PROVE  HomeOk' /\ \A u \in ended' : Placed(u)'
    <2>1. /\ UNCHANGED <<life, registry, closed, ended, delivered, lost, deferred>>
          /\ call[t].pc # "append"
      BY <1>4 DEF CloseScope, CloseAndRemove, FinalizeDeferred, shape, Ready
    <2>2. \/ call' = call \/ Begin(t, "lookup", s, None) \/ Begin(t, "hold", s, None)
          \/ Begin(t, "stamp", s, t)
      BY <1>2, <1>4 DEF CloseScope, CloseAndRemove, FinalizeDeferred
    <2> QED BY <2>1, <2>2, HomeQuiet
  <1>5. ASSUME UNCHANGED <<life, registry, closed, ended, delivered, lost, deferred, call>>
        PROVE  HomeOk' /\ \A u \in ended' : Placed(u)'
    BY <1>5, StaysPlaced DEF HomeInv, HomeOk, Appending
  <1>6. ASSUME NEW d \in Drainers, DrainReturn(d)
        PROVE  HomeOk' /\ \A u \in ended' : Placed(u)'
    <2>1. /\ UNCHANGED <<life, closed, ended, delivered, lost, deferred, call>>
          /\ registry' = [k \in Keys |->
                IF k \in drain[d].prunable /\ stack[k] = <<>> /\ closed[k] = <<>>
                THEN None ELSE registry[k]]
      BY <1>6 DEF DrainReturn
    <2>2. drain[d].prunable = {}
      <3>1. drain[d] \in Drains
        BY <1>1 DEF TypeOK
      <3> QED BY <3>1 DEF Drains, NoContexts
    <2>3. registry' = registry
      BY <1>1, <2>1, <2>2 DEF TypeOK
    <2> QED BY <1>5, <2>1, <2>3
  <1>7. ASSUME NEW d \in Drainers, DrainSnapshot(d) \/ DrainVisit(d) \/ DrainLeave(d)
        PROVE  HomeOk' /\ \A u \in ended' : Placed(u)'
    BY <1>5, <1>7 DEF DrainSnapshot, DrainVisit, DrainLeave, shape
  <1>8. ASSUME UNCHANGED vars PROVE HomeOk' /\ \A u \in ended' : Placed(u)'
    BY <1>5, <1>8 DEF vars
  <1>9. ASSUME NEW t \in Threads, ThreadStep(t) PROVE HomeOk' /\ \A u \in ended' : Placed(u)'
    <2>1. CASE \E s \in Spans : \/ Push(t, s) \/ PushRefused(t, s) \/ CloseScope(t, s)
                               \/ CloseAndRemove(t, s) \/ FinalizeDeferred(t, s)
                               \/ EmitClosed(t, s)
      <3> PICK s \in Spans : \/ Push(t, s) \/ PushRefused(t, s) \/ CloseScope(t, s)
                            \/ CloseAndRemove(t, s) \/ FinalizeDeferred(t, s)
                            \/ EmitClosed(t, s)
        BY <2>1
      <3>1. CASE Push(t, s) \/ PushRefused(t, s)
        BY <3>1, HomePush
      <3>2. CASE CloseScope(t, s) \/ CloseAndRemove(t, s) \/ FinalizeDeferred(t, s)
        BY <1>4, <3>2
      <3>3. CASE EmitClosed(t, s)
        BY <3>3, HomeEmit
      <3> QED BY <3>1, <3>2, <3>3
    <2>2. CASE AppendClosed(t)
      BY <2>2, HomeAppend
    <2>3. CASE Stamp(t) \/ Hold(t)
      BY <2>3, HomeEnds
    <2>4. CASE ThreadStart(t) \/ ThreadExit(t)
      BY <2>4, HomeStart
    <2>5. CASE ExitIsolated(t) \/ \E r \in Requests : EnterIsolated(t, r)
      BY <1>1, <2>5 DEF ExitIsolated, NoContexts, TypeOK
    <2> QED BY <1>3, <1>9, <2>1, <2>2, <2>3, <2>4, <2>5 DEF ThreadStep
  <1>10. ASSUME NEW d \in Drainers, DrainStep(d)
         PROVE  HomeOk' /\ \A u \in ended' : Placed(u)'
    <2>1. CASE DrainPopleft(d)
      BY <2>1, HomePopleft
    <2> QED BY <1>6, <1>7, <1>10, <2>1 DEF DrainStep
  <1> QED BY <1>8, <1>9, <1>10 DEF Next

\* A span that was closed is never out of reach of the drains, if threads close their own
\* spans, have identifiers of their own and enter no request contexts.
THEOREM NothingStranded ==
    ASSUME NoContexts
    PROVE  Spec => []NoSpanStranded
  <1>1. Init => HomeInv
    BY TypeInit, SingleInit DEF HomeInv, SInv, HomeOk, Init, Idle, States
  <1>2. HomeInv /\ [Next]_vars => HomeInv'
    BY SingleStep, HomeStep DEF HomeInv, NoContexts
  <1>3. HomeInv => NoSpanStranded
    <2> SUFFICES ASSUME HomeInv, NEW s \in ended
                 PROVE  \/ delivered[s] > 0
                        \/ s \in deferred
                        \/ \E st \in States : s \in lost[st]
                        \/ \E st \in Reachable : In(s, closed[st])
                        \/ \E t \in Threads : /\ call[t].span = s /\ call[t].pc = "append"
                                              /\ call[t].dst \in Reachable
      BY DEF NoSpanStranded
    <2>1. States = Threads
      BY DEF States, NoContexts
    <2>2. ASSUME NEW t \in Threads, life[t] # "new" PROVE t \in Reachable
      <3>1. TidOf[t] \in Keys /\ registry[TidOf[t]] = t
        BY <2>2, ConstantsAssumption DEF HomeInv, HomeOk, Keys
      <3> QED BY <2>1, <3>1 DEF Reachable
    <2>3. ASSUME NEW t \in Threads, In(s, closed[t]) PROVE t \in Reachable
      <3>1. closed[t] # <<>>
        BY <2>3 DEF In
      <3> QED BY <2>2, <3>1 DEF HomeInv, HomeOk
    <2>4. ASSUME NEW t \in Threads, Appending(s, t)
          PROVE  call[t].span = s /\ call[t].pc = "append" /\ call[t].dst \in Reachable
      <3>1. life[t] = "live" /\ call[t].dst = t
        BY <2>4 DEF HomeInv, HomeOk, SInv, TInv, AliveOk, Appending, Idle
      <3> QED BY <2>2, <2>4, <3>1 DEF Appending
    <2>5. Placed(s)
      BY DEF HomeInv
    <2> QED BY <2>1, <2>3, <2>4, <2>5 DEF Placed
  <1> QED BY <1>1, <1>2, <1>3, PTL DEF Spec
===============================================================================
