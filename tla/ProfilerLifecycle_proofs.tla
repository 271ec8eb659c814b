----------------------- MODULE ProfilerLifecycle_proofs -----------------------
(***************************************************************************)
(* Proofs about ProfilerLifecycle, for any number of sessions, threads and *)
(* signals, and any prior dispositions of these.                           *)
(***************************************************************************)
EXTENDS ProfilerLifecycle, FiniteSetTheorems, SequenceTheorems, TLAPS

Setup == {"install", "lock", "start", "unlock", "publish"}
Teardown == {"mark", "root", "uninstall", "flush", "stoplock", "stop", "close", "clear"}

\* The part of TypeOK that the argument needs.
LifeType ==
    /\ singleton \in Sessions \cup {None} /\ supervisor \in Sessions \cup {None}
    /\ fallback \in Sessions \cup {None}
    /\ made \in SUBSET Sessions /\ enabled \in SUBSET made
    /\ isShutdown \in SUBSET made /\ torn \in SUBSET isShutdown
    /\ hooks \in SUBSET Sessions /\ transports \in SUBSET Sessions
    /\ running \in SUBSET Sessions /\ failed \in SUBSET Sessions
    /\ root \in [Sessions -> {"none", "open", "closed"}]
    /\ stack \in [Threads -> Seq(Sessions)]
    /\ call \in [Threads -> [pc : Pcs, sess : Sessions \cup {None}]]
    /\ over \in [pc : {"none", "clear", "flush", "stop", "chain", "gone"},
                 cause : {"signal", "exit"}, before : SUBSET Sessions]
    /\ signals \in Nat

\* The session of a call: who sets one up owns _profiler_lock, and who tears one down
\* leaves nothing behind of the steps that are done.
CallOk(t) ==
    LET p == call[t].sess
        c == call[t].pc
    IN  /\ c = "away" <=> p = None
        /\ c \in Setup => profilerLock = t /\ p \notin made \cup failed
        /\ c \in {"install", "lock", "start"} => supervisor # p
        /\ c \in Setup \ {"install"} => p \in hooks /\ p \in transports
        /\ c \in Teardown => p \in made
        /\ c \in Teardown \ {"mark"} => p \in isShutdown
        /\ c \in Teardown \ {"mark", "clear"} => p \in enabled
        /\ c \in {"uninstall", "flush", "stoplock", "stop", "close", "clear"} =>
              fallback # p /\ (p \in enabled => root[p] = "closed")
        /\ c \in {"flush", "stoplock", "stop", "close", "clear"} => p \notin hooks
        /\ c \in {"stoplock", "stop", "close", "clear"} =>
              root[p] = "none" \/ p \in delivered
        /\ c \in {"close", "clear"} => supervisor # p
        /\ c = "clear" => p \notin transports

\* A session that does not exist yet has left no trace, unless it is being set up or its
\* profile() failed; one that is disabled never has.
SessionOk(p) ==
    /\ p \notin made => root[p] = "none" /\ fallback # p /\ singleton # p
    /\ p \in enabled => root[p] # "none"
    /\ p \in made \ enabled => /\ p \notin hooks \cup transports
                               /\ supervisor # p /\ fallback # p /\ root[p] = "none"
    /\ p \notin made /\ (p \in hooks \cup transports \/ supervisor = p) =>
          p \in failed \/ \E t \in Threads : call[t].sess = p /\ call[t].pc \in Setup
    /\ p \in torn => /\ p \notin hooks \cup transports
                     /\ p \notin {singleton, supervisor, fallback}
                     /\ root[p] = "none" \/ p \in delivered

\* Sessions on a stack have a root.
StackOk == \A t \in Threads : \A i \in 1..Len(stack[t]) : root[stack[t][i]] # "none"

\* What a handler found closed is drained by its first step.
OverOk ==
    /\ over.before \subseteq Closed
    /\ over.pc \in {"stop", "chain", "gone"} => over.before \subseteq delivered

EndInv == /\ LifeType /\ StackOk /\ OverOk /\ running \subseteq {supervisor}
          /\ \A t \in Threads : CallOk(t)
          /\ \A p \in Sessions : SessionOk(p)

-------------------------------------------------------------------------------

LEMMA EndInit == Init => EndInv
<1> SUFFICES ASSUME Init PROVE EndInv
  OBVIOUS
<1>1. LifeType
  BY EmptySeq DEF Init, LifeType, Away, Pcs, NoHandler
<1>2. StackOk
  BY DEF Init, StackOk
<1>3. OverOk
  BY DEF Init, OverOk, NoHandler
<1>4. \A t \in Threads : CallOk(t)
  BY LifecycleAssumption DEF Init, CallOk, Away, Setup, Teardown
<1>5. \A p \in Sessions : SessionOk(p)
  BY LifecycleAssumption DEF Init, SessionOk
<1> QED
  BY <1>1, <1>2, <1>3, <1>4, <1>5 DEF EndInv, Init

LEMMA GotoShape ==
    ASSUME LifeType, NEW t \in Threads, NEW c \in Pcs, Goto(t, c)
    PROVE  /\ call' \in [Threads -> [pc : Pcs, sess : Sessions \cup {None}]]
           /\ \A u \in Threads : call'[u] = [pc |-> IF u = t THEN c ELSE call[u].pc,
                                             sess |-> call[u].sess]
<1>1. call \in [Threads -> [pc : Pcs, sess : Sessions \cup {None}]]
  BY DEF LifeType
<1>2. call' = [call EXCEPT ![t] = [call[t] EXCEPT !.pc = c]]
  BY <1>1 DEF Goto
<1>3. [call[t] EXCEPT !.pc = c] = [pc |-> c, sess |-> call[t].sess]
  BY <1>1
<1> QED
  BY <1>1, <1>2, <1>3

LEMMA BeginShape ==
    ASSUME LifeType, NEW t \in Threads, NEW c \in Pcs, NEW p \in Sessions \cup {None},
           Begin(t, c, p)
    PROVE  /\ call' \in [Threads -> [pc : Pcs, sess : Sessions \cup {None}]]
           /\ \A u \in Threads : call'[u] = IF u = t THEN [pc |-> c, sess |-> p]
                                            ELSE call[u]
BY DEF LifeType, Begin

LEMMA ReturnShape ==
    ASSUME LifeType, NEW t \in Threads, Return(t)
    PROVE  /\ call' \in [Threads -> [pc : Pcs, sess : Sessions \cup {None}]]
           /\ \A u \in Threads : call'[u] = IF u = t THEN [pc |-> "away", sess |-> None]
                                            ELSE call[u]
BY DEF LifeType, Return, Away, Pcs

LEMMA EndProfileInstall ==
    ASSUME EndInv, NEW t \in Threads, ProfileInstall(t)
    PROVE  EndInv'
<1> USE LifecycleAssumption
<1>1. /\ LifeType /\ StackOk /\ OverOk /\ running \subseteq {supervisor}
      /\ \A u \in Threads : CallOk(u)
      /\ \A q \in Sessions : SessionOk(q)
  BY DEF EndInv
<1>2. /\ UNCHANGED <<profilerLock, stateLock, singleton, made, enabled, isShutdown,
                     supervisor, running, fallback, root, stack, above, delivered, over,
                     registered, signals, failed, cut, torn, foreign>>
      /\ transports' = transports \cup {call[t].sess}
      /\ hooks' = hooks \cup {call[t].sess}
      /\ call[t].pc = "install"
  BY DEF ProfileInstall, At, flush, spans, history
<1>3. /\ call' \in [Threads -> [pc : Pcs, sess : Sessions \cup {None}]]
      /\ \A u \in Threads : call'[u] = [pc |-> IF u = t THEN "lock" ELSE call[u].pc,
                                        sess |-> call[u].sess]
  BY <1>1, GotoShape DEF ProfileInstall, Pcs
<1>4. LifeType'
  BY <1>1, <1>2, <1>3 DEF LifeType, CallOk, Setup, Teardown, Closed
<1>5. StackOk' /\ OverOk' /\ (running \subseteq {supervisor})'
  BY <1>1, <1>2 DEF StackOk, OverOk, Closed, LifeType
<1>6. ASSUME NEW u \in Threads PROVE CallOk(u)'
  BY <1>1, <1>2, <1>3, <1>6 DEF CallOk, LifeType, Setup, Teardown
<1>7. ASSUME NEW q \in Sessions PROVE SessionOk(q)'
  BY <1>1, <1>2, <1>3 DEF SessionOk, LifeType, CallOk, Setup, Teardown
<1> QED
  BY <1>4, <1>5, <1>6, <1>7 DEF EndInv

LEMMA EndStartLock ==
    ASSUME EndInv, NEW t \in Threads, StartLock(t)
    PROVE  EndInv'
<1> USE LifecycleAssumption
<1>1. /\ LifeType /\ StackOk /\ OverOk /\ running \subseteq {supervisor}
      /\ \A u \in Threads : CallOk(u)
      /\ \A q \in Sessions : SessionOk(q)
  BY DEF EndInv
<1>2. /\ UNCHANGED <<profilerLock, singleton, made, enabled, isShutdown, hooks,
                     transports, supervisor, running, fallback, root, stack, above,
                     delivered, over, registered, signals, failed, cut, torn, foreign>>
      /\ stateLock' = t
      /\ call[t].pc = "lock"
  BY DEF StartLock, At, session, flush, spans, history
<1>3. /\ call' \in [Threads -> [pc : Pcs, sess : Sessions \cup {None}]]
      /\ \A u \in Threads : call'[u] = [pc |-> IF u = t THEN "start" ELSE call[u].pc,
                                        sess |-> call[u].sess]
  BY <1>1, GotoShape DEF StartLock, Pcs
<1>4. LifeType'
  BY <1>1, <1>2, <1>3 DEF LifeType, CallOk, Setup, Teardown, Closed
<1>5. StackOk' /\ OverOk' /\ (running \subseteq {supervisor})'
  BY <1>1, <1>2 DEF StackOk, OverOk, Closed, LifeType
<1>6. ASSUME NEW u \in Threads PROVE CallOk(u)'
  BY <1>1, <1>2, <1>3, <1>6 DEF CallOk, LifeType, Setup, Teardown
<1>7. ASSUME NEW q \in Sessions PROVE SessionOk(q)'
  BY <1>1, <1>2, <1>3 DEF SessionOk, LifeType, CallOk, Setup, Teardown
<1> QED
  BY <1>4, <1>5, <1>6, <1>7 DEF EndInv

LEMMA EndStart ==
    ASSUME EndInv, NEW t \in Threads, Start(t)
    PROVE  EndInv'
<1> USE LifecycleAssumption
<1>1. /\ LifeType /\ StackOk /\ OverOk /\ running \subseteq {supervisor}
      /\ \A u \in Threads : CallOk(u)
      /\ \A q \in Sessions : SessionOk(q)
  BY DEF EndInv
<1>2. /\ UNCHANGED <<profilerLock, stateLock, singleton, made, enabled, isShutdown,
                     hooks, transports, fallback, root, stack, above, delivered, over,
                     signals, failed, cut, torn, foreign>>
      /\ registered' = TRUE
      /\ supervisor' = IF supervisor = None THEN call[t].sess ELSE supervisor
      /\ running' = IF supervisor = None THEN running \cup {call[t].sess} ELSE running
      /\ call[t].pc = "start"
  BY DEF Start, flush, At, session, spans, history
<1>3. /\ call' \in [Threads -> [pc : Pcs, sess : Sessions \cup {None}]]
      /\ \A u \in Threads : call'[u] = [pc |-> IF u = t THEN "unlock" ELSE call[u].pc,
                                        sess |-> call[u].sess]
  BY <1>1, GotoShape DEF Start, Pcs
<1>4. LifeType'
  BY <1>1, <1>2, <1>3 DEF LifeType, CallOk, Setup, Teardown, Closed
<1>5. StackOk' /\ OverOk' /\ (running \subseteq {supervisor})'
  BY <1>1, <1>2 DEF StackOk, OverOk, Closed, LifeType
<1>6. ASSUME NEW u \in Threads PROVE CallOk(u)'
  BY <1>1, <1>2, <1>3, <1>6 DEF CallOk, LifeType, Setup, Teardown
<1>7. ASSUME NEW q \in Sessions PROVE SessionOk(q)'
  BY <1>1, <1>2, <1>3 DEF SessionOk, LifeType, CallOk, Setup, Teardown
<1> QED
  BY <1>4, <1>5, <1>6, <1>7 DEF EndInv

LEMMA EndStartUnlock ==
    ASSUME EndInv, NEW t \in Threads, StartUnlock(t)
    PROVE  EndInv'
<1> USE LifecycleAssumption
<1>1. /\ LifeType /\ StackOk /\ OverOk /\ running \subseteq {supervisor}
      /\ \A u \in Threads : CallOk(u)
      /\ \A q \in Sessions : SessionOk(q)
  BY DEF EndInv
<1>2. /\ UNCHANGED <<profilerLock, singleton, made, enabled, isShutdown, hooks,
                     transports, supervisor, running, fallback, root, stack, above,
                     delivered, over, registered, signals, failed, cut, torn, foreign>>
      /\ stateLock' = None
      /\ call[t].pc = "unlock"
  BY DEF StartUnlock, At, session, flush, spans, history
<1>3. /\ call' \in [Threads -> [pc : Pcs, sess : Sessions \cup {None}]]
      /\ \A u \in Threads : call'[u] = [pc |-> IF u = t THEN "publish" ELSE call[u].pc,
                                        sess |-> call[u].sess]
  BY <1>1, GotoShape DEF StartUnlock, Pcs
<1>4. LifeType'
  BY <1>1, <1>2, <1>3 DEF LifeType, CallOk, Setup, Teardown, Closed
<1>5. StackOk' /\ OverOk' /\ (running \subseteq {supervisor})'
  BY <1>1, <1>2 DEF StackOk, OverOk, Closed, LifeType
<1>6. ASSUME NEW u \in Threads PROVE CallOk(u)'
  BY <1>1, <1>2, <1>3, <1>6 DEF CallOk, LifeType, Setup, Teardown
<1>7. ASSUME NEW q \in Sessions PROVE SessionOk(q)'
  BY <1>1, <1>2, <1>3 DEF SessionOk, LifeType, CallOk, Setup, Teardown
<1> QED
  BY <1>4, <1>5, <1>6, <1>7 DEF EndInv

LEMMA EndStartRaises ==
    ASSUME EndInv, NEW t \in Threads, StartRaises(t)
    PROVE  EndInv'
<1> USE LifecycleAssumption
<1>1. /\ LifeType /\ StackOk /\ OverOk /\ running \subseteq {supervisor}
      /\ \A u \in Threads : CallOk(u)
      /\ \A q \in Sessions : SessionOk(q)
  BY DEF EndInv
<1>2. /\ UNCHANGED <<singleton, made, enabled, isShutdown, hooks, transports,
                     supervisor, running, fallback, root, stack, above, delivered, over,
                     registered, signals, cut, torn, foreign>>
      /\ stateLock' = None
      /\ profilerLock' = None
      /\ failed' = failed \cup {call[t].sess}
      /\ call[t].pc = "start"
  BY DEF StartRaises, At, session, flush, spans
<1>3. /\ call' \in [Threads -> [pc : Pcs, sess : Sessions \cup {None}]]
      /\ \A u \in Threads : call'[u] = IF u = t THEN [pc |-> "away", sess |-> None]
                                        ELSE call[u]
  BY <1>1, ReturnShape DEF StartRaises, Pcs
<1>4. LifeType'
  BY <1>1, <1>2, <1>3 DEF LifeType, CallOk, Setup, Teardown, Closed
<1>5. StackOk' /\ OverOk' /\ (running \subseteq {supervisor})'
  BY <1>1, <1>2 DEF StackOk, OverOk, Closed, LifeType
<1>6. ASSUME NEW u \in Threads PROVE CallOk(u)'
  BY <1>1, <1>2, <1>3, <1>6 DEF CallOk, LifeType, Setup, Teardown
<1>7. ASSUME NEW q \in Sessions PROVE SessionOk(q)'
  BY <1>1, <1>2, <1>3 DEF SessionOk, LifeType, CallOk, Setup, Teardown
<1> QED
  BY <1>4, <1>5, <1>6, <1>7 DEF EndInv

LEMMA EndShutdownTest ==
    ASSUME EndInv, NEW t \in Threads, NEW p \in Sessions, ShutdownTest(t, p)
    PROVE  EndInv'
<1> USE LifecycleAssumption
<1>1. /\ LifeType /\ StackOk /\ OverOk /\ running \subseteq {supervisor}
      /\ \A u \in Threads : CallOk(u)
      /\ \A q \in Sessions : SessionOk(q)
  BY DEF EndInv
<1>2. /\ UNCHANGED <<profilerLock, stateLock, singleton, made, enabled, isShutdown,
                     hooks, transports, supervisor, running, fallback, root, stack,
                     above, delivered, over, registered, signals, failed, cut, torn,
                     foreign>>
      /\ call[t].pc = "away" /\ p \in made \ isShutdown
  BY DEF ShutdownTest, At, session, flush, spans, history
<1>3. /\ call' \in [Threads -> [pc : Pcs, sess : Sessions \cup {None}]]
      /\ \A u \in Threads : call'[u] = IF u = t THEN [pc |-> "mark", sess |-> p]
                                        ELSE call[u]
  BY <1>1, BeginShape DEF ShutdownTest, Pcs
<1>4. LifeType'
  BY <1>1, <1>2, <1>3 DEF LifeType, CallOk, Setup, Teardown, Closed
<1>5. StackOk' /\ OverOk' /\ (running \subseteq {supervisor})'
  BY <1>1, <1>2 DEF StackOk, OverOk, Closed, LifeType
<1>6. ASSUME NEW u \in Threads PROVE CallOk(u)'
  BY <1>1, <1>2, <1>3, <1>6 DEF CallOk, LifeType, Setup, Teardown
<1>7. ASSUME NEW q \in Sessions PROVE SessionOk(q)'
  <2>1. SessionOk(q)
    BY <1>1
  <2>2. \A u \in Threads : call[u].sess = q /\ call[u].pc \in Setup =>
           call'[u].sess = q /\ call'[u].pc \in Setup
    BY <1>2, <1>3 DEF Setup
  <2> QED
    BY <1>2, <2>1, <2>2 DEF SessionOk
<1> QED
  BY <1>4, <1>5, <1>6, <1>7 DEF EndInv

LEMMA EndShutdownMark ==
    ASSUME EndInv, NEW t \in Threads, ShutdownMark(t)
    PROVE  EndInv'
<1> USE LifecycleAssumption
<1>1. /\ LifeType /\ StackOk /\ OverOk /\ running \subseteq {supervisor}
      /\ \A u \in Threads : CallOk(u)
      /\ \A q \in Sessions : SessionOk(q)
  BY DEF EndInv
<1>2. /\ UNCHANGED <<profilerLock, stateLock, singleton, made, enabled, hooks,
                     transports, supervisor, running, fallback, root, stack, above,
                     delivered, over, registered, signals, failed, cut, torn, foreign>>
      /\ isShutdown' = isShutdown \cup {call[t].sess}
      /\ call[t].pc = "mark"
  BY DEF ShutdownMark, At, flush, spans, history
<1>3. /\ call' \in [Threads -> [pc : Pcs, sess : Sessions \cup {None}]]
      /\ \A u \in Threads : call'[u] = [pc |-> IF u = t THEN IF call[t].sess \in enabled THEN "root" ELSE "clear" ELSE call[u].pc,
                                        sess |-> call[u].sess]
  BY <1>1, GotoShape DEF ShutdownMark, Pcs
<1>4. LifeType'
  BY <1>1, <1>2, <1>3 DEF LifeType, CallOk, Setup, Teardown, Closed
<1>5. StackOk' /\ OverOk' /\ (running \subseteq {supervisor})'
  BY <1>1, <1>2 DEF StackOk, OverOk, Closed, LifeType
<1>6. ASSUME NEW u \in Threads PROVE CallOk(u)'
  <2>1. CASE u = t
    BY <1>1, <1>2, <1>3, <2>1 DEF CallOk, SessionOk, LifeType, Setup, Teardown
  <2>2. CASE u # t
    BY <1>1, <1>2, <1>3, <2>2 DEF CallOk, LifeType, Setup, Teardown
  <2> QED
    BY <2>1, <2>2
<1>7. ASSUME NEW q \in Sessions PROVE SessionOk(q)'
  <2>1. SessionOk(q)
    BY <1>1
  <2>2. \A u \in Threads : call[u].sess = q /\ call[u].pc \in Setup =>
           call'[u].sess = q /\ call'[u].pc \in Setup
    BY <1>2, <1>3 DEF Setup
  <2> QED
    BY <1>2, <2>1, <2>2 DEF SessionOk
<1> QED
  BY <1>4, <1>5, <1>6, <1>7 DEF EndInv

LEMMA EndShutdownUninstall ==
    ASSUME EndInv, NEW t \in Threads, ShutdownUninstall(t)
    PROVE  EndInv'
<1> USE LifecycleAssumption
<1>1. /\ LifeType /\ StackOk /\ OverOk /\ running \subseteq {supervisor}
      /\ \A u \in Threads : CallOk(u)
      /\ \A q \in Sessions : SessionOk(q)
  BY DEF EndInv
<1>2. /\ UNCHANGED <<profilerLock, stateLock, singleton, made, enabled, isShutdown,
                     transports, supervisor, running, fallback, root, stack, above,
                     delivered, over, registered, signals, failed, cut, torn, foreign>>
      /\ hooks' = hooks \ {call[t].sess}
      /\ call[t].pc = "uninstall"
  BY DEF ShutdownUninstall, At, flush, spans, history
<1>3. /\ call' \in [Threads -> [pc : Pcs, sess : Sessions \cup {None}]]
      /\ \A u \in Threads : call'[u] = [pc |-> IF u = t THEN "flush" ELSE call[u].pc,
                                        sess |-> call[u].sess]
  BY <1>1, GotoShape DEF ShutdownUninstall, Pcs
<1>4. LifeType'
  BY <1>1, <1>2, <1>3 DEF LifeType, CallOk, Setup, Teardown, Closed
<1>5. StackOk' /\ OverOk' /\ (running \subseteq {supervisor})'
  BY <1>1, <1>2 DEF StackOk, OverOk, Closed, LifeType
<1>6. ASSUME NEW u \in Threads PROVE CallOk(u)'
  BY <1>1, <1>2, <1>3, <1>6 DEF CallOk, LifeType, Setup, Teardown
<1>7. ASSUME NEW q \in Sessions PROVE SessionOk(q)'
  BY <1>1, <1>2, <1>3 DEF SessionOk, LifeType, CallOk, Setup, Teardown
<1> QED
  BY <1>4, <1>5, <1>6, <1>7 DEF EndInv

LEMMA EndShutdownFlush ==
    ASSUME EndInv, NEW t \in Threads, ShutdownFlush(t)
    PROVE  EndInv'
<1> USE LifecycleAssumption
<1>1. /\ LifeType /\ StackOk /\ OverOk /\ running \subseteq {supervisor}
      /\ \A u \in Threads : CallOk(u)
      /\ \A q \in Sessions : SessionOk(q)
  BY DEF EndInv
<1>2. /\ UNCHANGED <<profilerLock, stateLock, singleton, made, enabled, isShutdown,
                     hooks, transports, supervisor, running, fallback, root, stack,
                     above, over, registered, signals, failed, cut, torn, foreign>>
      /\ delivered' = delivered \cup Closed
      /\ call[t].pc = "flush"
  BY DEF ShutdownFlush, At, Flush, session, flush, history
<1>3. /\ call' \in [Threads -> [pc : Pcs, sess : Sessions \cup {None}]]
      /\ \A u \in Threads : call'[u] = [pc |-> IF u = t THEN "stoplock" ELSE call[u].pc,
                                        sess |-> call[u].sess]
  BY <1>1, GotoShape DEF ShutdownFlush, Pcs
<1>4. LifeType'
  BY <1>1, <1>2, <1>3 DEF LifeType, CallOk, Setup, Teardown, Closed
<1>5. StackOk' /\ OverOk' /\ (running \subseteq {supervisor})'
  BY <1>1, <1>2 DEF StackOk, OverOk, Closed, LifeType
<1>6. ASSUME NEW u \in Threads PROVE CallOk(u)'
  <2>1. CASE u = t
    <3>1. call[t].sess \in Sessions /\ (root[call[t].sess] = "closed" => call[t].sess \in Closed)
      BY <1>1, <1>2 DEF CallOk, LifeType, Closed, Setup, Teardown
    <3> QED
      BY <1>1, <1>2, <1>3, <2>1, <3>1 DEF CallOk, SessionOk, Setup, Teardown
  <2>2. CASE u # t
    BY <1>1, <1>2, <1>3, <2>2 DEF CallOk, LifeType, Setup, Teardown
  <2> QED
    BY <2>1, <2>2
<1>7. ASSUME NEW q \in Sessions PROVE SessionOk(q)'
  BY <1>1, <1>2, <1>3 DEF SessionOk, LifeType, CallOk, Setup, Teardown
<1> QED
  BY <1>4, <1>5, <1>6, <1>7 DEF EndInv

LEMMA EndStopLock ==
    ASSUME EndInv, NEW t \in Threads, StopLock(t)
    PROVE  EndInv'
<1> USE LifecycleAssumption
<1>1. /\ LifeType /\ StackOk /\ OverOk /\ running \subseteq {supervisor}
      /\ \A u \in Threads : CallOk(u)
      /\ \A q \in Sessions : SessionOk(q)
  BY DEF EndInv
<1>2. /\ UNCHANGED <<profilerLock, singleton, made, enabled, isShutdown, hooks,
                     transports, supervisor, running, fallback, root, stack, above,
                     delivered, over, registered, signals, failed, cut, torn, foreign>>
      /\ stateLock' = t
      /\ call[t].pc = "stoplock"
  BY DEF StopLock, At, session, flush, spans, history
<1>3. /\ call' \in [Threads -> [pc : Pcs, sess : Sessions \cup {None}]]
      /\ \A u \in Threads : call'[u] = [pc |-> IF u = t THEN "stop" ELSE call[u].pc,
                                        sess |-> call[u].sess]
  BY <1>1, GotoShape DEF StopLock, Pcs
<1>4. LifeType'
  BY <1>1, <1>2, <1>3 DEF LifeType, CallOk, Setup, Teardown, Closed
<1>5. StackOk' /\ OverOk' /\ (running \subseteq {supervisor})'
  BY <1>1, <1>2 DEF StackOk, OverOk, Closed, LifeType
<1>6. ASSUME NEW u \in Threads PROVE CallOk(u)'
  BY <1>1, <1>2, <1>3, <1>6 DEF CallOk, LifeType, Setup, Teardown
<1>7. ASSUME NEW q \in Sessions PROVE SessionOk(q)'
  <2>1. \A u \in Threads : call[u].pc \in Setup => call'[u] = call[u]
    BY <1>1, <1>2, <1>3 DEF LifeType, Setup
  <2> QED
    BY <1>1, <1>2, <2>1 DEF SessionOk
<1> QED
  BY <1>4, <1>5, <1>6, <1>7 DEF EndInv

LEMMA EndStop ==
    ASSUME EndInv, NEW t \in Threads, Stop(t)
    PROVE  EndInv'
<1> USE LifecycleAssumption
<1>1. /\ LifeType /\ StackOk /\ OverOk /\ running \subseteq {supervisor}
      /\ \A u \in Threads : CallOk(u)
      /\ \A q \in Sessions : SessionOk(q)
  BY DEF EndInv
<1>2. /\ UNCHANGED <<profilerLock, singleton, made, enabled, isShutdown, hooks,
                     transports, fallback, root, stack, above, delivered, over,
                     registered, signals, failed, cut, torn, foreign>>
      /\ running' = running \ {supervisor}
      /\ supervisor' = None
      /\ stateLock' = None
      /\ call[t].pc = "stop"
  BY DEF Stop, At, session, spans, history
<1>3. /\ call' \in [Threads -> [pc : Pcs, sess : Sessions \cup {None}]]
      /\ \A u \in Threads : call'[u] = [pc |-> IF u = t THEN "close" ELSE call[u].pc,
                                        sess |-> call[u].sess]
  BY <1>1, GotoShape DEF Stop, Pcs
<1>4. LifeType'
  BY <1>1, <1>2, <1>3 DEF LifeType, CallOk, Setup, Teardown, Closed
<1>5. StackOk' /\ OverOk' /\ (running \subseteq {supervisor})'
  BY <1>1, <1>2 DEF StackOk, OverOk, Closed, LifeType
<1>6. ASSUME NEW u \in Threads PROVE CallOk(u)'
  BY <1>1, <1>2, <1>3, <1>6 DEF CallOk, LifeType, Setup, Teardown
<1>7. ASSUME NEW q \in Sessions PROVE SessionOk(q)'
  BY <1>1, <1>2, <1>3 DEF SessionOk, LifeType, CallOk, Setup, Teardown
<1> QED
  BY <1>4, <1>5, <1>6, <1>7 DEF EndInv

LEMMA EndShutdownClose ==
    ASSUME EndInv, NEW t \in Threads, ShutdownClose(t)
    PROVE  EndInv'
<1> USE LifecycleAssumption
<1>1. /\ LifeType /\ StackOk /\ OverOk /\ running \subseteq {supervisor}
      /\ \A u \in Threads : CallOk(u)
      /\ \A q \in Sessions : SessionOk(q)
  BY DEF EndInv
<1>2. /\ UNCHANGED <<profilerLock, stateLock, singleton, made, enabled, isShutdown,
                     hooks, supervisor, running, fallback, root, stack, above,
                     delivered, over, registered, signals, failed, cut, torn, foreign>>
      /\ transports' = transports \ {call[t].sess}
      /\ call[t].pc = "close"
  BY DEF ShutdownClose, At, flush, spans, history
<1>3. /\ call' \in [Threads -> [pc : Pcs, sess : Sessions \cup {None}]]
      /\ \A u \in Threads : call'[u] = [pc |-> IF u = t THEN "clear" ELSE call[u].pc,
                                        sess |-> call[u].sess]
  BY <1>1, GotoShape DEF ShutdownClose, Pcs
<1>4. LifeType'
  BY <1>1, <1>2, <1>3 DEF LifeType, CallOk, Setup, Teardown, Closed
<1>5. StackOk' /\ OverOk' /\ (running \subseteq {supervisor})'
  BY <1>1, <1>2 DEF StackOk, OverOk, Closed, LifeType
<1>6. ASSUME NEW u \in Threads PROVE CallOk(u)'
  BY <1>1, <1>2, <1>3, <1>6 DEF CallOk, LifeType, Setup, Teardown
<1>7. ASSUME NEW q \in Sessions PROVE SessionOk(q)'
  BY <1>1, <1>2, <1>3 DEF SessionOk, LifeType, CallOk, Setup, Teardown
<1> QED
  BY <1>4, <1>5, <1>6, <1>7 DEF EndInv

LEMMA EndShutdownClear ==
    ASSUME EndInv, NEW t \in Threads, ShutdownClear(t)
    PROVE  EndInv'
<1> USE LifecycleAssumption
<1>1. /\ LifeType /\ StackOk /\ OverOk /\ running \subseteq {supervisor}
      /\ \A u \in Threads : CallOk(u)
      /\ \A q \in Sessions : SessionOk(q)
  BY DEF EndInv
<1>2. /\ UNCHANGED <<profilerLock, stateLock, made, enabled, isShutdown, hooks,
                     transports, supervisor, running, fallback, root, stack, above,
                     delivered, over, registered, signals, failed, cut, foreign>>
      /\ singleton' = IF singleton = call[t].sess THEN None ELSE singleton
      /\ torn' = torn \cup {call[t].sess}
      /\ call[t].pc = "clear"
  BY DEF ShutdownClear, At, session, flush, spans
<1>3. /\ call' \in [Threads -> [pc : Pcs, sess : Sessions \cup {None}]]
      /\ \A u \in Threads : call'[u] = IF u = t THEN [pc |-> "away", sess |-> None]
                                        ELSE call[u]
  BY <1>1, ReturnShape DEF ShutdownClear, Pcs
<1>4. LifeType'
  BY <1>1, <1>2, <1>3 DEF LifeType, CallOk, Setup, Teardown, Closed
<1>5. StackOk' /\ OverOk' /\ (running \subseteq {supervisor})'
  BY <1>1, <1>2 DEF StackOk, OverOk, Closed, LifeType
<1>6. ASSUME NEW u \in Threads PROVE CallOk(u)'
  BY <1>1, <1>2, <1>3, <1>6 DEF CallOk, LifeType, Setup, Teardown
<1>7. ASSUME NEW q \in Sessions PROVE SessionOk(q)'
  BY <1>1, <1>2, <1>3 DEF SessionOk, LifeType, CallOk, Setup, Teardown
<1> QED
  BY <1>4, <1>5, <1>6, <1>7 DEF EndInv

LEMMA EndSignalArrives ==
    ASSUME EndInv, SignalArrives
    PROVE  EndInv'
<1> USE LifecycleAssumption
<1>1. /\ LifeType /\ StackOk /\ OverOk /\ running \subseteq {supervisor}
      /\ \A u \in Threads : CallOk(u)
      /\ \A q \in Sessions : SessionOk(q)
  BY DEF EndInv
<1>2. /\ UNCHANGED <<profilerLock, stateLock, singleton, made, enabled, isShutdown,
                     hooks, transports, supervisor, running, fallback, root, stack,
                     above, delivered, call, registered, failed, cut, torn, foreign>>
      /\ over' = [pc |-> "flush", cause |-> "signal", before |-> Closed]
      /\ signals' = signals + 1
  BY DEF SignalArrives, session, flush, spans, history
<1>4. LifeType'
  BY <1>1, <1>2 DEF LifeType, CallOk, Setup, Teardown, Closed, SignalArrives
<1>5. StackOk' /\ OverOk' /\ (running \subseteq {supervisor})'
  BY <1>1, <1>2 DEF StackOk, OverOk, Closed, LifeType
<1>6. ASSUME NEW u \in Threads PROVE CallOk(u)'
  BY <1>1, <1>2, <1>6 DEF CallOk, LifeType, Setup, Teardown
<1>7. ASSUME NEW q \in Sessions PROVE SessionOk(q)'
  BY <1>1, <1>2 DEF SessionOk, LifeType, CallOk, Setup, Teardown
<1> QED
  BY <1>4, <1>5, <1>6, <1>7 DEF EndInv

LEMMA EndExitBegin ==
    ASSUME EndInv, ExitBegin
    PROVE  EndInv'
<1> USE LifecycleAssumption
<1>1. /\ LifeType /\ StackOk /\ OverOk /\ running \subseteq {supervisor}
      /\ \A u \in Threads : CallOk(u)
      /\ \A q \in Sessions : SessionOk(q)
  BY DEF EndInv
<1>2. /\ UNCHANGED <<profilerLock, stateLock, singleton, made, enabled, isShutdown,
                     hooks, transports, supervisor, running, fallback, root, stack,
                     above, delivered, call, registered, signals, failed, cut, torn,
                     foreign>>
      /\ over' = [pc |-> "clear", cause |-> "exit", before |-> Closed]
  BY DEF ExitBegin, session, flush, spans, history
<1>4. LifeType'
  BY <1>1, <1>2 DEF LifeType, CallOk, Setup, Teardown, Closed, ExitBegin
<1>5. StackOk' /\ OverOk' /\ (running \subseteq {supervisor})'
  BY <1>1, <1>2 DEF StackOk, OverOk, Closed, LifeType
<1>6. ASSUME NEW u \in Threads PROVE CallOk(u)'
  BY <1>1, <1>2, <1>6 DEF CallOk, LifeType, Setup, Teardown
<1>7. ASSUME NEW q \in Sessions PROVE SessionOk(q)'
  BY <1>1, <1>2 DEF SessionOk, LifeType, CallOk, Setup, Teardown
<1> QED
  BY <1>4, <1>5, <1>6, <1>7 DEF EndInv

LEMMA EndExitClear ==
    ASSUME EndInv, ExitClear
    PROVE  EndInv'
<1> USE LifecycleAssumption
<1>1. /\ LifeType /\ StackOk /\ OverOk /\ running \subseteq {supervisor}
      /\ \A u \in Threads : CallOk(u)
      /\ \A q \in Sessions : SessionOk(q)
  BY DEF EndInv
<1>2. /\ UNCHANGED <<profilerLock, stateLock, made, enabled, isShutdown, hooks,
                     transports, supervisor, running, fallback, root, stack, above,
                     delivered, call, registered, signals, failed, cut, torn, foreign>>
      /\ singleton' = None
      /\ over' = [over EXCEPT !.pc = "flush"]
  BY DEF ExitClear, session, flush, spans, history
<1>4. LifeType'
  BY <1>1, <1>2 DEF LifeType, CallOk, Setup, Teardown, Closed, ExitClear
<1>5. StackOk' /\ OverOk' /\ (running \subseteq {supervisor})'
  BY <1>1, <1>2 DEF StackOk, OverOk, Closed, LifeType
<1>6. ASSUME NEW u \in Threads PROVE CallOk(u)'
  BY <1>1, <1>2, <1>6 DEF CallOk, LifeType, Setup, Teardown
<1>7. ASSUME NEW q \in Sessions PROVE SessionOk(q)'
  BY <1>1, <1>2 DEF SessionOk, LifeType, CallOk, Setup, Teardown
<1> QED
  BY <1>4, <1>5, <1>6, <1>7 DEF EndInv

LEMMA EndHandlerFlush ==
    ASSUME EndInv, HandlerFlush
    PROVE  EndInv'
<1> USE LifecycleAssumption
<1>1. /\ LifeType /\ StackOk /\ OverOk /\ running \subseteq {supervisor}
      /\ \A u \in Threads : CallOk(u)
      /\ \A q \in Sessions : SessionOk(q)
  BY DEF EndInv
<1>2. /\ UNCHANGED <<profilerLock, stateLock, singleton, made, enabled, isShutdown,
                     hooks, transports, supervisor, running, fallback, root, stack,
                     above, call, registered, signals, failed, cut, torn, foreign>>
      /\ delivered' = delivered \cup Closed
      /\ over' = [over EXCEPT !.pc = "stop"]
  BY DEF HandlerFlush, Flush, session, flush, history
<1>4. LifeType'
  BY <1>1, <1>2 DEF LifeType, CallOk, Setup, Teardown, Closed, HandlerFlush
<1>5. StackOk' /\ OverOk' /\ (running \subseteq {supervisor})'
  BY <1>1, <1>2 DEF StackOk, OverOk, Closed, LifeType
<1>6. ASSUME NEW u \in Threads PROVE CallOk(u)'
  BY <1>1, <1>2, <1>6 DEF CallOk, LifeType, Setup, Teardown
<1>7. ASSUME NEW q \in Sessions PROVE SessionOk(q)'
  BY <1>1, <1>2 DEF SessionOk, LifeType, CallOk, Setup, Teardown
<1> QED
  BY <1>4, <1>5, <1>6, <1>7 DEF EndInv

LEMMA EndHandlerStop ==
    ASSUME EndInv, HandlerStop
    PROVE  EndInv'
<1> USE LifecycleAssumption
<1>1. /\ LifeType /\ StackOk /\ OverOk /\ running \subseteq {supervisor}
      /\ \A u \in Threads : CallOk(u)
      /\ \A q \in Sessions : SessionOk(q)
  BY DEF EndInv
<1>2. /\ UNCHANGED <<profilerLock, stateLock, singleton, made, enabled, isShutdown,
                     hooks, transports, fallback, root, stack, above, delivered, call,
                     registered, signals, failed, cut, torn, foreign>>
      /\ running' = running \ {supervisor}
      /\ supervisor' = None
      /\ over' = [over EXCEPT !.pc = IF over.cause = "exit" THEN "gone" ELSE "chain"]
      /\ over.pc = "stop"
  BY DEF HandlerStop, session, spans, history
<1>4. LifeType'
  <2>1. over' \in [pc : {"none", "clear", "flush", "stop", "chain", "gone"},
                   cause : {"signal", "exit"}, before : SUBSET Sessions]
    BY <1>1, <1>2 DEF LifeType
  <2>2. running' \in SUBSET Sessions /\ supervisor' \in Sessions \cup {None}
    BY <1>1, <1>2 DEF LifeType
  <2> QED
    BY <1>1, <1>2, <2>1, <2>2 DEF LifeType
<1>5. StackOk' /\ OverOk' /\ (running \subseteq {supervisor})'
  BY <1>1, <1>2 DEF StackOk, OverOk, Closed, LifeType
<1>6. ASSUME NEW u \in Threads PROVE CallOk(u)'
  BY <1>1, <1>2, <1>6 DEF CallOk, LifeType, Setup, Teardown
<1>7. ASSUME NEW q \in Sessions PROVE SessionOk(q)'
  BY <1>1, <1>2 DEF SessionOk, LifeType, CallOk, Setup, Teardown
<1> QED
  BY <1>4, <1>5, <1>6, <1>7 DEF EndInv

LEMMA EndTick ==
    ASSUME EndInv, Tick
    PROVE  EndInv'
<1> USE LifecycleAssumption
<1>1. /\ LifeType /\ StackOk /\ OverOk /\ running \subseteq {supervisor}
      /\ \A u \in Threads : CallOk(u)
      /\ \A q \in Sessions : SessionOk(q)
  BY DEF EndInv
<1>2. /\ UNCHANGED <<profilerLock, stateLock, singleton, made, enabled, isShutdown,
                     hooks, transports, supervisor, running, fallback, root, stack,
                     above, call, over, registered, signals, failed, cut, torn, foreign>>
      /\ delivered' = delivered \cup Closed
  BY DEF Tick, Flush, session, flush, history
<1>4. LifeType'
  BY <1>1, <1>2 DEF LifeType, CallOk, Setup, Teardown, Closed, Tick
<1>5. StackOk' /\ OverOk' /\ (running \subseteq {supervisor})'
  BY <1>1, <1>2 DEF StackOk, OverOk, Closed, LifeType
<1>6. ASSUME NEW u \in Threads PROVE CallOk(u)'
  BY <1>1, <1>2, <1>6 DEF CallOk, LifeType, Setup, Teardown
<1>7. ASSUME NEW q \in Sessions PROVE SessionOk(q)'
  BY <1>1, <1>2 DEF SessionOk, LifeType, CallOk, Setup, Teardown
<1> QED
  BY <1>4, <1>5, <1>6, <1>7 DEF EndInv


LEMMA EndProfileBegin ==
    ASSUME EndInv, NEW t \in Threads, NEW p \in Sessions, ProfileBegin(t, p)
    PROVE  EndInv'
<1> USE LifecycleAssumption
<1>1. /\ LifeType /\ StackOk /\ OverOk /\ running \subseteq {supervisor}
      /\ \A u \in Threads : CallOk(u)
      /\ \A q \in Sessions : SessionOk(q)
  BY DEF EndInv
<1>2. /\ UNCHANGED <<stateLock, enabled, isShutdown, hooks, transports, supervisor, running,
                     fallback, root, stack, above, delivered, over, registered, signals,
                     failed, cut, torn, foreign>>
      /\ call[t].pc = "away" /\ profilerLock = None /\ singleton = None
      /\ p \notin made \cup failed /\ \A u \in Threads : call[u].sess # p
  BY DEF ProfileBegin, At, flush, spans, history
<1>3. CASE profilerLock' = t /\ Begin(t, "install", p) /\ UNCHANGED <<singleton, made>>
  <2>1. /\ call' \in [Threads -> [pc : Pcs, sess : Sessions \cup {None}]]
        /\ \A u \in Threads : call'[u] = IF u = t THEN [pc |-> "install", sess |-> p]
                                         ELSE call[u]
    BY <1>1, <1>3, BeginShape DEF Pcs
  <2>2. LifeType' /\ StackOk' /\ OverOk' /\ (running \subseteq {supervisor})'
    BY <1>1, <1>2, <1>3, <2>1 DEF LifeType, StackOk, OverOk, Closed
  <2>3. p \notin hooks \cup transports /\ supervisor # p
    BY <1>1, <1>2 DEF SessionOk
  <2>4. ASSUME NEW u \in Threads PROVE CallOk(u)'
    BY <1>1, <1>2, <1>3, <2>1, <2>3 DEF CallOk, Setup, Teardown
  <2>5. ASSUME NEW q \in Sessions PROVE SessionOk(q)'
    BY <1>1, <1>2, <1>3, <2>1 DEF SessionOk, Setup
  <2> QED
    BY <2>2, <2>4, <2>5 DEF EndInv
<1>4. CASE made' = made \cup {p} /\ singleton' = p /\ UNCHANGED <<profilerLock, call>>
  <2>1. LifeType' /\ StackOk' /\ OverOk' /\ (running \subseteq {supervisor})'
    BY <1>1, <1>2, <1>4 DEF LifeType, StackOk, OverOk, Closed
  <2>2. p \notin hooks \cup transports /\ supervisor # p
    BY <1>1, <1>2 DEF SessionOk
  <2>3. ASSUME NEW u \in Threads PROVE CallOk(u)'
    BY <1>1, <1>2, <1>4, <2>3 DEF CallOk, Setup, Teardown
  <2>4. ASSUME NEW q \in Sessions PROVE SessionOk(q)'
    BY <1>1, <1>2, <1>4, <2>2 DEF SessionOk, LifeType
  <2> QED
    BY <2>1, <2>3, <2>4 DEF EndInv
<1> QED
  BY <1>3, <1>4 DEF ProfileBegin

LEMMA EndProfilePublish ==
    ASSUME EndInv, NEW t \in Threads, ProfilePublish(t)
    PROVE  EndInv'
<1> USE LifecycleAssumption
<1>1. /\ LifeType /\ StackOk /\ OverOk /\ running \subseteq {supervisor}
      /\ \A u \in Threads : CallOk(u)
      /\ \A q \in Sessions : SessionOk(q)
  BY DEF EndInv
<1>2. PICK p : p = call[t].sess
  OBVIOUS
<1>3. /\ UNCHANGED <<stateLock, isShutdown, hooks, transports, supervisor, running,
                     delivered, over, registered, signals, failed, cut, torn, foreign>>
      /\ root' = [root EXCEPT ![p] = "open"] /\ fallback' = p /\ singleton' = p
      /\ stack' = [stack EXCEPT ![t] = Append(stack[t], p)]
      /\ made' = made \cup {p} /\ enabled' = enabled \cup {p} /\ profilerLock' = None
      /\ call[t].pc = "publish"
  BY <1>2 DEF ProfilePublish, At, flush, history
<1>4. /\ call' \in [Threads -> [pc : Pcs, sess : Sessions \cup {None}]]
      /\ \A u \in Threads : call'[u] = IF u = t THEN [pc |-> "away", sess |-> None]
                                       ELSE call[u]
  BY <1>1, ReturnShape DEF ProfilePublish
<1>5. /\ p \in Sessions \ made /\ p \notin failed /\ profilerLock = t
      /\ p \in hooks /\ p \in transports /\ root[p] = "none"
  BY <1>1, <1>2, <1>3 DEF LifeType, CallOk, SessionOk, Setup
<1>6. /\ stack[t] \in Seq(Sessions) /\ Len(stack[t]) \in Nat
      /\ Append(stack[t], p) \in Seq(Sessions)
      /\ Len(Append(stack[t], p)) = Len(stack[t]) + 1
      /\ \A i \in 1..Len(stack[t]) + 1 :
            Append(stack[t], p)[i] = IF i <= Len(stack[t]) THEN stack[t][i] ELSE p
  BY <1>1, <1>5 DEF LifeType
<1>7. /\ root' \in [Sessions -> {"none", "open", "closed"}]
      /\ \A q \in Sessions : root'[q] = IF q = p THEN "open" ELSE root[q]
  BY <1>1, <1>3, <1>5 DEF LifeType
<1>8. LifeType'
  <2>1. stack' \in [Threads -> Seq(Sessions)]
    BY <1>1, <1>3, <1>6 DEF LifeType
  <2> QED
    BY <1>1, <1>3, <1>4, <1>5, <1>7, <2>1 DEF LifeType
<1>9. StackOk'
  <2> SUFFICES ASSUME NEW u \in Threads, NEW i \in 1..Len(stack'[u])
               PROVE  root'[stack'[u][i]] # "none"
    BY DEF StackOk
  <2>1. CASE u = t
    <3>1. stack'[t] = Append(stack[t], p)
      BY <1>1, <1>3 DEF LifeType
    <3>2. CASE i <= Len(stack[t])
      <4>1. i \in 1..Len(stack[t]) /\ stack'[u][i] = stack[t][i]
        BY <1>6, <2>1, <3>1, <3>2
      <4>2. stack[t][i] \in Sessions /\ root[stack[t][i]] # "none"
        BY <1>1, <1>6, <4>1, ElementOfSeq DEF StackOk
      <4> QED
        BY <1>7, <4>1, <4>2
    <3>3. CASE ~ (i <= Len(stack[t]))
      BY <1>5, <1>6, <1>7, <2>1, <3>1, <3>3
    <3> QED
      BY <3>2, <3>3
  <2>2. CASE u # t
    <3>1. stack'[u] = stack[u] /\ stack[u] \in Seq(Sessions)
      BY <1>1, <1>3, <2>2 DEF LifeType
    <3>2. stack[u][i] \in Sessions /\ root[stack[u][i]] # "none"
      BY <1>1, <3>1, ElementOfSeq DEF StackOk
    <3> QED
      BY <1>7, <3>1, <3>2
  <2> QED
    BY <2>1, <2>2
<1>10. OverOk' /\ (running \subseteq {supervisor})'
  <2>1. Closed \subseteq Closed'
    BY <1>5, <1>7 DEF Closed
  <2> QED
    BY <1>1, <1>3, <2>1 DEF OverOk
<1>11. ASSUME NEW u \in Threads PROVE CallOk(u)'
  <2>1. CASE u = t
    BY <1>4, <2>1 DEF CallOk, Setup, Teardown
  <2>2. CASE u # t
    <3>1. call'[u] = call[u] /\ call[u].pc \notin Setup /\ CallOk(u)
      BY <1>1, <1>4, <1>5, <2>2 DEF CallOk
    <3>2. call[u].pc \in Teardown => call[u].sess \in made /\ call[u].sess \in Sessions
      BY <1>1, <3>1 DEF CallOk, LifeType
    <3>3. call[u].pc \in Teardown \cup {"away"}
      BY <1>1, <3>1 DEF LifeType, Pcs, Setup, Teardown
    <3> QED
      BY <1>3, <1>5, <1>7, <3>1, <3>2, <3>3 DEF CallOk, Setup, Teardown
  <2> QED
    BY <2>1, <2>2
<1>12. ASSUME NEW q \in Sessions PROVE SessionOk(q)'
  <2>1. CASE q = p
    BY <1>1, <1>3, <1>5, <1>7, <2>1 DEF SessionOk, LifeType
  <2>2. CASE q # p
    <3>1. \A u \in Threads : call[u].sess = q => call'[u] = call[u]
      BY <1>2, <1>4, <2>2
    <3>2. /\ root'[q] = root[q] /\ q # fallback' /\ q # singleton'
          /\ q \in made' <=> q \in made
          /\ q \in enabled' <=> q \in enabled
      BY <1>3, <1>7, <2>2
    <3>3. SessionOk(q)
      BY <1>1
    <3> QED
      BY <1>3, <3>1, <3>2, <3>3 DEF SessionOk
  <2> QED
    BY <2>1, <2>2
<1> QED
  BY <1>8, <1>9, <1>10, <1>11, <1>12 DEF EndInv

\* What ShutdownRoot does to the roots and to the stack of the thread.
LEMMA RootEffect ==
    ASSUME LifeType, StackOk, NEW t \in Threads, ShutdownRoot(t),
           NEW p \in Sessions, p = call[t].sess
    PROVE  /\ root' \in [Sessions -> {"none", "open", "closed"}]
           /\ stack' \in [Threads -> Seq(Sessions)]
           /\ \A q \in Sessions : root'[q] \in {root[q], "closed"}
           /\ \A q \in Sessions : root'[q] # root[q] => q = p \/ root[q] # "none"
           /\ root'[p] = "closed"
           /\ \A u \in Threads : Len(stack'[u]) <= Len(stack[u])
           /\ \A u \in Threads : \A i \in 1..Len(stack'[u]) : stack'[u][i] = stack[u][i]
           /\ foreign \subseteq foreign'
<1>1. /\ root \in [Sessions -> {"none", "open", "closed"}]
      /\ stack \in [Threads -> Seq(Sessions)]
      /\ stack[t] \in Seq(Sessions) /\ Len(stack[t]) \in Nat
      /\ \A u \in Threads : Len(stack[u]) \in Nat
  BY DEF LifeType
<1> DEFINE place == {i \in 1..Len(stack[t]) : stack[t][i] = p}
<1>2. CASE place = {}
  <2>1. root' = [root EXCEPT ![p] = "closed"] /\ stack' = stack /\ foreign' = foreign \cup {p}
    BY <1>2 DEF ShutdownRoot
  <2> QED
    BY <1>1, <2>1
<1>3. CASE place # {}
  <2>1. PICK i \in place :
          /\ root' = [q \in Sessions |->
                IF \E j \in i..Len(stack[t]) : stack[t][j] = q THEN "closed" ELSE root[q]]
          /\ stack' = [stack EXCEPT ![t] = SubSeq(stack[t], 1, i - 1)]
          /\ foreign' = foreign
    BY <1>3 DEF ShutdownRoot
  <2>2. i \in 1..Len(stack[t]) /\ stack[t][i] = p
    OBVIOUS
  <2>3. /\ SubSeq(stack[t], 1, i - 1) \in Seq(Sessions)
        /\ Len(SubSeq(stack[t], 1, i - 1)) = i - 1
        /\ \A j \in 1..i - 1 : SubSeq(stack[t], 1, i - 1)[j] = stack[t][j]
    BY <1>1, <2>2
  <2>4. stack' \in [Threads -> Seq(Sessions)]
    BY <1>1, <2>1, <2>3
  <2>5. \A u \in Threads : stack'[u] = IF u = t THEN SubSeq(stack[t], 1, i - 1) ELSE stack[u]
    BY <1>1, <2>1
  <2>6. ASSUME NEW u \in Threads
        PROVE  /\ Len(stack'[u]) <= Len(stack[u])
               /\ \A j \in 1..Len(stack'[u]) : stack'[u][j] = stack[u][j]
    <3>1. CASE u = t
      <4> DEFINE short == SubSeq(stack[t], 1, i - 1)
      <4>1. stack'[u] = short
        BY <2>5, <3>1
      <4>2. Len(short) = i - 1 /\ \A j \in 1..i - 1 : short[j] = stack[t][j]
        BY <2>3
      <4> HIDE DEF short
      <4> QED
        BY <1>1, <2>2, <3>1, <4>1, <4>2
    <3>2. CASE u # t
      <4>1. stack'[u] = stack[u] /\ Len(stack[u]) \in Nat
        BY <1>1, <2>5, <3>2
      <4> QED
        BY <4>1
    <3> QED
      BY <3>1, <3>2
  <2>7. /\ root' \in [Sessions -> {"none", "open", "closed"}]
        /\ \A q \in Sessions : root'[q] \in {root[q], "closed"}
    BY <1>1, <2>1
  <2>8. root'[p] = "closed"
    BY <1>1, <2>1, <2>2
  <2>9. ASSUME NEW q \in Sessions, root'[q] # root[q] PROVE root[q] # "none"
    <3>1. PICK j \in i..Len(stack[t]) : stack[t][j] = q
      BY <2>1, <2>9
    <3>2. j \in 1..Len(stack[t])
      BY <1>1, <2>2
    <3> QED
      BY <3>1, <3>2 DEF StackOk
  <2> QED
    BY <2>1, <2>4, <2>6, <2>7, <2>8, <2>9
<1> QED
  BY <1>2, <1>3

LEMMA EndShutdownRoot ==
    ASSUME EndInv, NEW t \in Threads, ShutdownRoot(t)
    PROVE  EndInv'
<1> USE LifecycleAssumption
<1>1. /\ LifeType /\ StackOk /\ OverOk /\ running \subseteq {supervisor}
      /\ \A u \in Threads : CallOk(u)
      /\ \A q \in Sessions : SessionOk(q)
  BY DEF EndInv
<1>2. /\ UNCHANGED <<profilerLock, stateLock, singleton, made, enabled, isShutdown, hooks,
                     transports, supervisor, running, above, delivered, over, registered,
                     signals, failed, cut, torn>>
      /\ fallback' = None /\ call[t].pc = "root"
  BY DEF ShutdownRoot, At, session, flush
<1>3. /\ call' \in [Threads -> [pc : Pcs, sess : Sessions \cup {None}]]
      /\ \A u \in Threads : call'[u] = [pc |-> IF u = t THEN "uninstall" ELSE call[u].pc,
                                        sess |-> call[u].sess]
  BY <1>1, GotoShape DEF ShutdownRoot, Pcs
<1>4. PICK p \in Sessions : p = call[t].sess /\ p \in enabled /\ p \in isShutdown
  BY <1>1, <1>2 DEF CallOk, LifeType, Teardown
<1>5. /\ root' \in [Sessions -> {"none", "open", "closed"}]
      /\ stack' \in [Threads -> Seq(Sessions)]
      /\ \A q \in Sessions : root'[q] \in {root[q], "closed"}
      /\ \A q \in Sessions : root'[q] # root[q] => root[q] # "none"
      /\ root'[p] = "closed"
      /\ \A u \in Threads : Len(stack'[u]) <= Len(stack[u])
      /\ \A u \in Threads : \A i \in 1..Len(stack'[u]) : stack'[u][i] = stack[u][i]
  BY <1>1, <1>4, RootEffect DEF SessionOk
<1>6. LifeType'
  BY <1>1, <1>2, <1>3, <1>5 DEF LifeType
<1>7. StackOk'
  <2> SUFFICES ASSUME NEW u \in Threads, NEW i \in 1..Len(stack'[u])
               PROVE  root'[stack'[u][i]] # "none"
    BY DEF StackOk
  <2>1. stack[u] \in Seq(Sessions) /\ stack'[u] \in Seq(Sessions)
    BY <1>1, <1>5 DEF LifeType
  <2>2. Len(stack[u]) \in Nat /\ Len(stack'[u]) \in Nat /\ Len(stack'[u]) <= Len(stack[u])
    BY <1>5, <2>1
  <2>3. i \in 1..Len(stack[u]) /\ stack'[u][i] = stack[u][i]
    BY <1>5, <2>2
  <2>4. stack[u][i] \in Sessions /\ root[stack[u][i]] # "none"
    BY <1>1, <2>1, <2>3, ElementOfSeq DEF StackOk
  <2> QED
    BY <1>5, <2>3, <2>4
<1>8. OverOk' /\ (running \subseteq {supervisor})'
  <2>1. Closed \subseteq Closed'
    BY <1>5 DEF Closed
  <2> QED
    BY <1>1, <1>2, <2>1 DEF OverOk
<1>9. \A q \in Sessions : root[q] = "none" <=> root'[q] = "none"
  BY <1>5
<1>10. \A q \in Sessions : root[q] = "closed" => root'[q] = "closed"
  BY <1>5
<1>11. ASSUME NEW u \in Threads PROVE CallOk(u)'
  <2>1. call[u].pc # "away" => call[u].sess \in Sessions
    BY <1>1 DEF CallOk, LifeType
  <2>2. CASE u = t
    BY <1>1, <1>2, <1>3, <1>4, <1>5, <1>9, <2>1, <2>2 DEF CallOk, Setup, Teardown
  <2>3. CASE u # t
    <3>1. call'[u] = call[u] /\ call[u].pc \in Pcs /\ CallOk(u)
      BY <1>1, <1>3, <2>3 DEF LifeType
    <3> QED
      BY <1>2, <1>9, <1>10, <2>1, <3>1 DEF CallOk, Setup, Teardown, Pcs
  <2> QED
    BY <2>2, <2>3
<1>12. ASSUME NEW q \in Sessions PROVE SessionOk(q)'
  BY <1>1, <1>2, <1>3, <1>4, <1>9 DEF SessionOk, Setup
<1> QED
  BY <1>6, <1>7, <1>8, <1>11, <1>12 DEF EndInv

LEMMA EndHandlerChain == ASSUME EndInv, HandlerChain PROVE EndInv'
<1>1. /\ LifeType /\ StackOk /\ OverOk /\ running \subseteq {supervisor}
      /\ \A u \in Threads : CallOk(u)
      /\ \A q \in Sessions : SessionOk(q)
  BY DEF EndInv
<1>2. /\ UNCHANGED <<profilerLock, stateLock, singleton, made, enabled, isShutdown, hooks,
                     transports, supervisor, running, fallback, root, stack, above,
                     delivered, call, registered, signals, failed, cut, torn, foreign>>
      /\ over.pc = "chain" /\ over' \in {NoHandler, [over EXCEPT !.pc = "gone"]}
  BY DEF HandlerChain, session, flush, spans, history
<1>3. LifeType'
  BY <1>1, <1>2 DEF LifeType, NoHandler
<1>4. StackOk' /\ OverOk' /\ (running \subseteq {supervisor})'
  BY <1>1, <1>2 DEF StackOk, OverOk, Closed, LifeType, NoHandler
<1>5. ASSUME NEW u \in Threads PROVE CallOk(u)'
  BY <1>1, <1>2, <1>5 DEF CallOk
<1>6. ASSUME NEW q \in Sessions PROVE SessionOk(q)'
  BY <1>1, <1>2 DEF SessionOk
<1> QED
  BY <1>3, <1>4, <1>5, <1>6 DEF EndInv

LEMMA EndHandlerInterrupts == ASSUME EndInv, HandlerInterrupts PROVE EndInv'
<1> USE LifecycleAssumption
<1>1. /\ LifeType /\ StackOk /\ OverOk /\ running \subseteq {supervisor}
      /\ \A u \in Threads : CallOk(u)
      /\ \A q \in Sessions : SessionOk(q)
  BY DEF EndInv
<1>2. /\ UNCHANGED <<stateLock, singleton, made, enabled, isShutdown, hooks, transports,
                     supervisor, running, fallback, root, stack, above, delivered,
                     registered, signals, torn, foreign>>
      /\ over' = NoHandler
      /\ profilerLock' = IF profilerLock = Main THEN None ELSE profilerLock
      /\ failed' = IF call[Main].sess \notin made \cup {None}
                   THEN failed \cup {call[Main].sess} ELSE failed
  BY DEF HandlerInterrupts, session, flush, spans
<1>3. /\ call' \in [Threads -> [pc : Pcs, sess : Sessions \cup {None}]]
      /\ \A u \in Threads : call'[u] = IF u = Main THEN [pc |-> "away", sess |-> None]
                                       ELSE call[u]
  BY <1>1, ReturnShape DEF HandlerInterrupts
<1>4. call[Main].sess \notin made \cup {None} => profilerLock = Main
  BY <1>1 DEF CallOk, LifeType, Pcs, Setup, Teardown
<1>5. LifeType'
  BY <1>1, <1>2, <1>3 DEF LifeType, NoHandler
<1>6. StackOk' /\ OverOk' /\ (running \subseteq {supervisor})'
  BY <1>1, <1>2 DEF StackOk, OverOk, Closed, NoHandler
<1>7. ASSUME NEW u \in Threads PROVE CallOk(u)'
  BY <1>1, <1>2, <1>3, <1>4, <1>7 DEF CallOk, Setup, Teardown
<1>8. ASSUME NEW q \in Sessions PROVE SessionOk(q)'
  BY <1>1, <1>2, <1>3 DEF SessionOk
<1> QED
  BY <1>5, <1>6, <1>7, <1>8 DEF EndInv

\* TornDownWhole and ExitDelivers are preserved by every step.
LEMMA EndStep == ASSUME EndInv, [Next]_vars PROVE EndInv'
<1>1. ASSUME NEW t \in Threads, ProfileStep(t) PROVE EndInv'
  BY <1>1, EndProfileInstall, EndStartLock, EndStart, EndStartUnlock, EndStartRaises,
     EndProfilePublish DEF ProfileStep
<1>2. ASSUME NEW t \in Threads, ShutdownStep(t) PROVE EndInv'
  BY <1>2, EndShutdownMark, EndShutdownRoot, EndShutdownUninstall, EndShutdownFlush,
     EndStopLock, EndStop, EndShutdownClose, EndShutdownClear DEF ShutdownStep
<1>3. ASSUME NEW t \in Threads, NEW p \in Sessions, ProfileBegin(t, p) PROVE EndInv'
  BY <1>3, EndProfileBegin
<1>4. ASSUME NEW t \in Threads, NEW p \in Sessions, ShutdownTest(t, p) PROVE EndInv'
  BY <1>4, EndShutdownTest
<1>5. ASSUME HandlerStep PROVE EndInv'
  BY <1>5, EndExitClear, EndHandlerFlush, EndHandlerStop, EndHandlerChain,
     EndHandlerInterrupts DEF HandlerStep
<1>6. ASSUME SignalArrives \/ ExitBegin \/ Tick PROVE EndInv'
  BY <1>6, EndSignalArrives, EndExitBegin, EndTick
<1>7. CASE UNCHANGED vars
  <2>1. UNCHANGED <<profilerLock, stateLock, singleton, made, enabled, isShutdown, hooks,
                    transports, supervisor, running, fallback, root, stack, above,
                    delivered, call, over, registered, signals, failed, cut, torn,
                    foreign>>
    BY <1>7 DEF vars, session, flush, spans, history
  <2>2. LifeType'
    BY <2>1 DEF EndInv, LifeType
  <2>3. StackOk'
    BY <2>1 DEF EndInv, StackOk
  <2>4. OverOk'
    <3>1. OverOk /\ over' = over /\ root' = root /\ delivered' = delivered
      BY <2>1 DEF EndInv
    <3>2. Closed' = Closed
      BY <3>1 DEF Closed
    <3> QED BY <3>1, <3>2 DEF OverOk
  <2>5. ASSUME NEW t \in Threads PROVE CallOk(t)'
    <3>1. CallOk(t)
      BY DEF EndInv
    <3> QED BY <2>1, <3>1 DEF CallOk
  <2>6. ASSUME NEW p \in Sessions PROVE SessionOk(p)'
    <3>1. SessionOk(p)
      BY DEF EndInv
    <3> QED BY <2>1, <3>1 DEF SessionOk, Closed
  <2>7. running' \subseteq {supervisor'}
    BY <2>1 DEF EndInv
  <2> QED
    BY <2>2, <2>3, <2>4, <2>5, <2>6, <2>7 DEF EndInv
<1> QED
  BY <1>1, <1>2, <1>3, <1>4, <1>5, <1>6, <1>7 DEF Next

\* When a shutdown that was not cut short has returned, nothing of its session is left,
\* and the root span was drained; and when the process ends through its handlers, every
\* span that was closed when they began was drained: for any number of threads that shut
\* sessions down, the same one included, and signals at any point.
THEOREM SessionsEndWhole == Spec => []EndsWhole
<1>1. Init => EndInv
  BY EndInit
<1>2. EndInv /\ [Next]_vars => EndInv'
  BY EndStep
<1>3. EndInv => EndsWhole
  BY DEF EndInv, EndsWhole, TornDownWhole, ExitDelivers, SessionOk, OverOk, LifeType
<1> QED
  BY <1>1, <1>2, <1>3, PTL DEF Spec

-------------------------------------------------------------------------------
(* One thread shuts sessions down *)

OneShutter == \A t, u \in Shutters : t = u

\* Whatever exists and is not torn down is the singleton.
OneSession == \A q \in made \ torn : singleton = q

\* profile() runs where there is no session, the only thread that shuts down does it once
\* for a session, and the worker that a setup starts is its own.
TurnOk(t) ==
    LET p == call[t].sess
        c == call[t].pc
    IN  /\ c \in Setup => singleton = None
        /\ c \in Teardown => t \in Shutters /\ p \notin torn
        /\ c \in {"unlock", "publish"} /\ signals = 0 => supervisor = p /\ p \in running

\* A session that is enabled and not shut down is whole.
WholeOk(p) ==
    p \in enabled \ isShutdown =>
        /\ p \in hooks /\ p \in transports /\ fallback = p /\ root[p] = "open"
        /\ signals = 0 => supervisor = p /\ p \in running

\* The stacks hold a session once, and hold this one.
Distinct(st) ==
    \A t, u \in Threads : \A i \in 1..Len(st[t]), j \in 1..Len(st[u]) :
        st[t][i] = st[u][j] => t = u /\ i = j
On(p, st) == \E t \in Threads : \E i \in 1..Len(st[t]) : st[t][i] = p

\* The shutdown of the session is past its root.
RootDone(p) ==
    \/ p \in torn
    \/ \E u \in Threads : call[u].sess = p /\ call[u].pc \in Teardown \ {"mark", "root"}

\* A root is on a stack until its shutdown takes it off; after that it is there only if
\* another thread closed it.  It is a child of no other root.
PlaceOk(p) ==
    /\ On(p, stack) => p \in enabled
    /\ On(p, stack) /\ RootDone(p) => p \in foreign
    /\ above[p] \in foreign \cup {None}

Apart == /\ OneSession /\ Distinct(stack)
         /\ signals = 0 => supervisor \notin failed
         /\ \A t \in Threads : TurnOk(t)
         /\ \A p \in Sessions : WholeOk(p) /\ PlaceOk(p)

\* What a handler is there for.
CauseOk == /\ over.pc = "clear" => over.cause = "exit"
           /\ over.pc = "chain" => over.cause = "signal"
           /\ over.pc # "none" /\ over.cause = "signal" => signals > 0

ApartInv == EndInv /\ CauseOk /\ (Exiting \/ Apart)


LEMMA GotoMoves ==
    ASSUME LifeType, NEW t \in Threads, NEW c \in Pcs, Goto(t, c)
    PROVE  \A u \in Threads : /\ call'[u].pc = IF u = t THEN c ELSE call[u].pc
                              /\ call'[u].sess = call[u].sess
<1>1. \A u \in Threads : call'[u] = [pc |-> IF u = t THEN c ELSE call[u].pc,
                                    sess |-> call[u].sess]
  BY GotoShape
<1> TAKE u \in Threads
<1> DEFINE d == IF u = t THEN c ELSE call[u].pc
<1>2. call'[u] = [pc |-> d, sess |-> call[u].sess]
  BY <1>1
<1> HIDE DEF d
<1>3. call'[u].pc = d /\ call'[u].sess = call[u].sess
  BY <1>2
<1> QED
  BY <1>3 DEF d

LEMMA BeginMoves ==
    ASSUME LifeType, NEW t \in Threads, NEW c \in Pcs, NEW p \in Sessions \cup {None},
           Begin(t, c, p)
    PROVE  \A u \in Threads : /\ call'[u].pc = IF u = t THEN c ELSE call[u].pc
                              /\ call'[u].sess = IF u = t THEN p ELSE call[u].sess
<1>1. \A u \in Threads : call'[u] = IF u = t THEN [pc |-> c, sess |-> p] ELSE call[u]
  BY BeginShape
<1> QED
  BY <1>1

LEMMA ReturnMoves ==
    ASSUME LifeType, NEW t \in Threads, Return(t)
    PROVE  \A u \in Threads : /\ call'[u].pc = IF u = t THEN "away" ELSE call[u].pc
                              /\ call'[u].sess = IF u = t THEN None ELSE call[u].sess
<1>1. \A u \in Threads : call'[u] = IF u = t THEN [pc |-> "away", sess |-> None] ELSE call[u]
  BY ReturnShape
<1> QED
  BY <1>1
LEMMA ApartProfileInstall ==
    ASSUME OneShutter, EndInv, CauseOk, Apart, ~ Exiting, NEW t \in Threads, ProfileInstall(t)
    PROVE  Apart'
<1> USE LifecycleAssumption
<1>1. /\ LifeType /\ \A u \in Threads : CallOk(u) /\ TurnOk(u)
      /\ \A q \in Sessions : SessionOk(q) /\ WholeOk(q) /\ PlaceOk(q)
      /\ OneSession /\ Distinct(stack) /\ (signals = 0 => supervisor \notin failed)
  BY DEF EndInv, Apart
<1>2. /\ UNCHANGED <<profilerLock, stateLock, singleton, made, enabled, isShutdown,
                     supervisor, running, fallback, root, stack, above, delivered, over,
                     registered, signals, failed, cut, torn, foreign>>
      /\ transports' = transports \cup {call[t].sess}
      /\ hooks' = hooks \cup {call[t].sess}
      /\ call[t].pc = "install"
  BY DEF ProfileInstall, At, flush, spans, history
<1>3. \A u \in Threads : /\ call'[u].pc = IF u = t THEN "lock" ELSE call[u].pc
                         /\ call'[u].sess = call[u].sess
  BY <1>1, GotoMoves DEF ProfileInstall, Pcs
<1>4. OneSession' /\ Distinct(stack')
  <2>1. OneSession'
    BY <1>1, <1>2, <1>3 DEF OneSession, LifeType, CallOk, TurnOk, Setup, Teardown
  <2>2. Distinct(stack')
    BY <1>1, <1>2
  <2> QED
    BY <2>1, <2>2
<1>5. signals' = 0 => supervisor' \notin failed'
  BY <1>1, <1>2, <1>3 DEF LifeType, CallOk, Setup
<1>6. ASSUME NEW u \in Threads PROVE TurnOk(u)'
  <2>1. CASE u = t
    BY <1>1, <1>2, <1>3, <2>1 DEF TurnOk, CallOk, Setup, Teardown
  <2>2. CASE u # t
    <3>1. call'[u].pc = call[u].pc /\ call'[u].sess = call[u].sess
      BY <1>3, <2>2
    <3> QED
      BY <1>1, <1>2, <2>2, <3>1 DEF TurnOk, CallOk, OneShutter, OneSession, LifeType, Setup, Teardown
  <2> QED
    BY <2>1, <2>2
<1>7. ASSUME NEW q \in Sessions PROVE WholeOk(q)'
  BY <1>1, <1>2, <1>3 DEF WholeOk, SessionOk, LifeType, CallOk, TurnOk, OneSession, Setup, Teardown
<1>8. ASSUME NEW q \in Sessions PROVE PlaceOk(q)'
  <2>1. On(q, stack) /\ RootDone(q)' => RootDone(q)
    BY <1>1, <1>2, <1>3 DEF RootDone, Setup, Teardown
  <2> QED
    BY <1>1, <1>2, <2>1 DEF PlaceOk
<1> QED
  BY <1>4, <1>5, <1>6, <1>7, <1>8 DEF Apart

LEMMA ApartStartLock ==
    ASSUME OneShutter, EndInv, CauseOk, Apart, ~ Exiting, NEW t \in Threads, StartLock(t)
    PROVE  Apart'
<1> USE LifecycleAssumption
<1>1. /\ LifeType /\ \A u \in Threads : CallOk(u) /\ TurnOk(u)
      /\ \A q \in Sessions : SessionOk(q) /\ WholeOk(q) /\ PlaceOk(q)
      /\ OneSession /\ Distinct(stack) /\ (signals = 0 => supervisor \notin failed)
  BY DEF EndInv, Apart
<1>2. /\ UNCHANGED <<profilerLock, singleton, made, enabled, isShutdown, hooks,
                     transports, supervisor, running, fallback, root, stack, above,
                     delivered, over, registered, signals, failed, cut, torn, foreign>>
      /\ stateLock' = t
      /\ call[t].pc = "lock"
  BY DEF StartLock, At, session, flush, spans, history
<1>3. \A u \in Threads : /\ call'[u].pc = IF u = t THEN "start" ELSE call[u].pc
                         /\ call'[u].sess = call[u].sess
  BY <1>1, GotoMoves DEF StartLock, Pcs
<1>4. OneSession' /\ Distinct(stack')
  <2>1. OneSession'
    BY <1>1, <1>2, <1>3 DEF OneSession, LifeType, CallOk, TurnOk, Setup, Teardown
  <2>2. Distinct(stack')
    BY <1>1, <1>2
  <2> QED
    BY <2>1, <2>2
<1>5. signals' = 0 => supervisor' \notin failed'
  BY <1>1, <1>2, <1>3 DEF LifeType, CallOk, Setup
<1>6. ASSUME NEW u \in Threads PROVE TurnOk(u)'
  <2>1. CASE u = t
    BY <1>1, <1>2, <1>3, <2>1 DEF TurnOk, CallOk, Setup, Teardown
  <2>2. CASE u # t
    <3>1. call'[u].pc = call[u].pc /\ call'[u].sess = call[u].sess
      BY <1>3, <2>2
    <3> QED
      BY <1>1, <1>2, <2>2, <3>1 DEF TurnOk, CallOk, OneShutter, OneSession, LifeType, Setup, Teardown
  <2> QED
    BY <2>1, <2>2
<1>7. ASSUME NEW q \in Sessions PROVE WholeOk(q)'
  BY <1>1, <1>2, <1>3 DEF WholeOk, SessionOk, LifeType, CallOk, TurnOk, OneSession, Setup, Teardown
<1>8. ASSUME NEW q \in Sessions PROVE PlaceOk(q)'
  <2>1. On(q, stack) /\ RootDone(q)' => RootDone(q)
    BY <1>1, <1>2, <1>3 DEF RootDone, Setup, Teardown
  <2> QED
    BY <1>1, <1>2, <2>1 DEF PlaceOk
<1> QED
  BY <1>4, <1>5, <1>6, <1>7, <1>8 DEF Apart

LEMMA ApartStart ==
    ASSUME OneShutter, EndInv, CauseOk, Apart, ~ Exiting, NEW t \in Threads, Start(t)
    PROVE  Apart'
<1> USE LifecycleAssumption
<1>1. /\ LifeType /\ \A u \in Threads : CallOk(u) /\ TurnOk(u)
      /\ \A q \in Sessions : SessionOk(q) /\ WholeOk(q) /\ PlaceOk(q)
      /\ OneSession /\ Distinct(stack) /\ (signals = 0 => supervisor \notin failed)
  BY DEF EndInv, Apart
<1>2. /\ UNCHANGED <<profilerLock, stateLock, singleton, made, enabled, isShutdown,
                     hooks, transports, fallback, root, stack, above, delivered, over,
                     signals, failed, cut, torn, foreign>>
      /\ registered' = TRUE
      /\ supervisor' = IF supervisor = None THEN call[t].sess ELSE supervisor
      /\ running' = IF supervisor = None THEN running \cup {call[t].sess} ELSE running
      /\ call[t].pc = "start"
  BY DEF Start, flush, At, session, spans, history
<1>3. \A u \in Threads : /\ call'[u].pc = IF u = t THEN "unlock" ELSE call[u].pc
                         /\ call'[u].sess = call[u].sess
  BY <1>1, GotoMoves DEF Start, Pcs
<1>4. OneSession' /\ Distinct(stack')
  <2>1. OneSession'
    BY <1>1, <1>2, <1>3 DEF OneSession, LifeType, CallOk, TurnOk, Setup, Teardown
  <2>2. Distinct(stack')
    BY <1>1, <1>2
  <2> QED
    BY <2>1, <2>2
<1>5. signals' = 0 => supervisor' \notin failed'
  BY <1>1, <1>2, <1>3 DEF LifeType, CallOk, Setup
<1>6. ASSUME NEW u \in Threads PROVE TurnOk(u)'
  <2>1. CASE u = t
    <3> PICK p : p = call[t].sess
      OBVIOUS
    <3>1. profilerLock = t /\ singleton = None /\ supervisor # p /\ p \in Sessions
      BY <1>1, <1>2 DEF CallOk, TurnOk, LifeType, Setup
    <3>2. ASSUME signals = 0, supervisor # None PROVE FALSE
      <4>1. supervisor \in Sessions /\ supervisor \notin failed
        BY <1>1, <3>2 DEF LifeType
      <4>2. supervisor \notin made
        BY <1>1, <3>1, <4>1 DEF SessionOk, OneSession
      <4>3. PICK v \in Threads : call[v].sess = supervisor /\ call[v].pc \in Setup
        BY <1>1, <4>1, <4>2 DEF SessionOk
      <4>4. profilerLock = v
        BY <1>1, <4>3 DEF CallOk
      <4> QED
        BY <3>1, <4>3, <4>4
    <3> QED
      BY <1>1, <1>2, <1>3, <2>1, <3>1, <3>2 DEF TurnOk, CallOk, Setup, Teardown
  <2>2. CASE u # t
    <3>1. call'[u].pc = call[u].pc /\ call'[u].sess = call[u].sess
      BY <1>3, <2>2
    <3> QED
      BY <1>1, <1>2, <2>2, <3>1 DEF TurnOk, CallOk, OneShutter, OneSession, LifeType, Setup, Teardown
  <2> QED
    BY <2>1, <2>2
<1>7. ASSUME NEW q \in Sessions PROVE WholeOk(q)'
  BY <1>1, <1>2, <1>3 DEF WholeOk, SessionOk, LifeType, CallOk, TurnOk, OneSession, Setup, Teardown
<1>8. ASSUME NEW q \in Sessions PROVE PlaceOk(q)'
  <2>1. On(q, stack) /\ RootDone(q)' => RootDone(q)
    BY <1>1, <1>2, <1>3 DEF RootDone, Setup, Teardown
  <2> QED
    BY <1>1, <1>2, <2>1 DEF PlaceOk
<1> QED
  BY <1>4, <1>5, <1>6, <1>7, <1>8 DEF Apart

LEMMA ApartStartUnlock ==
    ASSUME OneShutter, EndInv, CauseOk, Apart, ~ Exiting, NEW t \in Threads, StartUnlock(t)
    PROVE  Apart'
<1> USE LifecycleAssumption
<1>1. /\ LifeType /\ \A u \in Threads : CallOk(u) /\ TurnOk(u)
      /\ \A q \in Sessions : SessionOk(q) /\ WholeOk(q) /\ PlaceOk(q)
      /\ OneSession /\ Distinct(stack) /\ (signals = 0 => supervisor \notin failed)
  BY DEF EndInv, Apart
<1>2. /\ UNCHANGED <<profilerLock, singleton, made, enabled, isShutdown, hooks,
                     transports, supervisor, running, fallback, root, stack, above,
                     delivered, over, registered, signals, failed, cut, torn, foreign>>
      /\ stateLock' = None
      /\ call[t].pc = "unlock"
  BY DEF StartUnlock, At, session, flush, spans, history
<1>3. \A u \in Threads : /\ call'[u].pc = IF u = t THEN "publish" ELSE call[u].pc
                         /\ call'[u].sess = call[u].sess
  BY <1>1, GotoMoves DEF StartUnlock, Pcs
<1>4. OneSession' /\ Distinct(stack')
  <2>1. OneSession'
    BY <1>1, <1>2, <1>3 DEF OneSession, LifeType, CallOk, TurnOk, Setup, Teardown
  <2>2. Distinct(stack')
    BY <1>1, <1>2
  <2> QED
    BY <2>1, <2>2
<1>5. signals' = 0 => supervisor' \notin failed'
  BY <1>1, <1>2, <1>3 DEF LifeType, CallOk, Setup
<1>6. ASSUME NEW u \in Threads PROVE TurnOk(u)'
  <2>1. CASE u = t
    BY <1>1, <1>2, <1>3, <2>1 DEF TurnOk, CallOk, Setup, Teardown
  <2>2. CASE u # t
    <3>1. call'[u].pc = call[u].pc /\ call'[u].sess = call[u].sess
      BY <1>3, <2>2
    <3> QED
      BY <1>1, <1>2, <2>2, <3>1 DEF TurnOk, CallOk, OneShutter, OneSession, LifeType, Setup, Teardown
  <2> QED
    BY <2>1, <2>2
<1>7. ASSUME NEW q \in Sessions PROVE WholeOk(q)'
  BY <1>1, <1>2, <1>3 DEF WholeOk, SessionOk, LifeType, CallOk, TurnOk, OneSession, Setup, Teardown
<1>8. ASSUME NEW q \in Sessions PROVE PlaceOk(q)'
  <2>1. On(q, stack) /\ RootDone(q)' => RootDone(q)
    BY <1>1, <1>2, <1>3 DEF RootDone, Setup, Teardown
  <2> QED
    BY <1>1, <1>2, <2>1 DEF PlaceOk
<1> QED
  BY <1>4, <1>5, <1>6, <1>7, <1>8 DEF Apart

LEMMA ApartStartRaises ==
    ASSUME OneShutter, EndInv, CauseOk, Apart, ~ Exiting, NEW t \in Threads, StartRaises(t)
    PROVE  Apart'
<1> USE LifecycleAssumption
<1>1. /\ LifeType /\ \A u \in Threads : CallOk(u) /\ TurnOk(u)
      /\ \A q \in Sessions : SessionOk(q) /\ WholeOk(q) /\ PlaceOk(q)
      /\ OneSession /\ Distinct(stack) /\ (signals = 0 => supervisor \notin failed)
  BY DEF EndInv, Apart
<1>2. /\ UNCHANGED <<singleton, made, enabled, isShutdown, hooks, transports,
                     supervisor, running, fallback, root, stack, above, delivered, over,
                     registered, signals, cut, torn, foreign>>
      /\ stateLock' = None
      /\ profilerLock' = None
      /\ failed' = failed \cup {call[t].sess}
      /\ call[t].pc = "start"
  BY DEF StartRaises, At, session, flush, spans
<1>3. \A u \in Threads : /\ call'[u].pc = IF u = t THEN "away" ELSE call[u].pc
                         /\ call'[u].sess = IF u = t THEN None ELSE call[u].sess
  BY <1>1, ReturnMoves DEF StartRaises, Pcs
<1>4. OneSession' /\ Distinct(stack')
  <2>1. OneSession'
    BY <1>1, <1>2, <1>3 DEF OneSession, LifeType, CallOk, TurnOk, Setup, Teardown
  <2>2. Distinct(stack')
    BY <1>1, <1>2
  <2> QED
    BY <2>1, <2>2
<1>5. signals' = 0 => supervisor' \notin failed'
  BY <1>1, <1>2, <1>3 DEF LifeType, CallOk, Setup
<1>6. ASSUME NEW u \in Threads PROVE TurnOk(u)'
  <2>1. CASE u = t
    BY <1>1, <1>2, <1>3, <2>1 DEF TurnOk, CallOk, Setup, Teardown
  <2>2. CASE u # t
    <3>1. call'[u].pc = call[u].pc /\ call'[u].sess = call[u].sess
      BY <1>3, <2>2
    <3> QED
      BY <1>1, <1>2, <2>2, <3>1 DEF TurnOk, CallOk, OneShutter, OneSession, LifeType, Setup, Teardown
  <2> QED
    BY <2>1, <2>2
<1>7. ASSUME NEW q \in Sessions PROVE WholeOk(q)'
  BY <1>1, <1>2, <1>3 DEF WholeOk, SessionOk, LifeType, CallOk, TurnOk, OneSession, Setup, Teardown
<1>8. ASSUME NEW q \in Sessions PROVE PlaceOk(q)'
  <2>1. On(q, stack) /\ RootDone(q)' => RootDone(q)
    BY <1>1, <1>2, <1>3 DEF RootDone, Setup, Teardown
  <2> QED
    BY <1>1, <1>2, <2>1 DEF PlaceOk
<1> QED
  BY <1>4, <1>5, <1>6, <1>7, <1>8 DEF Apart

LEMMA ApartShutdownTest ==
    ASSUME OneShutter, EndInv, CauseOk, Apart, ~ Exiting, NEW t \in Threads, NEW p \in Sessions, ShutdownTest(t, p)
    PROVE  Apart'
<1> USE LifecycleAssumption
<1>1. /\ LifeType /\ \A u \in Threads : CallOk(u) /\ TurnOk(u)
      /\ \A q \in Sessions : SessionOk(q) /\ WholeOk(q) /\ PlaceOk(q)
      /\ OneSession /\ Distinct(stack) /\ (signals = 0 => supervisor \notin failed)
  BY DEF EndInv, Apart
<1>2. /\ UNCHANGED <<profilerLock, stateLock, singleton, made, enabled, isShutdown,
                     hooks, transports, supervisor, running, fallback, root, stack,
                     above, delivered, over, registered, signals, failed, cut, torn,
                     foreign>>
      /\ call[t].pc = "away" /\ p \in made \ isShutdown
  BY DEF ShutdownTest, At, session, flush, spans, history
<1>3. \A u \in Threads : /\ call'[u].pc = IF u = t THEN "mark" ELSE call[u].pc
                         /\ call'[u].sess = IF u = t THEN p ELSE call[u].sess
  BY <1>1, BeginMoves DEF ShutdownTest, Pcs
<1>4. OneSession' /\ Distinct(stack')
  <2>1. OneSession'
    BY <1>1, <1>2, <1>3 DEF OneSession, LifeType, CallOk, TurnOk, Setup, Teardown
  <2>2. Distinct(stack')
    BY <1>1, <1>2
  <2> QED
    BY <2>1, <2>2
<1>5. signals' = 0 => supervisor' \notin failed'
  BY <1>1, <1>2, <1>3 DEF LifeType, CallOk, Setup
<1>6. ASSUME NEW u \in Threads PROVE TurnOk(u)'
  <2>1. CASE u = t
    BY <1>1, <1>2, <1>3, <2>1 DEF TurnOk, LifeType, Setup, Teardown, ShutdownTest
  <2>2. CASE u # t
    <3>1. call'[u].pc = call[u].pc /\ call'[u].sess = call[u].sess
      BY <1>3, <2>2
    <3> QED
      BY <1>1, <1>2, <2>2, <3>1 DEF TurnOk, CallOk, OneShutter, OneSession, LifeType, Setup, Teardown
  <2> QED
    BY <2>1, <2>2
<1>7. ASSUME NEW q \in Sessions PROVE WholeOk(q)'
  BY <1>1, <1>2, <1>3 DEF WholeOk, SessionOk, LifeType, CallOk, TurnOk, OneSession, Setup, Teardown
<1>8. ASSUME NEW q \in Sessions PROVE PlaceOk(q)'
  <2>1. On(q, stack) /\ RootDone(q)' => RootDone(q)
    BY <1>1, <1>2, <1>3 DEF RootDone, Setup, Teardown
  <2> QED
    BY <1>1, <1>2, <2>1 DEF PlaceOk
<1> QED
  BY <1>4, <1>5, <1>6, <1>7, <1>8 DEF Apart

LEMMA ApartShutdownMark ==
    ASSUME OneShutter, EndInv, CauseOk, Apart, ~ Exiting, NEW t \in Threads, ShutdownMark(t)
    PROVE  Apart'
<1> USE LifecycleAssumption
<1>1. /\ LifeType /\ \A u \in Threads : CallOk(u) /\ TurnOk(u)
      /\ \A q \in Sessions : SessionOk(q) /\ WholeOk(q) /\ PlaceOk(q)
      /\ OneSession /\ Distinct(stack) /\ (signals = 0 => supervisor \notin failed)
  BY DEF EndInv, Apart
<1>2. /\ UNCHANGED <<profilerLock, stateLock, singleton, made, enabled, hooks,
                     transports, supervisor, running, fallback, root, stack, above,
                     delivered, over, registered, signals, failed, cut, torn, foreign>>
      /\ isShutdown' = isShutdown \cup {call[t].sess}
      /\ call[t].pc = "mark"
  BY DEF ShutdownMark, At, flush, spans, history
<1>3. \A u \in Threads : /\ call'[u].pc = IF u = t THEN IF call[t].sess \in enabled THEN "root" ELSE "clear" ELSE call[u].pc
                         /\ call'[u].sess = call[u].sess
  BY <1>1, GotoMoves DEF ShutdownMark, Pcs
<1>4. OneSession' /\ Distinct(stack')
  <2>1. OneSession'
    BY <1>1, <1>2, <1>3 DEF OneSession, LifeType, CallOk, TurnOk, Setup, Teardown
  <2>2. Distinct(stack')
    BY <1>1, <1>2
  <2> QED
    BY <2>1, <2>2
<1>5. signals' = 0 => supervisor' \notin failed'
  BY <1>1, <1>2, <1>3 DEF LifeType, CallOk, Setup
<1>6. ASSUME NEW u \in Threads PROVE TurnOk(u)'
  <2>1. CASE u = t
    BY <1>1, <1>2, <1>3, <2>1 DEF TurnOk, CallOk, Setup, Teardown
  <2>2. CASE u # t
    <3>1. call'[u].pc = call[u].pc /\ call'[u].sess = call[u].sess
      BY <1>3, <2>2
    <3> QED
      BY <1>1, <1>2, <2>2, <3>1 DEF TurnOk, CallOk, OneShutter, OneSession, LifeType, Setup, Teardown
  <2> QED
    BY <2>1, <2>2
<1>7. ASSUME NEW q \in Sessions PROVE WholeOk(q)'
  BY <1>1, <1>2, <1>3 DEF WholeOk, SessionOk, LifeType, CallOk, TurnOk, OneSession, Setup, Teardown
<1>8. ASSUME NEW q \in Sessions PROVE PlaceOk(q)'
  <2>1. On(q, stack) /\ RootDone(q)' => RootDone(q)
    BY <1>1, <1>2, <1>3 DEF RootDone, Setup, Teardown, PlaceOk
  <2> QED
    BY <1>1, <1>2, <2>1 DEF PlaceOk
<1> QED
  BY <1>4, <1>5, <1>6, <1>7, <1>8 DEF Apart

LEMMA ApartShutdownUninstall ==
    ASSUME OneShutter, EndInv, CauseOk, Apart, ~ Exiting, NEW t \in Threads, ShutdownUninstall(t)
    PROVE  Apart'
<1> USE LifecycleAssumption
<1>1. /\ LifeType /\ \A u \in Threads : CallOk(u) /\ TurnOk(u)
      /\ \A q \in Sessions : SessionOk(q) /\ WholeOk(q) /\ PlaceOk(q)
      /\ OneSession /\ Distinct(stack) /\ (signals = 0 => supervisor \notin failed)
  BY DEF EndInv, Apart
<1>2. /\ UNCHANGED <<profilerLock, stateLock, singleton, made, enabled, isShutdown,
                     transports, supervisor, running, fallback, root, stack, above,
                     delivered, over, registered, signals, failed, cut, torn, foreign>>
      /\ hooks' = hooks \ {call[t].sess}
      /\ call[t].pc = "uninstall"
  BY DEF ShutdownUninstall, At, flush, spans, history
<1>3. \A u \in Threads : /\ call'[u].pc = IF u = t THEN "flush" ELSE call[u].pc
                         /\ call'[u].sess = call[u].sess
  BY <1>1, GotoMoves DEF ShutdownUninstall, Pcs
<1>4. OneSession' /\ Distinct(stack')
  <2>1. OneSession'
    BY <1>1, <1>2, <1>3 DEF OneSession, LifeType, CallOk, TurnOk, Setup, Teardown
  <2>2. Distinct(stack')
    BY <1>1, <1>2
  <2> QED
    BY <2>1, <2>2
<1>5. signals' = 0 => supervisor' \notin failed'
  BY <1>1, <1>2, <1>3 DEF LifeType, CallOk, Setup
<1>6. ASSUME NEW u \in Threads PROVE TurnOk(u)'
  <2>1. CASE u = t
    BY <1>1, <1>2, <1>3, <2>1 DEF TurnOk, CallOk, Setup, Teardown
  <2>2. CASE u # t
    <3>1. call'[u].pc = call[u].pc /\ call'[u].sess = call[u].sess
      BY <1>3, <2>2
    <3> QED
      BY <1>1, <1>2, <2>2, <3>1 DEF TurnOk, CallOk, OneShutter, OneSession, LifeType, Setup, Teardown
  <2> QED
    BY <2>1, <2>2
<1>7. ASSUME NEW q \in Sessions PROVE WholeOk(q)'
  BY <1>1, <1>2, <1>3 DEF WholeOk, SessionOk, LifeType, CallOk, TurnOk, OneSession, Setup, Teardown
<1>8. ASSUME NEW q \in Sessions PROVE PlaceOk(q)'
  <2>1. On(q, stack) /\ RootDone(q)' => RootDone(q)
    BY <1>1, <1>2, <1>3 DEF RootDone, Setup, Teardown
  <2> QED
    BY <1>1, <1>2, <2>1 DEF PlaceOk
<1> QED
  BY <1>4, <1>5, <1>6, <1>7, <1>8 DEF Apart

LEMMA ApartShutdownFlush ==
    ASSUME OneShutter, EndInv, CauseOk, Apart, ~ Exiting, NEW t \in Threads, ShutdownFlush(t)
    PROVE  Apart'
<1> USE LifecycleAssumption
<1>1. /\ LifeType /\ \A u \in Threads : CallOk(u) /\ TurnOk(u)
      /\ \A q \in Sessions : SessionOk(q) /\ WholeOk(q) /\ PlaceOk(q)
      /\ OneSession /\ Distinct(stack) /\ (signals = 0 => supervisor \notin failed)
  BY DEF EndInv, Apart
<1>2. /\ UNCHANGED <<profilerLock, stateLock, singleton, made, enabled, isShutdown,
                     hooks, transports, supervisor, running, fallback, root, stack,
                     above, over, registered, signals, failed, cut, torn, foreign>>
      /\ delivered' = delivered \cup Closed
      /\ call[t].pc = "flush"
  BY DEF ShutdownFlush, At, Flush, session, flush, history
<1>3. \A u \in Threads : /\ call'[u].pc = IF u = t THEN "stoplock" ELSE call[u].pc
                         /\ call'[u].sess = call[u].sess
  BY <1>1, GotoMoves DEF ShutdownFlush, Pcs
<1>4. OneSession' /\ Distinct(stack')
  <2>1. OneSession'
    BY <1>1, <1>2, <1>3 DEF OneSession, LifeType, CallOk, TurnOk, Setup, Teardown
  <2>2. Distinct(stack')
    BY <1>1, <1>2
  <2> QED
    BY <2>1, <2>2
<1>5. signals' = 0 => supervisor' \notin failed'
  BY <1>1, <1>2, <1>3 DEF LifeType, CallOk, Setup
<1>6. ASSUME NEW u \in Threads PROVE TurnOk(u)'
  <2>1. CASE u = t
    BY <1>1, <1>2, <1>3, <2>1 DEF TurnOk, CallOk, Setup, Teardown
  <2>2. CASE u # t
    <3>1. call'[u].pc = call[u].pc /\ call'[u].sess = call[u].sess
      BY <1>3, <2>2
    <3> QED
      BY <1>1, <1>2, <2>2, <3>1 DEF TurnOk, CallOk, OneShutter, OneSession, LifeType, Setup, Teardown
  <2> QED
    BY <2>1, <2>2
<1>7. ASSUME NEW q \in Sessions PROVE WholeOk(q)'
  BY <1>1, <1>2, <1>3 DEF WholeOk, SessionOk, LifeType, CallOk, TurnOk, OneSession, Setup, Teardown
<1>8. ASSUME NEW q \in Sessions PROVE PlaceOk(q)'
  <2>1. On(q, stack) /\ RootDone(q)' => RootDone(q)
    BY <1>1, <1>2, <1>3 DEF RootDone, Setup, Teardown
  <2> QED
    BY <1>1, <1>2, <2>1 DEF PlaceOk
<1> QED
  BY <1>4, <1>5, <1>6, <1>7, <1>8 DEF Apart

LEMMA ApartStopLock ==
    ASSUME OneShutter, EndInv, CauseOk, Apart, ~ Exiting, NEW t \in Threads, StopLock(t)
    PROVE  Apart'
<1> USE LifecycleAssumption
<1>1. /\ LifeType /\ \A u \in Threads : CallOk(u) /\ TurnOk(u)
      /\ \A q \in Sessions : SessionOk(q) /\ WholeOk(q) /\ PlaceOk(q)
      /\ OneSession /\ Distinct(stack) /\ (signals = 0 => supervisor \notin failed)
  BY DEF EndInv, Apart
<1>2. /\ UNCHANGED <<profilerLock, singleton, made, enabled, isShutdown, hooks,
                     transports, supervisor, running, fallback, root, stack, above,
                     delivered, over, registered, signals, failed, cut, torn, foreign>>
      /\ stateLock' = t
      /\ call[t].pc = "stoplock"
  BY DEF StopLock, At, session, flush, spans, history
<1>3. \A u \in Threads : /\ call'[u].pc = IF u = t THEN "stop" ELSE call[u].pc
                         /\ call'[u].sess = call[u].sess
  BY <1>1, GotoMoves DEF StopLock, Pcs
<1>4. OneSession' /\ Distinct(stack')
  <2>1. OneSession'
    BY <1>1, <1>2, <1>3 DEF OneSession, LifeType, CallOk, TurnOk, Setup, Teardown
  <2>2. Distinct(stack')
    BY <1>1, <1>2
  <2> QED
    BY <2>1, <2>2
<1>5. signals' = 0 => supervisor' \notin failed'
  BY <1>1, <1>2, <1>3 DEF LifeType, CallOk, Setup
<1>6. ASSUME NEW u \in Threads PROVE TurnOk(u)'
  <2>1. CASE u = t
    BY <1>1, <1>2, <1>3, <2>1 DEF TurnOk, CallOk, Setup, Teardown
  <2>2. CASE u # t
    <3>1. call'[u].pc = call[u].pc /\ call'[u].sess = call[u].sess
      BY <1>3, <2>2
    <3> QED
      BY <1>1, <1>2, <2>2, <3>1 DEF TurnOk, CallOk, OneShutter, OneSession, LifeType, Setup, Teardown
  <2> QED
    BY <2>1, <2>2
<1>7. ASSUME NEW q \in Sessions PROVE WholeOk(q)'
  BY <1>1, <1>2, <1>3 DEF WholeOk, SessionOk, LifeType, CallOk, TurnOk, OneSession, Setup, Teardown
<1>8. ASSUME NEW q \in Sessions PROVE PlaceOk(q)'
  <2>1. On(q, stack) /\ RootDone(q)' => RootDone(q)
    BY <1>1, <1>2, <1>3 DEF RootDone, Setup, Teardown
  <2> QED
    BY <1>1, <1>2, <2>1 DEF PlaceOk
<1> QED
  BY <1>4, <1>5, <1>6, <1>7, <1>8 DEF Apart

LEMMA ApartStop ==
    ASSUME OneShutter, EndInv, CauseOk, Apart, ~ Exiting, NEW t \in Threads, Stop(t)
    PROVE  Apart'
<1> USE LifecycleAssumption
<1>1. /\ LifeType /\ \A u \in Threads : CallOk(u) /\ TurnOk(u)
      /\ \A q \in Sessions : SessionOk(q) /\ WholeOk(q) /\ PlaceOk(q)
      /\ OneSession /\ Distinct(stack) /\ (signals = 0 => supervisor \notin failed)
  BY DEF EndInv, Apart
<1>2. /\ UNCHANGED <<profilerLock, singleton, made, enabled, isShutdown, hooks,
                     transports, fallback, root, stack, above, delivered, over,
                     registered, signals, failed, cut, torn, foreign>>
      /\ running' = running \ {supervisor}
      /\ supervisor' = None
      /\ stateLock' = None
      /\ call[t].pc = "stop"
  BY DEF Stop, At, session, spans, history
<1>3. \A u \in Threads : /\ call'[u].pc = IF u = t THEN "close" ELSE call[u].pc
                         /\ call'[u].sess = call[u].sess
  BY <1>1, GotoMoves DEF Stop, Pcs
<1>4. OneSession' /\ Distinct(stack')
  <2>1. OneSession'
    BY <1>1, <1>2, <1>3 DEF OneSession, LifeType, CallOk, TurnOk, Setup, Teardown
  <2>2. Distinct(stack')
    BY <1>1, <1>2
  <2> QED
    BY <2>1, <2>2
<1>5. signals' = 0 => supervisor' \notin failed'
  BY <1>1, <1>2, <1>3 DEF LifeType, CallOk, Setup
<1>6. ASSUME NEW u \in Threads PROVE TurnOk(u)'
  <2>1. CASE u = t
    BY <1>1, <1>2, <1>3, <2>1 DEF TurnOk, CallOk, Setup, Teardown
  <2>2. CASE u # t
    <3>1. call'[u].pc = call[u].pc /\ call'[u].sess = call[u].sess
      BY <1>3, <2>2
    <3> QED
      BY <1>1, <1>2, <2>2, <3>1 DEF TurnOk, CallOk, OneShutter, OneSession, LifeType, Setup, Teardown
  <2> QED
    BY <2>1, <2>2
<1>7. ASSUME NEW q \in Sessions PROVE WholeOk(q)'
  BY <1>1, <1>2, <1>3 DEF WholeOk, SessionOk, LifeType, CallOk, TurnOk, OneSession, Setup, Teardown
<1>8. ASSUME NEW q \in Sessions PROVE PlaceOk(q)'
  <2>1. On(q, stack) /\ RootDone(q)' => RootDone(q)
    BY <1>1, <1>2, <1>3 DEF RootDone, Setup, Teardown
  <2> QED
    BY <1>1, <1>2, <2>1 DEF PlaceOk
<1> QED
  BY <1>4, <1>5, <1>6, <1>7, <1>8 DEF Apart

LEMMA ApartShutdownClose ==
    ASSUME OneShutter, EndInv, CauseOk, Apart, ~ Exiting, NEW t \in Threads, ShutdownClose(t)
    PROVE  Apart'
<1> USE LifecycleAssumption
<1>1. /\ LifeType /\ \A u \in Threads : CallOk(u) /\ TurnOk(u)
      /\ \A q \in Sessions : SessionOk(q) /\ WholeOk(q) /\ PlaceOk(q)
      /\ OneSession /\ Distinct(stack) /\ (signals = 0 => supervisor \notin failed)
  BY DEF EndInv, Apart
<1>2. /\ UNCHANGED <<profilerLock, stateLock, singleton, made, enabled, isShutdown,
                     hooks, supervisor, running, fallback, root, stack, above,
                     delivered, over, registered, signals, failed, cut, torn, foreign>>
      /\ transports' = transports \ {call[t].sess}
      /\ call[t].pc = "close"
  BY DEF ShutdownClose, At, flush, spans, history
<1>3. \A u \in Threads : /\ call'[u].pc = IF u = t THEN "clear" ELSE call[u].pc
                         /\ call'[u].sess = call[u].sess
  BY <1>1, GotoMoves DEF ShutdownClose, Pcs
<1>4. OneSession' /\ Distinct(stack')
  <2>1. OneSession'
    BY <1>1, <1>2, <1>3 DEF OneSession, LifeType, CallOk, TurnOk, Setup, Teardown
  <2>2. Distinct(stack')
    BY <1>1, <1>2
  <2> QED
    BY <2>1, <2>2
<1>5. signals' = 0 => supervisor' \notin failed'
  BY <1>1, <1>2, <1>3 DEF LifeType, CallOk, Setup
<1>6. ASSUME NEW u \in Threads PROVE TurnOk(u)'
  <2>1. CASE u = t
    BY <1>1, <1>2, <1>3, <2>1 DEF TurnOk, CallOk, Setup, Teardown
  <2>2. CASE u # t
    <3>1. call'[u].pc = call[u].pc /\ call'[u].sess = call[u].sess
      BY <1>3, <2>2
    <3> QED
      BY <1>1, <1>2, <2>2, <3>1 DEF TurnOk, CallOk, OneShutter, OneSession, LifeType, Setup, Teardown
  <2> QED
    BY <2>1, <2>2
<1>7. ASSUME NEW q \in Sessions PROVE WholeOk(q)'
  BY <1>1, <1>2, <1>3 DEF WholeOk, SessionOk, LifeType, CallOk, TurnOk, OneSession, Setup, Teardown
<1>8. ASSUME NEW q \in Sessions PROVE PlaceOk(q)'
  <2>1. On(q, stack) /\ RootDone(q)' => RootDone(q)
    BY <1>1, <1>2, <1>3 DEF RootDone, Setup, Teardown
  <2> QED
    BY <1>1, <1>2, <2>1 DEF PlaceOk
<1> QED
  BY <1>4, <1>5, <1>6, <1>7, <1>8 DEF Apart

LEMMA ApartShutdownClear ==
    ASSUME OneShutter, EndInv, CauseOk, Apart, ~ Exiting, NEW t \in Threads, ShutdownClear(t)
    PROVE  Apart'
<1> USE LifecycleAssumption
<1>1. /\ LifeType /\ \A u \in Threads : CallOk(u) /\ TurnOk(u)
      /\ \A q \in Sessions : SessionOk(q) /\ WholeOk(q) /\ PlaceOk(q)
      /\ OneSession /\ Distinct(stack) /\ (signals = 0 => supervisor \notin failed)
  BY DEF EndInv, Apart
<1>2. /\ UNCHANGED <<profilerLock, stateLock, made, enabled, isShutdown, hooks,
                     transports, supervisor, running, fallback, root, stack, above,
                     delivered, over, registered, signals, failed, cut, foreign>>
      /\ singleton' = IF singleton = call[t].sess THEN None ELSE singleton
      /\ torn' = torn \cup {call[t].sess}
      /\ call[t].pc = "clear"
  BY DEF ShutdownClear, At, session, flush, spans
<1>3. \A u \in Threads : /\ call'[u].pc = IF u = t THEN "away" ELSE call[u].pc
                         /\ call'[u].sess = IF u = t THEN None ELSE call[u].sess
  BY <1>1, ReturnMoves DEF ShutdownClear, Pcs
<1>4. OneSession' /\ Distinct(stack')
  <2>1. OneSession'
    BY <1>1, <1>2, <1>3 DEF OneSession, LifeType, CallOk, TurnOk, Setup, Teardown
  <2>2. Distinct(stack')
    BY <1>1, <1>2
  <2> QED
    BY <2>1, <2>2
<1>5. signals' = 0 => supervisor' \notin failed'
  BY <1>1, <1>2, <1>3 DEF LifeType, CallOk, Setup
<1>6. ASSUME NEW u \in Threads PROVE TurnOk(u)'
  <2>1. CASE u = t
    BY <1>1, <1>2, <1>3, <2>1 DEF TurnOk, CallOk, Setup, Teardown
  <2>2. CASE u # t
    <3>1. call'[u].pc = call[u].pc /\ call'[u].sess = call[u].sess
      BY <1>3, <2>2
    <3> QED
      BY <1>1, <1>2, <2>2, <3>1 DEF TurnOk, CallOk, OneShutter, OneSession, LifeType, Setup, Teardown
  <2> QED
    BY <2>1, <2>2
<1>7. ASSUME NEW q \in Sessions PROVE WholeOk(q)'
  BY <1>1, <1>2, <1>3 DEF WholeOk, SessionOk, LifeType, CallOk, TurnOk, OneSession, Setup, Teardown
<1>8. ASSUME NEW q \in Sessions PROVE PlaceOk(q)'
  <2>1. On(q, stack) /\ RootDone(q)' => RootDone(q)
    BY <1>1, <1>2, <1>3 DEF RootDone, Setup, Teardown
  <2> QED
    BY <1>1, <1>2, <2>1 DEF PlaceOk
<1> QED
  BY <1>4, <1>5, <1>6, <1>7, <1>8 DEF Apart

LEMMA ApartSignalArrives ==
    ASSUME OneShutter, EndInv, CauseOk, Apart, ~ Exiting, SignalArrives
    PROVE  Apart'
<1> USE LifecycleAssumption
<1>1. /\ LifeType /\ \A u \in Threads : CallOk(u) /\ TurnOk(u)
      /\ \A q \in Sessions : SessionOk(q) /\ WholeOk(q) /\ PlaceOk(q)
      /\ OneSession /\ Distinct(stack) /\ (signals = 0 => supervisor \notin failed)
  BY DEF EndInv, Apart
<1>2. /\ UNCHANGED <<profilerLock, stateLock, singleton, made, enabled, isShutdown,
                     hooks, transports, supervisor, running, fallback, root, stack,
                     above, delivered, call, registered, failed, cut, torn, foreign>>
      /\ over' = [pc |-> "flush", cause |-> "signal", before |-> Closed]
      /\ signals' = signals + 1
  BY DEF SignalArrives, session, flush, spans, history
<1>4. OneSession' /\ Distinct(stack')
  <2>1. OneSession'
    BY <1>1, <1>2 DEF OneSession, LifeType, CallOk, TurnOk, Setup, Teardown
  <2>2. Distinct(stack')
    BY <1>1, <1>2
  <2> QED
    BY <2>1, <2>2
<1>5. signals' = 0 => supervisor' \notin failed'
  BY <1>1, <1>2 DEF LifeType, CallOk, Setup
<1>6. ASSUME NEW u \in Threads PROVE TurnOk(u)'
  BY <1>1, <1>2, <1>6 DEF TurnOk, CallOk, LifeType, Setup, Teardown
<1>7. ASSUME NEW q \in Sessions PROVE WholeOk(q)'
  BY <1>1, <1>2 DEF WholeOk, SessionOk, LifeType, CallOk, TurnOk, OneSession, Setup, Teardown
<1>8. ASSUME NEW q \in Sessions PROVE PlaceOk(q)'
  BY <1>1, <1>2 DEF PlaceOk, RootDone
<1> QED
  BY <1>4, <1>5, <1>6, <1>7, <1>8 DEF Apart

LEMMA ApartHandlerFlush ==
    ASSUME OneShutter, EndInv, CauseOk, Apart, ~ Exiting, HandlerFlush
    PROVE  Apart'
<1> USE LifecycleAssumption
<1>1. /\ LifeType /\ \A u \in Threads : CallOk(u) /\ TurnOk(u)
      /\ \A q \in Sessions : SessionOk(q) /\ WholeOk(q) /\ PlaceOk(q)
      /\ OneSession /\ Distinct(stack) /\ (signals = 0 => supervisor \notin failed)
  BY DEF EndInv, Apart
<1>2. /\ UNCHANGED <<profilerLock, stateLock, singleton, made, enabled, isShutdown,
                     hooks, transports, supervisor, running, fallback, root, stack,
                     above, call, registered, signals, failed, cut, torn, foreign>>
      /\ delivered' = delivered \cup Closed
      /\ over' = [over EXCEPT !.pc = "stop"]
  BY DEF HandlerFlush, Flush, session, flush, history
<1>4. OneSession' /\ Distinct(stack')
  <2>1. OneSession'
    BY <1>1, <1>2 DEF OneSession, LifeType, CallOk, TurnOk, Setup, Teardown
  <2>2. Distinct(stack')
    BY <1>1, <1>2
  <2> QED
    BY <2>1, <2>2
<1>5. signals' = 0 => supervisor' \notin failed'
  BY <1>1, <1>2 DEF LifeType, CallOk, Setup
<1>6. ASSUME NEW u \in Threads PROVE TurnOk(u)'
  BY <1>1, <1>2, <1>6 DEF TurnOk, CallOk, LifeType, Setup, Teardown
<1>7. ASSUME NEW q \in Sessions PROVE WholeOk(q)'
  BY <1>1, <1>2 DEF WholeOk, SessionOk, LifeType, CallOk, TurnOk, OneSession, Setup, Teardown
<1>8. ASSUME NEW q \in Sessions PROVE PlaceOk(q)'
  BY <1>1, <1>2 DEF PlaceOk, RootDone
<1> QED
  BY <1>4, <1>5, <1>6, <1>7, <1>8 DEF Apart

LEMMA ApartTick ==
    ASSUME OneShutter, EndInv, CauseOk, Apart, ~ Exiting, Tick
    PROVE  Apart'
<1> USE LifecycleAssumption
<1>1. /\ LifeType /\ \A u \in Threads : CallOk(u) /\ TurnOk(u)
      /\ \A q \in Sessions : SessionOk(q) /\ WholeOk(q) /\ PlaceOk(q)
      /\ OneSession /\ Distinct(stack) /\ (signals = 0 => supervisor \notin failed)
  BY DEF EndInv, Apart
<1>2. /\ UNCHANGED <<profilerLock, stateLock, singleton, made, enabled, isShutdown,
                     hooks, transports, supervisor, running, fallback, root, stack,
                     above, call, over, registered, signals, failed, cut, torn, foreign>>
      /\ delivered' = delivered \cup Closed
  BY DEF Tick, Flush, session, flush, history
<1>4. OneSession' /\ Distinct(stack')
  <2>1. OneSession'
    BY <1>1, <1>2 DEF OneSession, LifeType, CallOk, TurnOk, Setup, Teardown
  <2>2. Distinct(stack')
    BY <1>1, <1>2
  <2> QED
    BY <2>1, <2>2
<1>5. signals' = 0 => supervisor' \notin failed'
  BY <1>1, <1>2 DEF LifeType, CallOk, Setup
<1>6. ASSUME NEW u \in Threads PROVE TurnOk(u)'
  BY <1>1, <1>2, <1>6 DEF TurnOk, CallOk, LifeType, Setup, Teardown
<1>7. ASSUME NEW q \in Sessions PROVE WholeOk(q)'
  BY <1>1, <1>2 DEF WholeOk, SessionOk, LifeType, CallOk, TurnOk, OneSession, Setup, Teardown
<1>8. ASSUME NEW q \in Sessions PROVE PlaceOk(q)'
  BY <1>1, <1>2 DEF PlaceOk, RootDone
<1> QED
  BY <1>4, <1>5, <1>6, <1>7, <1>8 DEF Apart


LEMMA ApartProfileBegin ==
    ASSUME OneShutter, EndInv, CauseOk, Apart, ~ Exiting, NEW t \in Threads,
           NEW p \in Sessions, ProfileBegin(t, p)
    PROVE  Apart'
<1> USE LifecycleAssumption
<1>1. /\ LifeType /\ \A u \in Threads : CallOk(u) /\ TurnOk(u)
      /\ \A q \in Sessions : SessionOk(q) /\ WholeOk(q) /\ PlaceOk(q)
      /\ OneSession /\ Distinct(stack) /\ (signals = 0 => supervisor \notin failed)
  BY DEF EndInv, Apart
<1>2. /\ UNCHANGED <<stateLock, enabled, isShutdown, hooks, transports, supervisor, running,
                     fallback, root, stack, above, delivered, over, registered, signals,
                     failed, cut, torn, foreign>>
      /\ call[t].pc = "away" /\ profilerLock = None /\ singleton = None
      /\ p \notin made \cup failed /\ \A u \in Threads : call[u].sess # p
  BY DEF ProfileBegin, At, flush, spans, history
<1>3. Distinct(stack') /\ (signals' = 0 => supervisor' \notin failed')
  BY <1>1, <1>2
<1>4. \A q \in Sessions : WholeOk(q)'
  BY <1>1, <1>2 DEF WholeOk
<1>5. CASE profilerLock' = t /\ Begin(t, "install", p) /\ UNCHANGED <<singleton, made>>
  <2>1. \A u \in Threads : /\ call'[u].pc = IF u = t THEN "install" ELSE call[u].pc
                           /\ call'[u].sess = IF u = t THEN p ELSE call[u].sess
    BY <1>1, <1>5, BeginMoves DEF Pcs
  <2>2. OneSession'
    BY <1>1, <1>2, <1>5 DEF OneSession
  <2>3. ASSUME NEW u \in Threads PROVE TurnOk(u)'
    BY <1>1, <1>2, <1>5, <2>1 DEF TurnOk, Setup, Teardown
  <2>4. ASSUME NEW q \in Sessions PROVE PlaceOk(q)'
    <3>1. RootDone(q)' => RootDone(q)
      BY <1>2, <2>1 DEF RootDone, Teardown
    <3> QED
      BY <1>1, <1>2, <3>1 DEF PlaceOk
  <2> QED
    BY <1>3, <1>4, <2>2, <2>3, <2>4 DEF Apart
<1>6. CASE made' = made \cup {p} /\ singleton' = p /\ UNCHANGED <<profilerLock, call>>
  <2>1. OneSession'
    BY <1>1, <1>2, <1>6 DEF OneSession, LifeType
  <2>2. ASSUME NEW u \in Threads PROVE TurnOk(u)'
    BY <1>1, <1>2, <1>6 DEF TurnOk, CallOk
  <2>3. ASSUME NEW q \in Sessions PROVE PlaceOk(q)'
    BY <1>1, <1>2, <1>6 DEF PlaceOk, RootDone
  <2> QED
    BY <1>3, <1>4, <2>1, <2>2, <2>3 DEF Apart
<1> QED
  BY <1>5, <1>6 DEF ProfileBegin

\* profile() is the only one in its section, no session is left of earlier ones, and
\* what is on the stack of its thread was closed by another thread.
LEMMA ApartProfilePublish ==
    ASSUME OneShutter, EndInv, CauseOk, Apart, ~ Exiting, NEW t \in Threads,
           ProfilePublish(t)
    PROVE  Apart'
<1> USE LifecycleAssumption
<1>1. /\ LifeType /\ \A u \in Threads : CallOk(u) /\ TurnOk(u)
      /\ \A q \in Sessions : SessionOk(q) /\ WholeOk(q) /\ PlaceOk(q)
      /\ OneSession /\ Distinct(stack) /\ (signals = 0 => supervisor \notin failed)
  BY DEF EndInv, Apart
<1>2. PICK p : p = call[t].sess
  OBVIOUS
<1>3. /\ UNCHANGED <<stateLock, isShutdown, hooks, transports, supervisor, running,
                     delivered, over, registered, signals, failed, cut, torn, foreign>>
      /\ root' = [root EXCEPT ![p] = "open"] /\ fallback' = p /\ singleton' = p
      /\ stack' = [stack EXCEPT ![t] = Append(stack[t], p)]
      /\ above' = [above EXCEPT ![p] = IF stack[t] = <<>> THEN None
                                       ELSE stack[t][Len(stack[t])]]
      /\ made' = made \cup {p} /\ enabled' = enabled \cup {p} /\ profilerLock' = None
      /\ call[t].pc = "publish"
  BY <1>2 DEF ProfilePublish, At, flush, history
<1>4. \A u \in Threads : /\ call'[u].pc = IF u = t THEN "away" ELSE call[u].pc
                         /\ call'[u].sess = IF u = t THEN None ELSE call[u].sess
  BY <1>1, ReturnMoves DEF ProfilePublish
<1>5. /\ p \in Sessions \ made /\ p \notin failed /\ profilerLock = t /\ singleton = None
      /\ p \in hooks /\ p \in transports
      /\ signals = 0 => supervisor = p /\ p \in running
  BY <1>1, <1>2, <1>3 DEF LifeType, CallOk, TurnOk, Setup
<1>6. \A q \in made : q \in torn
  BY <1>1, <1>5 DEF OneSession, LifeType
<1>7. \A u \in Threads : call[u].pc \in Setup => u = t
  BY <1>1, <1>5 DEF CallOk
<1>8. ~ On(p, stack)
  BY <1>1, <1>5 DEF PlaceOk, LifeType
<1>9. /\ stack[t] \in Seq(Sessions) /\ Len(stack[t]) \in Nat
      /\ \A u \in Threads : Len(stack[u]) \in Nat
      /\ \A u \in Threads : stack'[u] = IF u = t THEN Append(stack[t], p) ELSE stack[u]
      /\ Len(Append(stack[t], p)) = Len(stack[t]) + 1
      /\ \A i \in 1..Len(stack[t]) + 1 :
            Append(stack[t], p)[i] = IF i <= Len(stack[t]) THEN stack[t][i] ELSE p
  BY <1>1, <1>3, <1>5 DEF LifeType
<1>10. ASSUME NEW u \in Threads, NEW i \in 1..Len(stack'[u])
       PROVE  \/ i \in 1..Len(stack[u]) /\ stack'[u][i] = stack[u][i]
              \/ u = t /\ i = Len(stack[t]) + 1 /\ stack'[u][i] = p
  <2>1. CASE u = t
    <3>1. stack'[u] = Append(stack[t], p)
      BY <1>9, <2>1
    <3>2. i \in 1..Len(stack[t]) + 1
      BY <1>9, <3>1
    <3> QED
      BY <1>9, <2>1, <3>1, <3>2
  <2>2. CASE u # t
    BY <1>9, <2>2
  <2> QED
    BY <2>1, <2>2
<1>11. Distinct(stack')
  <2> SUFFICES ASSUME NEW u \in Threads, NEW v \in Threads, NEW i \in 1..Len(stack'[u]),
                      NEW j \in 1..Len(stack'[v]), stack'[u][i] = stack'[v][j]
               PROVE  u = v /\ i = j
    BY DEF Distinct
  <2>1. CASE i \in 1..Len(stack[u]) /\ stack'[u][i] = stack[u][i]
    <3>1. stack[u][i] # p
      BY <1>8, <2>1 DEF On
    <3>2. j \in 1..Len(stack[v]) /\ stack'[v][j] = stack[v][j]
      BY <1>10, <2>1, <3>1
    <3>3. stack[u][i] = stack[v][j] /\ Distinct(stack)
      BY <1>1, <2>1, <3>2
    <3> QED
      BY <2>1, <3>2, <3>3 DEF Distinct
  <2>2. CASE u = t /\ i = Len(stack[t]) + 1 /\ stack'[u][i] = p
    <3>1. v = t /\ j = Len(stack[t]) + 1
      BY <1>8, <1>10, <2>2 DEF On
    <3> QED
      BY <2>2, <3>1
  <2> QED
    BY <1>10, <2>1, <2>2
<1>12. \A q \in Sessions : On(q, stack') => q = p \/ On(q, stack)
  BY <1>10 DEF On
<1>13. OneSession' /\ (signals' = 0 => supervisor' \notin failed')
  BY <1>1, <1>3, <1>5, <1>6 DEF OneSession
<1>14. ASSUME NEW u \in Threads PROVE TurnOk(u)'
  BY <1>1, <1>3, <1>4, <1>7 DEF TurnOk, Setup, Teardown
<1>15. ASSUME NEW q \in Sessions PROVE WholeOk(q)'
  <2>1. CASE q = p
    BY <1>1, <1>3, <1>5, <2>1 DEF WholeOk, LifeType
  <2>2. CASE q # p
    <3>1. q \in enabled' => q \in isShutdown'
      BY <1>1, <1>3, <1>6, <2>2 DEF LifeType
    <3> QED
      BY <3>1 DEF WholeOk
  <2> QED
    BY <2>1, <2>2
<1>16. ASSUME NEW q \in Sessions PROVE PlaceOk(q)'
  <2>1. CASE q = p
    <3>1. ~ RootDone(p)'
      <4>1. p \notin torn'
        BY <1>1, <1>3, <1>5 DEF LifeType
      <4>2. \A u \in Threads : u # t /\ call[u].pc \in Teardown => call[u].sess # p
        BY <1>1, <1>5 DEF CallOk
      <4> QED
        BY <1>4, <4>1, <4>2 DEF RootDone, Teardown
    <3>2. above'[p] \in foreign \cup {None}
      <4>1. above'[p] = above[p] \/ above'[p] = None \/
               (stack[t] # <<>> /\ above'[p] = stack[t][Len(stack[t])])
        BY <1>3
      <4>2. CASE stack[t] # <<>> /\ above'[p] = stack[t][Len(stack[t])]
        <5>1. Len(stack[t]) \in 1..Len(stack[t])
          BY <1>9, <4>2, EmptySeq
        <5>2. stack[t][Len(stack[t])] \in Sessions /\ On(stack[t][Len(stack[t])], stack)
          BY <1>9, <5>1, ElementOfSeq DEF On
        <5>3. stack[t][Len(stack[t])] \in torn
          BY <1>1, <1>6, <5>2 DEF PlaceOk, LifeType
        <5> QED
          BY <1>1, <4>2, <5>2, <5>3 DEF PlaceOk, RootDone
      <4> QED
        BY <1>1, <1>5, <4>1, <4>2 DEF PlaceOk
    <3>3. p \in enabled' /\ foreign' = foreign
      BY <1>3
    <3> QED
      BY <2>1, <3>1, <3>2, <3>3 DEF PlaceOk
  <2>2. CASE q # p
    <3>1. On(q, stack') => On(q, stack)
      BY <1>12, <2>2
    <3>2. RootDone(q)' => RootDone(q)
      BY <1>3, <1>4 DEF RootDone, Teardown
    <3>3. above'[q] = above[q]
      BY <1>3, <2>2
    <3>4. foreign' = foreign /\ (q \in enabled => q \in enabled') /\ PlaceOk(q)
      BY <1>1, <1>3
    <3> QED
      BY <3>1, <3>2, <3>3, <3>4 DEF PlaceOk
  <2> QED
    BY <2>1, <2>2
<1> QED
  BY <1>11, <1>13, <1>14, <1>15, <1>16 DEF Apart

\* The root leaves the stack it is on, if that is the one of the thread that shuts the
\* session down, and no other one does.
LEMMA ApartShutdownRoot ==
    ASSUME OneShutter, EndInv, CauseOk, Apart, ~ Exiting, NEW t \in Threads, ShutdownRoot(t)
    PROVE  Apart'
<1> USE LifecycleAssumption
<1>1. /\ LifeType /\ StackOk /\ \A u \in Threads : CallOk(u) /\ TurnOk(u)
      /\ \A q \in Sessions : SessionOk(q) /\ WholeOk(q) /\ PlaceOk(q)
      /\ OneSession /\ Distinct(stack) /\ (signals = 0 => supervisor \notin failed)
  BY DEF EndInv, Apart
<1>2. /\ UNCHANGED <<profilerLock, stateLock, singleton, made, enabled, isShutdown, hooks,
                     transports, supervisor, running, above, delivered, over, registered,
                     signals, failed, cut, torn>>
      /\ call[t].pc = "root"
  BY DEF ShutdownRoot, At, session, flush
<1>3. \A u \in Threads : /\ call'[u].pc = IF u = t THEN "uninstall" ELSE call[u].pc
                         /\ call'[u].sess = call[u].sess
  BY <1>1, GotoMoves DEF ShutdownRoot, Pcs
<1>4. PICK p \in Sessions : /\ p = call[t].sess /\ p \in isShutdown /\ p \in made
                           /\ p \notin torn /\ singleton = p
  BY <1>1, <1>2 DEF CallOk, TurnOk, LifeType, OneSession, Teardown
<1>5. /\ stack' \in [Threads -> Seq(Sessions)] /\ foreign \subseteq foreign'
      /\ \A u \in Threads : Len(stack'[u]) <= Len(stack[u])
      /\ \A u \in Threads : \A i \in 1..Len(stack'[u]) : stack'[u][i] = stack[u][i]
  BY <1>1, <1>4, RootEffect
<1>6. ASSUME NEW u \in Threads, NEW i \in 1..Len(stack'[u]) PROVE i \in 1..Len(stack[u])
  BY <1>1, <1>5 DEF LifeType
<1>7. Distinct(stack')
  BY <1>1, <1>5, <1>6 DEF Distinct
<1>8. \A q \in Sessions : On(q, stack') => On(q, stack)
  BY <1>5, <1>6 DEF On
<1>9. On(p, stack') => p \in foreign'
  <2> DEFINE place == {i \in 1..Len(stack[t]) : stack[t][i] = p}
  <2>1. CASE place = {}
    BY <1>4, <2>1 DEF ShutdownRoot
  <2>2. CASE place # {}
    <3>1. PICK i \in place : stack' = [stack EXCEPT ![t] = SubSeq(stack[t], 1, i - 1)]
      BY <1>4, <2>2 DEF ShutdownRoot
    <3>2. i \in 1..Len(stack[t]) /\ stack[t][i] = p
      OBVIOUS
    <3>3. stack[t] \in Seq(Sessions) /\ Len(stack[t]) \in Nat
      BY <1>1 DEF LifeType
    <3>4. Len(SubSeq(stack[t], 1, i - 1)) = i - 1
      BY <3>2, <3>3
    <3>5. Len(stack'[t]) = i - 1
      BY <1>1, <3>1, <3>4 DEF LifeType
    <3>6. ASSUME NEW u \in Threads, NEW j \in 1..Len(stack'[u]), stack'[u][j] = p
          PROVE  FALSE
      <4>1. j \in 1..Len(stack[u]) /\ stack[u][j] = p
        BY <1>5, <1>6, <3>6
      <4>2. u = t /\ j = i
        BY <1>1, <3>2, <4>1 DEF Distinct
      <4> QED
        BY <3>2, <3>3, <3>5, <3>6, <4>2
    <3> QED
      BY <3>6 DEF On
  <2> QED
    BY <2>1, <2>2
<1>10. OneSession' /\ (signals' = 0 => supervisor' \notin failed')
  BY <1>1, <1>2 DEF OneSession
<1>11. ASSUME NEW u \in Threads PROVE TurnOk(u)'
  BY <1>1, <1>2, <1>3 DEF TurnOk, Setup, Teardown
<1>12. ASSUME NEW q \in Sessions PROVE WholeOk(q)'
  <2>1. q \notin enabled \ isShutdown
    <3>1. q \in enabled \ isShutdown => q \in made /\ q \notin torn
      BY <1>1 DEF LifeType
    <3> QED
      BY <1>1, <1>4, <3>1 DEF OneSession
  <2> QED
    BY <1>2, <2>1 DEF WholeOk
<1>13. ASSUME NEW q \in Sessions PROVE PlaceOk(q)'
  <2>1. RootDone(q)' => RootDone(q) \/ q = p
    BY <1>2, <1>3, <1>4 DEF RootDone, Teardown
  <2>2. foreign \subseteq foreign' /\ enabled' = enabled /\ above' = above /\ PlaceOk(q)
    BY <1>1, <1>2, <1>5
  <2> QED
    BY <1>8, <1>9, <2>1, <2>2 DEF PlaceOk
<1> QED
  BY <1>7, <1>10, <1>11, <1>12, <1>13 DEF Apart

LEMMA ApartHandlerStop ==
    ASSUME EndInv, CauseOk, Apart, ~ Exiting, HandlerStop
    PROVE  Apart'
<1>1. /\ \A u \in Threads : TurnOk(u)
      /\ \A q \in Sessions : WholeOk(q) /\ PlaceOk(q)
      /\ OneSession /\ Distinct(stack)
  BY DEF Apart
<1>2. /\ UNCHANGED <<profilerLock, stateLock, singleton, made, enabled, isShutdown, hooks,
                     transports, fallback, root, stack, above, delivered, call,
                     registered, signals, failed, cut, torn, foreign>>
      /\ signals # 0
  BY DEF HandlerStop, EndInv, LifeType, CauseOk, Exiting, session, spans, history
<1>3. OneSession' /\ Distinct(stack')
  BY <1>1, <1>2 DEF OneSession
<1>4. ASSUME NEW u \in Threads PROVE TurnOk(u)'
  BY <1>1, <1>2 DEF TurnOk
<1>5. ASSUME NEW q \in Sessions PROVE WholeOk(q)' /\ PlaceOk(q)'
  BY <1>1, <1>2 DEF WholeOk, PlaceOk, RootDone
<1> QED
  BY <1>2, <1>3, <1>4, <1>5 DEF Apart

LEMMA ApartHandlerChain == ASSUME Apart, HandlerChain PROVE Apart'
<1>1. UNCHANGED <<singleton, made, enabled, isShutdown, hooks, transports, supervisor,
                  running, fallback, root, stack, above, call, signals, failed, torn,
                  foreign>>
  BY DEF HandlerChain, session, flush, spans, history
<1> QED
  BY <1>1 DEF Apart, OneSession, TurnOk, WholeOk, PlaceOk, RootDone

LEMMA ApartHandlerInterrupts ==
    ASSUME EndInv, CauseOk, Apart, ~ Exiting, HandlerInterrupts
    PROVE  Apart'
<1> USE LifecycleAssumption
<1>1. /\ LifeType /\ \A u \in Threads : TurnOk(u)
      /\ \A q \in Sessions : WholeOk(q) /\ PlaceOk(q)
      /\ OneSession /\ Distinct(stack)
  BY DEF EndInv, Apart
<1>2. /\ UNCHANGED <<singleton, made, enabled, isShutdown, hooks, transports, supervisor,
                     running, fallback, root, stack, above, signals, torn, foreign>>
      /\ signals # 0
  BY DEF HandlerInterrupts, EndInv, LifeType, CauseOk, Exiting, session, flush, spans
<1>3. \A u \in Threads : /\ call'[u].pc = IF u = Main THEN "away" ELSE call[u].pc
                         /\ call'[u].sess = IF u = Main THEN None ELSE call[u].sess
  BY <1>1, ReturnMoves DEF HandlerInterrupts
<1>4. OneSession' /\ Distinct(stack')
  BY <1>1, <1>2 DEF OneSession
<1>5. ASSUME NEW u \in Threads PROVE TurnOk(u)'
  BY <1>1, <1>2, <1>3 DEF TurnOk, Setup, Teardown
<1>6. ASSUME NEW q \in Sessions PROVE WholeOk(q)' /\ PlaceOk(q)'
  <2>1. RootDone(q)' => RootDone(q)
    BY <1>2, <1>3 DEF RootDone, Teardown
  <2> QED
    BY <1>1, <1>2, <2>1 DEF WholeOk, PlaceOk
<1> QED
  BY <1>2, <1>4, <1>5, <1>6 DEF Apart

-------------------------------------------------------------------------------

LEMMA CauseStep == ASSUME EndInv, CauseOk, [Next]_vars PROVE CauseOk'
<1>1. CASE UNCHANGED <<over, signals>>
  BY <1>1 DEF CauseOk
<1>2. CASE SignalArrives \/ ExitBegin \/ HandlerStep
  BY <1>2 DEF CauseOk, EndInv, LifeType, SignalArrives, ExitBegin, HandlerStep, ExitClear,
              HandlerFlush, HandlerStop, HandlerChain, HandlerInterrupts, NoHandler
<1>3. ASSUME NEW t \in Threads, ProfileStep(t) PROVE UNCHANGED <<over, signals>>
  BY <1>3 DEF ProfileStep, ProfileInstall, StartLock, Start, StartUnlock, StartRaises,
              ProfilePublish
<1>4. ASSUME NEW t \in Threads, ShutdownStep(t) PROVE UNCHANGED <<over, signals>>
  BY <1>4 DEF ShutdownStep, ShutdownMark, ShutdownRoot, ShutdownUninstall, ShutdownFlush,
              StopLock, Stop, ShutdownClose, ShutdownClear
<1>5. ASSUME NEW t \in Threads, NEW p \in Sessions, ProfileBegin(t, p) \/ ShutdownTest(t, p)
      PROVE  UNCHANGED <<over, signals>>
  BY <1>5 DEF ProfileBegin, ShutdownTest
<1>6. ASSUME Tick \/ UNCHANGED vars PROVE UNCHANGED <<over, signals>>
  BY <1>6 DEF Tick, vars
<1> QED
  BY <1>1, <1>2, <1>3, <1>4, <1>5, <1>6 DEF Next

\* A process that exits does nothing else any more.
LEMMA ExitStays == ASSUME EndInv, CauseOk, Exiting, [Next]_vars PROVE Exiting'
<1>1. CASE UNCHANGED over
  BY <1>1 DEF Exiting
<1>2. CASE HandlerStep
  BY <1>2 DEF CauseOk, EndInv, LifeType, Exiting, HandlerStep, ExitClear, HandlerFlush,
              HandlerStop, HandlerChain, HandlerInterrupts
<1>3. ASSUME NEW t \in Threads, ProfileStep(t) PROVE UNCHANGED over
  BY <1>3 DEF ProfileStep, ProfileInstall, StartLock, Start, StartUnlock, StartRaises,
              ProfilePublish
<1>4. ASSUME NEW t \in Threads, ShutdownStep(t) PROVE UNCHANGED over
  BY <1>4 DEF ShutdownStep, ShutdownMark, ShutdownRoot, ShutdownUninstall, ShutdownFlush,
              StopLock, Stop, ShutdownClose, ShutdownClear
<1>5. ASSUME NEW t \in Threads, NEW p \in Sessions, ProfileBegin(t, p) \/ ShutdownTest(t, p)
      PROVE  UNCHANGED over
  BY <1>5 DEF ProfileBegin, ShutdownTest
<1>6. ASSUME Tick \/ UNCHANGED vars PROVE UNCHANGED over
  BY <1>6 DEF Tick, vars
<1>7. ASSUME SignalArrives \/ ExitBegin PROVE FALSE
  BY <1>7 DEF SignalArrives, ExitBegin, Exiting
<1> QED
  BY <1>1, <1>2, <1>3, <1>4, <1>5, <1>6, <1>7 DEF Next

LEMMA ApartInit == Init => ApartInv
<1> SUFFICES ASSUME Init PROVE ApartInv
  OBVIOUS
<1>1. EndInv
  BY EndInit
<1>2. CauseOk
  BY DEF Init, NoHandler, CauseOk
<1>3. ASSUME NEW t \in Threads PROVE TurnOk(t)
  BY DEF Init, Away, TurnOk, Setup, Teardown
<1>4. ASSUME NEW q \in Sessions PROVE WholeOk(q) /\ PlaceOk(q)
  BY DEF Init, WholeOk, PlaceOk, On
<1>5. OneSession /\ Distinct(stack) /\ supervisor \notin failed
  BY DEF Init, OneSession, Distinct
<1> QED
  BY <1>1, <1>2, <1>3, <1>4, <1>5 DEF ApartInv, Apart

LEMMA ApartStep == ASSUME OneShutter, ApartInv, [Next]_vars PROVE ApartInv'
<1>1. EndInv /\ CauseOk /\ EndInv' /\ CauseOk'
  BY EndStep, CauseStep DEF ApartInv
<1>2. CASE Exiting
  BY <1>1, <1>2, ExitStays DEF ApartInv
<1>3. CASE ~ Exiting
  <2>1. Apart
    BY <1>3 DEF ApartInv
  <2>2. ASSUME NEW t \in Threads, ProfileStep(t) PROVE Apart'
    BY <1>1, <1>3, <2>1, <2>2, ApartProfileInstall, ApartStartLock, ApartStart,
       ApartStartUnlock, ApartStartRaises, ApartProfilePublish DEF ProfileStep
  <2>3. ASSUME NEW t \in Threads, ShutdownStep(t) PROVE Apart'
    BY <1>1, <1>3, <2>1, <2>3, ApartShutdownMark, ApartShutdownRoot,
       ApartShutdownUninstall, ApartShutdownFlush, ApartStopLock, ApartStop,
       ApartShutdownClose, ApartShutdownClear DEF ShutdownStep
  <2>4. ASSUME NEW t \in Threads, NEW p \in Sessions, ProfileBegin(t, p) PROVE Apart'
    BY <1>1, <1>3, <2>1, <2>4, ApartProfileBegin
  <2>5. ASSUME NEW t \in Threads, NEW p \in Sessions, ShutdownTest(t, p) PROVE Apart'
    BY <1>1, <1>3, <2>1, <2>5, ApartShutdownTest
  <2>6. ASSUME HandlerStep PROVE Apart'
    <3>1. ~ ExitClear
      BY <1>1, <1>3 DEF CauseOk, Exiting, ExitClear
    <3> QED
      BY <1>1, <1>3, <2>1, <2>6, <3>1, ApartHandlerFlush, ApartHandlerStop,
         ApartHandlerChain, ApartHandlerInterrupts DEF HandlerStep
  <2>7. ASSUME SignalArrives \/ Tick PROVE Apart'
    BY <1>1, <1>3, <2>1, <2>7, ApartSignalArrives, ApartTick
  <2>8. ASSUME ExitBegin PROVE Exiting'
    BY <2>8 DEF ExitBegin, Exiting
  <2>9. ASSUME UNCHANGED vars PROVE Apart'
    BY <2>1, <2>9 DEF vars, session, flush, spans, history, Apart, OneSession, TurnOk,
                      WholeOk, PlaceOk, RootDone
  <2> QED
    BY <1>1, <2>2, <2>3, <2>4, <2>5, <2>6, <2>7, <2>8, <2>9 DEF Next, ApartInv
<1> QED
  BY <1>2, <1>3

LEMMA ApartEnough == ASSUME ApartInv PROVE SessionsApart
<1>1. CASE Exiting
  BY <1>1 DEF SessionsApart, ActiveIsWhole, OneSessionHooked, RootsApart
<1>2. CASE ~ Exiting
  <2>1. Apart /\ EndInv
    BY <1>2 DEF ApartInv
  <2>2. ActiveIsWhole
    BY <2>1 DEF Apart, WholeOk, ActiveIsWhole, Live
  <2>3. RootsApart
    BY <2>1 DEF Apart, PlaceOk, RootsApart
  <2>4. \A p, q \in hooks \ failed : p = q
    <3>1. ASSUME NEW p \in hooks \ failed
          PROVE  \/ p \in Sessions /\ singleton = p
                 \/ /\ singleton = None
                    /\ \E t \in Threads : call[t].sess = p /\ profilerLock = t
      <4>1. p \in Sessions /\ SessionOk(p) /\ p \notin torn
        BY <2>1 DEF EndInv, LifeType, SessionOk
      <4>2. CASE p \in made
        BY <2>1, <4>1, <4>2 DEF Apart, OneSession
      <4>3. CASE p \notin made
        BY <2>1, <4>1, <4>3 DEF SessionOk, Apart, TurnOk, EndInv, CallOk
      <4> QED
        BY <4>2, <4>3
    <3> QED
      BY <3>1, LifecycleAssumption
  <2>5. Cardinality(hooks \ failed) <= 1
    <3>1. CASE hooks \ failed = {}
      BY <3>1, FS_EmptySet
    <3>2. CASE hooks \ failed # {}
      <4>1. PICK p : hooks \ failed = {p}
        BY <2>4, <3>2
      <4> QED
        BY <4>1, FS_Singleton
    <3> QED
      BY <3>1, <3>2
  <2> QED
    BY <2>2, <2>3, <2>5 DEF SessionsApart, OneSessionHooked
<1> QED
  BY <1>1, <1>2

\* Where one thread shuts sessions down, whatever threads open them: the session that
\* profile() hands out is whole until its shutdown begins, no two sessions have their
\* hooks in at once, and the root of one is no child of another's.
THEOREM OneShutterSessionsApart ==
    ASSUME OneShutter
    PROVE  Spec => []SessionsApart
<1>1. Init => ApartInv
  BY ApartInit
<1>2. ApartInv /\ [Next]_vars => ApartInv'
  BY OneShutter, ApartStep
<1>3. ApartInv => SessionsApart
  BY ApartEnough
<1> QED
  BY <1>1, <1>2, <1>3, PTL DEF Spec
================================================================================
