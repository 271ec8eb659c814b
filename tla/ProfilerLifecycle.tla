--------------------------- MODULE ProfilerLifecycle ---------------------------
(***************************************************************************)
(* core/profiler.py, with the start, the stop and the exit handlers of     *)
(* core/flush.py: how a profiling session is set up by profile(), torn     *)
(* down by shutdown(), and cut short by a signal or the end of the         *)
(* process.  profile() holds _profiler_lock from end to end; shutdown()    *)
(* takes it only to clear the singleton, and guards itself with the        *)
(* attribute _is_shutdown, which it tests and sets without a lock.         *)
(*                                                                         *)
(* A signal handler runs on the main thread, on top of whatever that       *)
(* thread is doing: "over" is that frame, and while it is there the call   *)
(* under it does not move.  The locks are not reentrant.                   *)
(*                                                                         *)
(* A session is one Profiler object.  Its hooks, its transport and its     *)
(* worker are each one item here; Supervisor and FlushPipeline open them.  *)
(***************************************************************************)
EXTENDS Naturals, Sequences, FiniteSets

CONSTANTS Sessions,     \* Profiler objects
          Threads,      \* threads that call the module
          Main,         \* the main thread
          Shutters,     \* threads that call shutdown()
          StartFails,   \* TRUE if the spool directory may be refused
          Dispositions, \* what the prior handler of a signal may do
          Signals,      \* bound: signals delivered
          None

ASSUME LifecycleAssumption ==
    /\ Main \in Threads /\ Shutters \subseteq Threads
    /\ StartFails \in BOOLEAN /\ Signals \in Nat
    /\ Dispositions \subseteq {"ignore", "interrupt", "die"}
    /\ None \notin Sessions \cup Threads

VARIABLES
    profilerLock, \* owner of _profiler_lock
    stateLock,    \* owner of _state_lock
    singleton,    \* _profiler
    made,         \* sessions whose Profiler object exists
    enabled,      \* those of them that are enabled
    isShutdown,   \* those whose _is_shutdown is set
    hooks,        \* sessions whose hooks are installed
    supervisor,   \* _supervisor: the session it was started for
    running,      \* sessions whose worker runs
    transports,   \* sessions whose transport is open
    fallback,     \* the session whose root marks fall back to
    root,         \* session -> "none", "open" or "closed"
    stack,        \* thread -> sessions whose root is on its stack
    above,        \* session -> the session whose root is the parent of its root
    delivered,    \* sessions whose closed root was drained
    call,         \* per thread: the call in progress
    over,         \* the signal or exit handler on the main thread
    registered,   \* _exit_handlers_registered
    signals,      \* signals delivered so far
    failed,       \* history: sessions whose profile() did not get through
    cut,          \* history: sessions whose shutdown() a signal cut short
    torn,         \* history: sessions whose shutdown() ran to its end
    foreign       \* history: sessions whose root another thread closed

session == <<made, enabled, isShutdown, hooks, transports>>
flush   == <<supervisor, running>>
spans   == <<fallback, root, stack, above, delivered>>
history == <<failed, cut, torn, foreign>>
vars == <<profilerLock, stateLock, singleton, session, flush, spans, call, over,
          registered, signals, history>>

Away == [pc |-> "away", sess |-> None]
NoHandler == [pc |-> "none", cause |-> "signal", before |-> {}]

Init ==
    /\ profilerLock = None /\ stateLock = None /\ singleton = None
    /\ made = {} /\ enabled = {} /\ isShutdown = {} /\ hooks = {} /\ transports = {}
    /\ supervisor = None /\ running = {}
    /\ fallback = None
    /\ root = [p \in Sessions |-> "none"]
    /\ stack = [t \in Threads |-> <<>>]
    /\ above = [p \in Sessions |-> None]
    /\ delivered = {}
    /\ call = [t \in Threads |-> Away]
    /\ over = NoHandler
    /\ registered = FALSE /\ signals = 0
    /\ failed = {} /\ cut = {} /\ torn = {} /\ foreign = {}

-------------------------------------------------------------------------------
(* Helpers *)

Closed == {p \in Sessions : root[p] = "closed"}

\* The thread runs, and is at this point of its call.
At(t, pc) == call[t].pc = pc /\ (t = Main => over.pc = "none")

Goto(t, pc) == call' = [call EXCEPT ![t].pc = pc]
Begin(t, pc, p) == call' = [call EXCEPT ![t] = [pc |-> pc, sess |-> p]]
Return(t) == call' = [call EXCEPT ![t] = Away]

\* flush_now, as far as root spans are concerned.
Flush == delivered' = delivered \cup Closed

-------------------------------------------------------------------------------
(* profile *)

\* A call that finds a session returns it and changes nothing.  A disabled
\* session is a handle and nothing else.
ProfileBegin(t, p) ==
    /\ At(t, "away") /\ profilerLock = None /\ singleton = None
    /\ p \notin made \cup failed /\ \A u \in Threads : call[u].sess # p
    /\ \/ /\ profilerLock' = t
          /\ Begin(t, "install", p)
          /\ UNCHANGED <<singleton, made>>
       \/ /\ made' = made \cup {p} /\ singleton' = p
          /\ UNCHANGED <<profilerLock, call>>
    /\ UNCHANGED <<stateLock, enabled, isShutdown, hooks, transports, flush, spans, over,
                   registered, signals, history>>

\* select_transport and install_hooks
ProfileInstall(t) ==
    /\ At(t, "install")
    /\ transports' = transports \cup {call[t].sess}
    /\ hooks' = hooks \cup {call[t].sess}
    /\ Goto(t, "lock")
    /\ UNCHANGED <<profilerLock, stateLock, singleton, made, enabled, isShutdown, flush,
                   spans, over, registered, signals, history>>

\* start_flush_thread enters its section under _state_lock.
StartLock(t) ==
    /\ At(t, "lock") /\ stateLock = None
    /\ stateLock' = t
    /\ Goto(t, "start")
    /\ UNCHANGED <<profilerLock, singleton, session, flush, spans, over, registered,
                   signals, history>>

\* The worker of the session that is there already, or one of its own; the exit
\* handlers are registered under the lock too.
Start(t) ==
    /\ At(t, "start")
    /\ IF supervisor # None THEN UNCHANGED flush
       ELSE supervisor' = call[t].sess /\ running' = running \cup {call[t].sess}
    /\ registered' = TRUE
    /\ Goto(t, "unlock")
    /\ UNCHANGED <<profilerLock, stateLock, singleton, session, spans, over, signals,
                   history>>

StartUnlock(t) ==
    /\ At(t, "unlock")
    /\ stateLock' = None
    /\ Goto(t, "publish")
    /\ UNCHANGED <<profilerLock, singleton, session, flush, spans, over, registered,
                   signals, history>>

\* SpoolWriter cannot make its directory: the exception leaves profile().
StartRaises(t) ==
    /\ StartFails /\ At(t, "start") /\ supervisor = None
    /\ stateLock' = None /\ profilerLock' = None
    /\ failed' = failed \cup {call[t].sess}
    /\ Return(t)
    /\ UNCHANGED <<singleton, session, flush, spans, over, registered, signals, cut, torn,
                   foreign>>

\* The root scope, the fallback of marks, the Profiler object, the singleton.
ProfilePublish(t) ==
    /\ At(t, "publish")
    /\ LET p == call[t].sess IN
         /\ root' = [root EXCEPT ![p] = "open"]
         /\ above' = [above EXCEPT ![p] = IF stack[t] = <<>> THEN None
                                          ELSE stack[t][Len(stack[t])]]
         /\ stack' = [stack EXCEPT ![t] = Append(@, p)]
         /\ fallback' = p
         /\ made' = made \cup {p} /\ enabled' = enabled \cup {p}
         /\ singleton' = p
    /\ profilerLock' = None
    /\ Return(t)
    /\ UNCHANGED <<stateLock, isShutdown, hooks, transports, flush, delivered, over,
                   registered, signals, history>>

-------------------------------------------------------------------------------
(* shutdown *)

\* "if self._is_shutdown: return"
ShutdownTest(t, p) ==
    /\ t \in Shutters /\ At(t, "away") /\ p \in made \ isShutdown
    /\ Begin(t, "mark", p)
    /\ UNCHANGED <<profilerLock, stateLock, singleton, session, flush, spans, over,
                   registered, signals, history>>

\* Faulty: clears the singleton first, so that a new session may begin.
ShutdownMarkClears(t) ==
    /\ At(t, "mark") /\ profilerLock = None
    /\ isShutdown' = isShutdown \cup {call[t].sess}
    /\ singleton' = IF singleton = call[t].sess THEN None ELSE singleton
    /\ Goto(t, IF call[t].sess \in enabled THEN "root" ELSE "clear")
    /\ UNCHANGED <<profilerLock, stateLock, made, enabled, hooks, transports, flush, spans,
                   over, registered, signals, history>>

\* "self._is_shutdown = True"; a disabled session has only the singleton to clear.
ShutdownMark(t) ==
    /\ At(t, "mark")
    /\ isShutdown' = isShutdown \cup {call[t].sess}
    /\ Goto(t, IF call[t].sess \in enabled THEN "root" ELSE "clear")
    /\ UNCHANGED <<profilerLock, stateLock, singleton, made, enabled, hooks, transports,
                   flush, spans, over, registered, signals, history>>

\* Marks have no fallback any more.  The root is popped if this is the thread that
\* opened it, with whatever is above it, and closed in place if not.
ShutdownRoot(t) ==
    /\ At(t, "root")
    /\ fallback' = None
    /\ LET p     == call[t].sess
           place == {i \in 1..Len(stack[t]) : stack[t][i] = p}
       IN  IF place = {}
           THEN /\ root' = [root EXCEPT ![p] = "closed"]
                /\ foreign' = foreign \cup {p}
                /\ UNCHANGED stack
           ELSE \E i \in place :
                  /\ root' = [q \in Sessions |->
                        IF \E j \in i..Len(stack[t]) : stack[t][j] = q THEN "closed"
                        ELSE root[q]]
                  /\ stack' = [stack EXCEPT ![t] = SubSeq(@, 1, i - 1)]
                  /\ UNCHANGED foreign
    /\ Goto(t, "uninstall")
    /\ UNCHANGED <<profilerLock, stateLock, singleton, session, flush, above, delivered,
                   over, registered, signals, failed, cut, torn>>

ShutdownUninstall(t) ==
    /\ At(t, "uninstall")
    /\ hooks' = hooks \ {call[t].sess}
    /\ Goto(t, "flush")
    /\ UNCHANGED <<profilerLock, stateLock, singleton, made, enabled, isShutdown,
                   transports, flush, spans, over, registered, signals, history>>

\* Faulty: leaves the last drain to the worker, which is stopped next.
ShutdownNoFlush(t) ==
    /\ At(t, "flush")
    /\ Goto(t, "stoplock")
    /\ UNCHANGED <<profilerLock, stateLock, singleton, session, flush, spans, over,
                   registered, signals, history>>

ShutdownFlush(t) ==
    /\ At(t, "flush")
    /\ Flush
    /\ Goto(t, "stoplock")
    /\ UNCHANGED <<profilerLock, stateLock, singleton, session, flush, fallback, root,
                   stack, above, over, registered, signals, history>>

\* stop_flush_thread under _state_lock.
StopLock(t) ==
    /\ At(t, "stoplock") /\ stateLock = None
    /\ stateLock' = t
    /\ Goto(t, "stop")
    /\ UNCHANGED <<profilerLock, singleton, session, flush, spans, over, registered,
                   signals, history>>

\* Whatever supervisor there is; it is joined outside the lock.
Stop(t) ==
    /\ At(t, "stop")
    /\ running' = running \ {supervisor}
    /\ supervisor' = None
    /\ stateLock' = None
    /\ Goto(t, "close")
    /\ UNCHANGED <<profilerLock, singleton, session, spans, over, registered, signals,
                   history>>

ShutdownClose(t) ==
    /\ At(t, "close")
    /\ transports' = transports \ {call[t].sess}
    /\ Goto(t, "clear")
    /\ UNCHANGED <<profilerLock, stateLock, singleton, made, enabled, isShutdown, hooks,
                   flush, spans, over, registered, signals, history>>

\* Faulty: a disabled session keeps the singleton.
ShutdownClearEnabledOnly(t) ==
    /\ At(t, "clear") /\ profilerLock = None
    /\ singleton' = IF singleton = call[t].sess /\ call[t].sess \in enabled THEN None
                    ELSE singleton
    /\ torn' = torn \cup {call[t].sess}
    /\ Return(t)
    /\ UNCHANGED <<profilerLock, stateLock, session, flush, spans, over, registered, signals,
                   failed, cut, foreign>>

\* Under _profiler_lock, and the return.
ShutdownClear(t) ==
    /\ At(t, "clear") /\ profilerLock = None
    /\ singleton' = IF singleton = call[t].sess THEN None ELSE singleton
    /\ torn' = torn \cup {call[t].sess}
    /\ Return(t)
    /\ UNCHANGED <<profilerLock, stateLock, session, flush, spans, over, registered, signals,
                   failed, cut, foreign>>

-------------------------------------------------------------------------------
(* The exit handlers, on the main thread *)

\* _signal_handler interrupts the main thread anywhere.
SignalArrives ==
    /\ registered /\ over.pc = "none" /\ signals < Signals
    /\ signals' = signals + 1
    /\ over' = [pc |-> "flush", cause |-> "signal", before |-> Closed]
    /\ UNCHANGED <<profilerLock, stateLock, singleton, session, flush, spans, call,
                   registered, history>>

\* The interpreter exits: the handlers run in the reverse order of registration.
ExitBegin ==
    /\ registered /\ over.pc = "none" /\ call[Main] = Away
    /\ over' = [pc |-> "clear", cause |-> "exit", before |-> Closed]
    /\ UNCHANGED <<profilerLock, stateLock, singleton, session, flush, spans, call,
                   registered, signals, history>>

\* _atexit_clear_singleton
ExitClear ==
    /\ over.pc = "clear" /\ profilerLock = None
    /\ singleton' = None
    /\ over' = [over EXCEPT !.pc = "flush"]
    /\ UNCHANGED <<profilerLock, stateLock, session, flush, spans, call, registered,
                   signals, history>>

\* _shutdown: flush_now ...
HandlerFlush ==
    /\ over.pc = "flush"
    /\ Flush
    /\ over' = [over EXCEPT !.pc = "stop"]
    /\ UNCHANGED <<profilerLock, stateLock, singleton, session, flush, fallback, root,
                   stack, above, call, registered, signals, history>>

\* ... and stop_flush_thread, which waits for _state_lock.
HandlerStop ==
    /\ over.pc = "stop" /\ stateLock = None
    /\ running' = running \ {supervisor}
    /\ supervisor' = None
    /\ over' = [over EXCEPT !.pc = IF over.cause = "exit" THEN "gone" ELSE "chain"]
    /\ UNCHANGED <<profilerLock, stateLock, singleton, session, spans, call, registered,
                   signals, history>>

\* The prior disposition: SIG_IGN returns, the default one ends the process.
HandlerChain ==
    /\ over.pc = "chain"
    /\ \/ "ignore" \in Dispositions /\ over' = NoHandler
       \/ "die" \in Dispositions /\ over' = [over EXCEPT !.pc = "gone"]
    /\ UNCHANGED <<profilerLock, stateLock, singleton, session, flush, spans, call,
                   registered, signals, history>>

\* Python's own SIGINT handler raises KeyboardInterrupt in the interrupted call,
\* which releases its locks and is not caught on the way out.
HandlerInterrupts ==
    /\ over.pc = "chain" /\ "interrupt" \in Dispositions
    /\ over' = NoHandler
    /\ profilerLock' = IF profilerLock = Main THEN None ELSE profilerLock
    /\ LET p == call[Main].sess IN
         /\ failed' = IF p \notin made \cup {None} THEN failed \cup {p} ELSE failed
         /\ cut' = IF p \in isShutdown THEN cut \cup {p} ELSE cut
    /\ Return(Main)
    /\ UNCHANGED <<stateLock, singleton, session, flush, spans, registered, signals, torn,
                   foreign>>

\* A tick of a worker that runs.
Tick ==
    /\ running # {} /\ ~ (Closed \subseteq delivered)
    /\ Flush
    /\ UNCHANGED <<profilerLock, stateLock, singleton, session, flush, fallback, root,
                   stack, above, call, over, registered, signals, history>>

-------------------------------------------------------------------------------

ProfileStep(t) == \/ ProfileInstall(t) \/ StartLock(t) \/ Start(t) \/ StartUnlock(t)
                  \/ StartRaises(t) \/ ProfilePublish(t)

ShutdownStep(t) == \/ ShutdownMark(t) \/ ShutdownRoot(t) \/ ShutdownUninstall(t)
                   \/ ShutdownFlush(t) \/ StopLock(t) \/ Stop(t) \/ ShutdownClose(t)
                   \/ ShutdownClear(t)

HandlerStep == \/ ExitClear \/ HandlerFlush \/ HandlerStop \/ HandlerChain
               \/ HandlerInterrupts

\* A process that is gone takes no step.
Next == /\ over.pc # "gone"
        /\ \/ \E t \in Threads : \/ ProfileStep(t) \/ ShutdownStep(t)
                                 \/ \E p \in Sessions : \/ ProfileBegin(t, p)
                                                        \/ ShutdownTest(t, p)
           \/ SignalArrives \/ ExitBegin \/ HandlerStep \/ Tick

Spec == Init /\ [][Next]_vars

\* Every thread that is not waiting runs; nobody owes a call or a signal.
FairSpec == /\ Spec
            /\ \A t \in Threads : SF_vars(ProfileStep(t)) /\ SF_vars(ShutdownStep(t))
            /\ SF_vars(HandlerStep)

-------------------------------------------------------------------------------
(* Properties *)

Pcs == {"away", "install", "lock", "start", "unlock", "publish", "mark", "root",
        "uninstall", "flush", "stoplock", "stop", "close", "clear"}

\* The variables hold what the module globals and the Profiler objects hold.
TypeOK ==
    /\ profilerLock \in Threads \cup {None} /\ stateLock \in Threads \cup {None}
    /\ singleton \in Sessions \cup {None} /\ supervisor \in Sessions \cup {None}
    /\ enabled \subseteq made /\ isShutdown \subseteq made /\ made \subseteq Sessions
    /\ hooks \subseteq Sessions /\ transports \subseteq Sessions
    /\ running \subseteq Sessions /\ fallback \in Sessions \cup {None}
    /\ root \in [Sessions -> {"none", "open", "closed"}]
    /\ stack \in [Threads -> Seq(Sessions)]
    /\ above \in [Sessions -> Sessions \cup {None}]
    /\ delivered \subseteq Closed
    /\ call \in [Threads -> [pc : Pcs, sess : Sessions \cup {None}]]
    /\ over \in [pc : {"none", "clear", "flush", "stop", "chain", "gone"},
                 cause : {"signal", "exit"}, before : SUBSET Sessions]
    /\ registered \in BOOLEAN /\ signals \in Nat
    /\ failed \subseteq Sessions /\ cut \subseteq isShutdown /\ torn \subseteq isShutdown
    /\ foreign \subseteq Sessions

Live(p)  == singleton = p /\ p \in enabled \ isShutdown
Exiting  == over.pc # "none" /\ over.cause = "exit"

\* The session that profile() hands out works, until its shutdown begins, although
\* the teardown of an earlier one ran without the lock: its hooks are in, its
\* transport is open, marks fall back to its root and, unless a signal stopped the
\* worker, its own worker runs.
ActiveIsWhole ==
    \A p \in Sessions : Live(p) /\ ~ Exiting =>
        /\ p \in hooks /\ p \in transports
        /\ fallback = p /\ root[p] = "open"
        /\ signals = 0 => supervisor = p /\ p \in running

\* No two sessions have their hooks in at once, "no double-wrapped
\* DataLoader.__iter__", except those of a profile() that did not get through.
OneSessionHooked == Exiting \/ Cardinality(hooks \ failed) <= 1

\* When a shutdown that was not cut short returns, nothing of the session is left,
\* and its root span has been drained.
TornDownWhole ==
    \A p \in torn : /\ p \notin hooks \cup transports \cup running
                    /\ p \notin {singleton, supervisor, fallback}
                    /\ root[p] = "none" \/ p \in delivered

\* The root of a session is not a child of an earlier session's root, unless another
\* thread shut that one down and could not touch its stack.
RootsApart == Exiting \/ \A p \in Sessions : above[p] \in foreign \cup {None}

\* When the process ends through its handlers, every span that was closed when they
\* began has been drained.
ExitDelivers == over.pc = "gone" => over.before \subseteq delivered

\* Sessions that begin and end on several threads do not get in each other's way.
SessionsApart == ActiveIsWhole /\ OneSessionHooked /\ RootsApart

\* What a session, or the process, leaves when it ends: everything delivered, and
\* nothing running.
EndsWhole == TornDownWhole /\ ExitDelivers

\* The handler waits for a lock that the thread it interrupted holds.
Stuck == over.pc = "stop" /\ stateLock = Main

\* A shutdown that began comes to its end and frees the singleton, so that profile()
\* can make a new session, unless a signal cut it short or ended the process.
ShutdownEnds ==
    \A p \in Sessions :
        p \in isShutdown ~> singleton # p \/ p \in cut \/ Stuck \/ over.pc = "gone"
================================================================================
