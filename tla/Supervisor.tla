------------------------------ MODULE Supervisor ------------------------------
(***************************************************************************)
(* core/flush.py: the life of the flush worker.  start_flush_thread makes  *)
(* a supervisor, which owns one worker at a time and a watcher thread that *)
(* respawns a dead worker after a backoff and gives up the transport after *)
(* MaxDeaths deaths within Window.  stop_flush_thread takes the supervisor *)
(* out of the global under _state_lock and stops it outside the lock.      *)
(*                                                                         *)
(* The section of start_flush_thread under _state_lock is one step: what   *)
(* it shares with others is read under the same lock.  The workers of a    *)
(* supervisor are kept in a sequence, the last one being the newest; what  *)
(* self._worker refers to is "published", one step behind worker.start().  *)
(* What a worker does while it lives is FlushPipeline.                     *)
(***************************************************************************)
EXTENDS Integers, Sequences, FiniteSets, SequencesExt

CONSTANTS Supervisors,  \* the supervisors a process makes in its life
          Stoppers,     \* concurrent callers of stop_flush_thread
          MaxDeaths,    \* MAX_DEATHS
          Window,       \* WINDOW_SEC
          MaxBackoff,   \* MAX_BACKOFF
          DeathBound,   \* bound: deaths of the workers of one supervisor
          None

ASSUME SupervisorAssumption ==
    /\ MaxDeaths \in Nat \ {0}
    /\ Window \in Nat
    /\ MaxBackoff \in Nat \ {0}
    /\ DeathBound \in Nat
    /\ None \notin Supervisors

VARIABLES
    current,    \* the global _supervisor
    mode,       \* "none" before start, then "normal" or "spool_only"
    stopSet,    \* supervisors whose _stop event is set
    workers,    \* supervisor -> its workers, in the order they were started
    published,  \* supervisor -> index of the worker self._worker refers to
    watcher,    \* supervisor -> where its watcher thread is
    sleepLeft,  \* supervisor -> what is left of the watcher's backoff
    deaths,     \* supervisor -> _deaths, as ages
    stopper,    \* per caller: the stop_flush_thread in progress
    ages,       \* history: supervisor -> the age of every death, none forgotten
    near        \* history: supervisor -> the pairs of deaths within one window

history == <<ages, near>>
vars == <<current, mode, stopSet, workers, published, watcher, sleepLeft, deaths,
          stopper, history>>

Away    == [pc |-> "away", sup |-> None, timely |-> TRUE]
Minimum(a, b) == IF a < b THEN a ELSE b

Worker(g) == workers[g][published[g]]
Alive(g)  == {i \in 1..Len(workers[g]) : workers[g][i].alive}
Deaths(g) == Cardinality({i \in 1..Len(workers[g]) : workers[g][i].died})

NewWorker(transport) ==
    [alive |-> TRUE, died |-> FALSE, transport |-> transport, stopEvent |-> FALSE]

Init ==
    /\ current   = None
    /\ mode      = [g \in Supervisors |-> "none"]
    /\ stopSet   = {}
    /\ workers   = [g \in Supervisors |-> <<>>]
    /\ published = [g \in Supervisors |-> 0]
    /\ watcher   = [g \in Supervisors |-> "none"]
    /\ sleepLeft = [g \in Supervisors |-> 0]
    /\ deaths    = [g \in Supervisors |-> <<>>]
    /\ stopper   = [c \in Stoppers |-> Away]
    /\ ages      = [g \in Supervisors |-> <<>>]
    /\ near      = [g \in Supervisors |-> {}]

-------------------------------------------------------------------------------
(* start_flush_thread *)

\* The call returns the running supervisor if there is one: nothing changes then.
StartFlushThread(g) ==
    /\ current = None /\ mode[g] = "none"
    /\ current' = g
    /\ mode' = [mode EXCEPT ![g] = "normal"]
    /\ workers' = [workers EXCEPT ![g] = <<NewWorker(TRUE)>>]
    /\ published' = [published EXCEPT ![g] = 1]
    /\ watcher' = [watcher EXCEPT ![g] = "top"]
    /\ UNCHANGED <<stopSet, sleepLeft, deaths, stopper, history>>

-------------------------------------------------------------------------------
(* The worker threads *)

\* A failure the tick does not swallow ends the thread.
WorkerDies(g) ==
    /\ Deaths(g) < DeathBound
    /\ \E i \in Alive(g) :
         workers' = [workers EXCEPT ![g][i] = [@ EXCEPT !.alive = FALSE, !.died = TRUE]]
    /\ UNCHANGED <<current, mode, stopSet, published, watcher, sleepLeft, deaths,
                   stopper, history>>

\* The loop tests its own stop event before every tick.
WorkerExits(g) ==
    /\ \E i \in Alive(g) :
         /\ workers[g][i].stopEvent
         /\ workers' = [workers EXCEPT ![g][i].alive = FALSE]
    /\ UNCHANGED <<current, mode, stopSet, published, watcher, sleepLeft, deaths,
                   stopper, history>>

-------------------------------------------------------------------------------
(* The watcher thread, and the ways it could be wrong *)

\* Faulty: never forgets a death.
RecentUnpruned(g) == Append(deaths[g], 0)

\* What _record_death keeps: it pops the oldest death until that is not older than
\* the window.
FirstRecent(q) == CHOOSE i \in 1..Len(q) : q[i] <= Window /\ \A j \in 1..(i - 1) : q[j] > Window
Recent(g) == LET q == Append(deaths[g], 0) IN SubSeq(q, FirstRecent(q), Len(q))

\* The history of a death: how far it is from each death before it.
Remember(g) ==
    /\ ages' = [ages EXCEPT ![g] = Append(@, 0)]
    /\ near' = [near EXCEPT ![g] = @ \cup {<<i, Len(ages[g]) + 1>> :
                   i \in {i \in 1..(Len(ages[g]) + 1) : ages'[g][i] <= Window}}]

Backoff(n) == Minimum(2 ^ (n - 1), MaxBackoff)

\* Faulty: tests the stop only when the join found the worker alive.
WatcherLeavesLiveOnly(g) ==
    /\ watcher[g] = "top" /\ g \in stopSet /\ Worker(g).alive
    /\ watcher' = [watcher EXCEPT ![g] = "done"]
    /\ UNCHANGED <<current, mode, stopSet, workers, published, sleepLeft, deaths,
                   stopper, history>>

\* The watcher notices the stop at the top of its loop or after a join.
WatcherLeaves(g) ==
    /\ watcher[g] = "top" /\ g \in stopSet
    /\ watcher' = [watcher EXCEPT ![g] = "done"]
    /\ UNCHANGED <<current, mode, stopSet, workers, published, sleepLeft, deaths,
                   stopper, history>>

\* A join that timed out while the worker lives only goes round the loop.
WatcherFindsDead(g) ==
    /\ watcher[g] = "top" /\ g \notin stopSet /\ ~ Worker(g).alive
    /\ watcher' = [watcher EXCEPT ![g] = "record"]
    /\ UNCHANGED <<current, mode, stopSet, workers, published, sleepLeft, deaths,
                   stopper, history>>

\* Faulty: takes the degraded mode for a reason to give up.
RecordDeathGivesUp(g) ==
    /\ watcher[g] = "record"
    /\ deaths' = [deaths EXCEPT ![g] = Recent(g)]
    /\ mode' = [mode EXCEPT ![g] =
                  IF Len(Recent(g)) >= MaxDeaths THEN "spool_only" ELSE @]
    /\ sleepLeft' = [sleepLeft EXCEPT ![g] = Backoff(Len(Recent(g)))]
    /\ Remember(g)
    /\ watcher' = [watcher EXCEPT ![g] = IF mode'[g] = "spool_only" THEN "done"
                                         ELSE "sleep"]
    /\ UNCHANGED <<current, stopSet, workers, published, stopper>>

\* _record_death, and the test of the stop that follows it.
RecordDeath(g) ==
    /\ watcher[g] = "record"
    /\ deaths' = [deaths EXCEPT ![g] = Recent(g)]
    /\ mode' = [mode EXCEPT ![g] =
                  IF Len(Recent(g)) >= MaxDeaths THEN "spool_only" ELSE @]
    /\ sleepLeft' = [sleepLeft EXCEPT ![g] = Backoff(Len(Recent(g)))]
    /\ Remember(g)
    /\ watcher' = [watcher EXCEPT ![g] = IF g \in stopSet THEN "done" ELSE "sleep"]
    /\ UNCHANGED <<current, stopSet, workers, published, stopper>>

WatcherWakes(g) ==
    /\ watcher[g] = "sleep" /\ sleepLeft[g] = 0
    /\ watcher' = [watcher EXCEPT ![g] = IF g \in stopSet THEN "done" ELSE "spawn"]
    /\ UNCHANGED <<current, mode, stopSet, workers, published, sleepLeft, deaths,
                   stopper, history>>

\* _spawn as far as worker.start(): the new worker runs.
Spawn(g) ==
    /\ watcher[g] = "spawn"
    /\ workers' = [workers EXCEPT ![g] = Append(@, NewWorker(mode[g] = "normal"))]
    /\ watcher' = [watcher EXCEPT ![g] = "publish"]
    /\ UNCHANGED <<current, mode, stopSet, published, sleepLeft, deaths, stopper, history>>

\* Faulty: forgets self._worker = worker.
PublishNothing(g) ==
    /\ watcher[g] = "publish"
    /\ watcher' = [watcher EXCEPT ![g] = "top"]
    /\ UNCHANGED <<current, mode, stopSet, workers, published, sleepLeft, deaths,
                   stopper, history>>

\* self._worker = worker
Publish(g) ==
    /\ watcher[g] = "publish"
    /\ published' = [published EXCEPT ![g] = Len(workers[g])]
    /\ watcher' = [watcher EXCEPT ![g] = "top"]
    /\ UNCHANGED <<current, mode, stopSet, workers, sleepLeft, deaths, stopper, history>>

\* Time passes for the watcher that sleeps and for the deaths it remembers; an
\* age past the window does not matter any more.
Tick ==
    LET Older(age) == Minimum(age + 1, Window + 1)
    IN  /\ deaths' = [g \in Supervisors |-> [i \in DOMAIN deaths[g] |-> Older(deaths[g][i])]]
        /\ ages' = [g \in Supervisors |-> [i \in DOMAIN ages[g] |-> Older(ages[g][i])]]
        /\ sleepLeft' = [g \in Supervisors |->
             IF watcher[g] = "sleep" /\ sleepLeft[g] > 0 THEN sleepLeft[g] - 1
             ELSE sleepLeft[g]]
        /\ UNCHANGED <<current, mode, stopSet, workers, published, watcher, stopper, near>>

-------------------------------------------------------------------------------
(* stop_flush_thread *)

\* Faulty: stops the supervisor but leaves it in the global.
StopTakeKeeping(c) ==
    /\ stopper[c].pc = "away" /\ current # None
    /\ stopper' = [stopper EXCEPT ![c] = [Away EXCEPT !.pc = "set", !.sup = current]]
    /\ UNCHANGED <<current, mode, stopSet, workers, published, watcher, sleepLeft,
                   deaths, history>>

\* Under _state_lock; a call that finds nothing to stop returns.
StopTake(c) ==
    /\ stopper[c].pc = "away" /\ current # None
    /\ current' = None
    /\ stopper' = [stopper EXCEPT ![c] = [Away EXCEPT !.pc = "set", !.sup = current]]
    /\ UNCHANGED <<mode, stopSet, workers, published, watcher, sleepLeft, deaths, history>>

\* sup._stop.set()
StopSet(c) ==
    /\ stopper[c].pc = "set"
    /\ stopSet' = stopSet \cup {stopper[c].sup}
    /\ stopper' = [stopper EXCEPT ![c].pc = "worker"]
    /\ UNCHANGED <<current, mode, workers, published, watcher, sleepLeft, deaths, history>>

\* worker.stop(): set the stop event and the wake event of the worker that
\* self._worker refers to now, and join it.
StopWorker(c) ==
    /\ stopper[c].pc = "worker"
    /\ LET g == stopper[c].sup IN
         workers' = [workers EXCEPT ![g][published[g]].stopEvent = TRUE]
    /\ stopper' = [stopper EXCEPT ![c].pc = "join"]
    /\ UNCHANGED <<current, mode, stopSet, published, watcher, sleepLeft, deaths, history>>

\* The two joins, each of which may run into its timeout.
StopJoin(c) ==
    /\ stopper[c].pc = "join"
    /\ \E timely \in BOOLEAN :
         /\ timely => /\ \A i \in Alive(stopper[c].sup) :
                            ~ workers[stopper[c].sup][i].stopEvent
                      /\ watcher[stopper[c].sup] = "done"
         /\ stopper' = [stopper EXCEPT ![c] =
                           [@ EXCEPT !.pc = "returned", !.timely = timely]]
    /\ UNCHANGED <<current, mode, stopSet, workers, published, watcher, sleepLeft,
                   deaths, history>>

StopReturn(c) ==
    /\ stopper[c].pc = "returned"
    /\ stopper' = [stopper EXCEPT ![c] = Away]
    /\ UNCHANGED <<current, mode, stopSet, workers, published, watcher, sleepLeft,
                   deaths, history>>

-------------------------------------------------------------------------------

WatcherStep(g) == \/ WatcherLeaves(g) \/ WatcherFindsDead(g) \/ RecordDeath(g)
                  \/ WatcherWakes(g) \/ Spawn(g) \/ Publish(g)

StopperStep(c) == \/ StopTake(c) \/ StopSet(c) \/ StopWorker(c) \/ StopJoin(c)
                  \/ StopReturn(c)

Next == \/ \E g \in Supervisors : \/ StartFlushThread(g) \/ WorkerDies(g)
                                  \/ WorkerExits(g) \/ WatcherStep(g)
        \/ \E c \in Stoppers : StopperStep(c)
        \/ Tick

Spec == Init /\ [][Next]_vars

\* Threads that can run do run, a worker told to stop ends the tick it is in (a
\* transport call has timeouts), and time passes.  No call of start or stop is
\* owed to anyone, but a stop that was begun goes on.
FairSpec ==
    /\ Spec
    /\ WF_vars(Tick)
    /\ \A g \in Supervisors : WF_vars(WatcherStep(g)) /\ WF_vars(WorkerExits(g))
    /\ \A c \in Stoppers : WF_vars(StopSet(c) \/ StopWorker(c) \/ StopJoin(c))

-------------------------------------------------------------------------------
(* Properties *)

WorkerRecords == [alive : BOOLEAN, died : BOOLEAN, transport : BOOLEAN,
                  stopEvent : BOOLEAN]

\* The variables hold what the attributes of the supervisor and its threads hold.
TypeOK ==
    /\ current \in Supervisors \cup {None}
    /\ mode \in [Supervisors -> {"none", "normal", "spool_only"}]
    /\ stopSet \subseteq Supervisors
    /\ workers \in [Supervisors -> Seq(WorkerRecords)]
    /\ published \in [Supervisors -> Nat]
    /\ \A g \in Supervisors : published[g] <= Len(workers[g])
    /\ watcher \in [Supervisors -> {"none", "top", "record", "sleep", "spawn",
                                    "publish", "done"}]
    /\ sleepLeft \in [Supervisors -> 0..MaxBackoff]
    /\ deaths \in [Supervisors -> Seq(0..(Window + 1))]
    /\ stopper \in [Stoppers -> [pc : {"away", "set", "worker", "join", "returned"},
                                 sup : Supervisors \cup {None}, timely : BOOLEAN]]
    /\ ages \in [Supervisors -> Seq(0..(Window + 1))]
    /\ near \in [Supervisors -> SUBSET ((Nat \ {0}) \X (Nat \ {0}))]

\* A supervisor never has two workers at once: two would drain the same buffers
\* and write the same spool, each with its own half of the spans.
OneWorkerAtATime == \A g \in Supervisors : Cardinality(Alive(g)) <= 1

\* The supervisor that start_flush_thread returns is not one that was stopped,
\* although stop_flush_thread stops it after it released _state_lock.
CurrentIsWatched == current # None => /\ current \notin stopSet
                                      /\ watcher[current] \notin {"none", "done"}

\* The worker is degraded exactly if MaxDeaths of its deaths, as the history
\* tells them, fell within one window: not for deaths spread over a long run.
Burst(g) == \E i \in 1..Len(ages[g]) : <<i, i + MaxDeaths - 1>> \in near[g]
DegradedExactlyAfterBurst ==
    \A g \in Supervisors : mode[g] = "spool_only" <=> Burst(g)

\* In spool-only mode no worker of the supervisor touches the transport, and
\* in normal mode every one does.
TransportFollowsMode ==
    \A g \in Supervisors : \A i \in Alive(g) :
        workers[g][i].transport <=> mode[g] = "normal"

\* A burst of deaths, and nothing else, takes the transport away from the workers
\* that follow: "degraded (spool-only) mode".
DegradesRight == DegradedExactlyAfterBurst /\ TransportFollowsMode

\* A respawn comes no earlier than the backoff of the deaths within the window
\* before it: 1, 2, 4, ... up to MAX_BACKOFF.
RecentByHistory(g) ==
    Cardinality({i \in 1..Len(ages[g]) : <<i, Len(ages[g])>> \in near[g]})
RespawnBacksOff ==
    [][\A g \in Supervisors :
         Len(workers[g]) > 0 /\ Len(workers'[g]) > Len(workers[g]) =>
            Last(ages[g]) >= Minimum(Minimum(2 ^ (RecentByHistory(g) - 1), MaxBackoff), Window + 1)]_vars

\* A worker that died is replaced, unless the supervisor is stopped.
WorkerRevived ==
    \A g \in Supervisors :
        mode[g] # "none" /\ Alive(g) = {} ~> g \in stopSet \/ Alive(g) # {}

\* A dead worker is replaced, and not before its backoff is over.
RevivedWithBackoff == WorkerRevived /\ RespawnBacksOff

\* After a stop the watcher ends, whatever it was doing, and respawns nothing
\* from then on.
WatcherEnds == \A g \in Supervisors : g \in stopSet ~> watcher[g] = "done"

\* What the docstring of _Supervisor.stop says, "Stop both worker and watcher
\* threads": when the joins were not cut short, no worker is left running.  It does
\* not hold of the code, as the README explains, and no run claims it.
StopLeavesNoWorker ==
    \A c \in Stoppers : stopper[c].pc = "returned" /\ stopper[c].timely =>
        Alive(stopper[c].sup) = {}
===============================================================================
