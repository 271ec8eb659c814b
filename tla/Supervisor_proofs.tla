-------------------------- MODULE Supervisor_proofs ---------------------------
(***************************************************************************)
(* Proofs about Supervisor, for any number of supervisors and of threads   *)
(* that stop them, any limits, and workers that die as often as they like. *)
(***************************************************************************)
EXTENDS Supervisor, FiniteSetTheorems, WellFoundedInduction, TLAPS

\* The part of TypeOK that the argument needs: backoffs, ages and the history
\* decide when the watcher goes on, never what it does to the workers.
LifeType ==
    /\ current \in Supervisors \cup {None}
    /\ mode \in [Supervisors -> {"none", "normal", "spool_only"}]
    /\ stopSet \subseteq Supervisors
    /\ workers \in [Supervisors -> Seq(WorkerRecords)]
    /\ published \in [Supervisors -> Nat]
    /\ watcher \in [Supervisors -> {"none", "top", "record", "sleep", "spawn",
                                    "publish", "done"}]
    /\ stopper \in [Stoppers -> [pc : {"away", "set", "worker", "join", "returned"},
                                 sup : Supervisors \cup {None}, timely : BOOLEAN]]

\* A supervisor has a watcher and a worker from its start on, and the watcher
\* ends only after a stop.
StartedOk(g) ==
    /\ watcher[g] = "none" <=> mode[g] = "none"
    /\ mode[g] = "none" <=> workers[g] = <<>>
    /\ watcher[g] = "done" => g \in stopSet

\* self._worker is the newest worker, except between start() and the assignment.
\* It follows that the worker the watcher joins is the one that may be alive.
PublishedOk(g) ==
    /\ published[g] = IF watcher[g] = "publish" THEN Len(workers[g]) - 1
                      ELSE Len(workers[g])
    /\ mode[g] # "none" => published[g] > 0

\* No worker is alive but the newest, and not even that one from the moment the
\* watcher found it dead to the next start(): the mode may change in between.
AliveOk(g) ==
    \A i \in 1..Len(workers[g]) : workers[g][i].alive =>
        /\ i = Len(workers[g])
        /\ watcher[g] \notin {"record", "sleep", "spawn"}
        /\ workers[g][i].transport <=> mode[g] = "normal"

\* What a stop works on was started, and was taken out of the global before its
\* _stop is set.
GlobalOk ==
    /\ current # None => mode[current] # "none" /\ current \notin stopSet
    /\ \A g \in stopSet : mode[g] # "none"
    /\ \A c \in Stoppers : stopper[c].pc # "away" =>
          /\ stopper[c].sup \in Supervisors
          /\ mode[stopper[c].sup] # "none"
          /\ stopper[c].sup # current

LifeInv == /\ LifeType /\ GlobalOk
           /\ \A g \in Supervisors : StartedOk(g) /\ PublishedOk(g) /\ AliveOk(g)

-------------------------------------------------------------------------------

LEMMA LifeInit == Init => LifeInv
  BY SupervisorAssumption
  DEF Init, LifeInv, LifeType, GlobalOk, StartedOk, PublishedOk, AliveOk, Away,
      SupervisorAssumption

\* A supervisor none of whose own parts changes keeps what holds of it.
LEMMA Untouched ==
    ASSUME NEW g, StartedOk(g), PublishedOk(g), AliveOk(g),
           watcher'[g] = watcher[g], mode'[g] = mode[g], workers'[g] = workers[g],
           published'[g] = published[g], stopSet \subseteq stopSet'
    PROVE  StartedOk(g)' /\ PublishedOk(g)' /\ AliveOk(g)'
  BY DEF StartedOk, PublishedOk, AliveOk

LEMMA OneWorkerSeq ==
    ASSUME NEW S, NEW w \in S
    PROVE  <<w>> \in Seq(S) /\ Len(<<w>>) = 1 /\ <<w>>[1] = w
  OBVIOUS

LEMMA StartKeeps ==
    ASSUME LifeInv, NEW g \in Supervisors, StartFlushThread(g)
    PROVE  LifeInv'
  <1> USE DEF LifeInv
  <1>1. NewWorker(TRUE) \in WorkerRecords
    BY DEF NewWorker, WorkerRecords
  <1>2. LifeType'
    <2>1. <<NewWorker(TRUE)>> \in Seq(WorkerRecords)
      BY <1>1, OneWorkerSeq, Zenon
    <2> QED BY <2>1 DEF LifeType, StartFlushThread
  <1>3. GlobalOk'
    BY SupervisorAssumption
    DEF LifeType, GlobalOk, StartFlushThread, SupervisorAssumption
  <1>4. ASSUME NEW h \in Supervisors
        PROVE  StartedOk(h)' /\ PublishedOk(h)' /\ AliveOk(h)'
    <2>1. CASE h # g
      BY <2>1, Untouched DEF LifeType, StartFlushThread
    <2>2. CASE h = g
      <3>1. /\ watcher'[g] = "top" /\ mode'[g] = "normal" /\ published'[g] = 1
            /\ workers'[g] = <<NewWorker(TRUE)>>
        BY DEF LifeType, StartFlushThread
      <3> QED BY <2>2, <3>1 DEF StartedOk, PublishedOk, AliveOk, NewWorker
    <2> QED BY <2>1, <2>2
  <1> QED BY <1>2, <1>3, <1>4

\* A worker that ends, for whatever reason, or that is told to stop.
LEMMA WorkersSubside ==
    ASSUME LifeInv, NEW g \in Supervisors, NEW i \in 1..Len(workers[g]),
           NEW w \in WorkerRecords,
           w.transport = workers[g][i].transport, w.alive => workers[g][i].alive,
           workers' = [workers EXCEPT ![g][i] = w],
           UNCHANGED <<mode, stopSet, published, watcher>>
    PROVE  /\ workers' \in [Supervisors -> Seq(WorkerRecords)]
           /\ \A h \in Supervisors : StartedOk(h)' /\ PublishedOk(h)' /\ AliveOk(h)'
  <1> USE DEF LifeInv, LifeType
  <1>1. workers[g] \in Seq(WorkerRecords)
    OBVIOUS
  <1>2. /\ workers'[g] \in Seq(WorkerRecords) /\ Len(workers'[g]) = Len(workers[g])
        /\ \A j \in 1..Len(workers[g]) :
              workers'[g][j] = IF j = i THEN w ELSE workers[g][j]
    BY <1>1
  <1>3. \A h \in Supervisors : h # g => workers'[h] = workers[h]
    OBVIOUS
  <1>4. workers' \in [Supervisors -> Seq(WorkerRecords)]
    BY <1>2, <1>3
  <1>5. ASSUME NEW h \in Supervisors
        PROVE  StartedOk(h)' /\ PublishedOk(h)' /\ AliveOk(h)'
    <2>1. CASE h # g
      BY <1>3, <2>1, Untouched
    <2>2. CASE h = g
      <3>1. workers[g] # <<>> /\ workers'[g] # <<>>
        BY <1>1, <1>2
      <3> QED BY <1>1, <1>2, <2>2, <3>1 DEF StartedOk, PublishedOk, AliveOk
    <2> QED BY <2>1, <2>2
  <1> QED BY <1>4, <1>5

LEMMA WorkerEnds ==
    ASSUME LifeInv, NEW g \in Supervisors, WorkerDies(g) \/ WorkerExits(g)
    PROVE  LifeInv'
  <1> USE DEF LifeInv
  <1>1. PICK i \in Alive(g) :
             \/ workers' = [workers EXCEPT ![g][i] = [@ EXCEPT !.alive = FALSE]]
             \/ workers' = [workers EXCEPT ![g][i] = [@ EXCEPT !.alive = FALSE,
                                                              !.died = TRUE]]
    BY DEF WorkerDies, WorkerExits
  <1>2. i \in 1..Len(workers[g]) /\ workers[g][i] \in WorkerRecords
    BY DEF Alive, LifeType
  <1>3. UNCHANGED <<current, mode, stopSet, published, watcher, stopper>>
    BY DEF WorkerDies, WorkerExits
  <1>4. PICK w \in WorkerRecords : /\ w.transport = workers[g][i].transport
                                   /\ ~ w.alive
                                   /\ workers' = [workers EXCEPT ![g][i] = w]
    <2>1. /\ [workers[g][i] EXCEPT !.alive = FALSE] \in WorkerRecords
          /\ [workers[g][i] EXCEPT !.alive = FALSE, !.died = TRUE] \in WorkerRecords
      BY <1>2 DEF WorkerRecords
    <2> QED BY <1>1, <1>2, <2>1 DEF WorkerRecords
  <1>5. /\ workers' \in [Supervisors -> Seq(WorkerRecords)]
        /\ \A h \in Supervisors : StartedOk(h)' /\ PublishedOk(h)' /\ AliveOk(h)'
    BY <1>2, <1>3, <1>4, WorkersSubside
  <1> QED BY <1>3, <1>5 DEF LifeType, GlobalOk

-------------------------------------------------------------------------------
(* The watcher *)

\* A step that moves only the watcher, and does not pass the points at which the
\* workers matter.
LEMMA WatcherMoves ==
    ASSUME LifeInv, NEW g \in Supervisors, NEW pc,
           pc \in {"sleep", "spawn", "done"},
           watcher[g] \in {"top", "record", "sleep"},
           pc # "done" => watcher[g] \in {"record", "sleep"},
           pc = "done" => g \in stopSet,
           watcher' = [watcher EXCEPT ![g] = pc],
           UNCHANGED <<current, stopSet, workers, published, stopper>>,
           mode' \in [Supervisors -> {"none", "normal", "spool_only"}],
           \A h \in Supervisors : mode'[h] = "none" <=> mode[h] = "none",
           \A h \in Supervisors : mode'[h] # mode[h] => h = g /\ watcher[g] = "record"
    PROVE  LifeInv'
  <1> USE DEF LifeInv, LifeType
  <1>1. LifeType'
    OBVIOUS
  <1>2. GlobalOk'
    BY DEF GlobalOk
  <1>3. ASSUME NEW h \in Supervisors
        PROVE  StartedOk(h)' /\ PublishedOk(h)' /\ AliveOk(h)'
    <2>1. CASE h # g
      BY <2>1, Untouched
    <2>2. CASE h = g
      BY <2>2 DEF StartedOk, PublishedOk, AliveOk
    <2> QED BY <2>1, <2>2
  <1> QED BY <1>1, <1>2, <1>3

LEMMA FindsDeadKeeps ==
    ASSUME LifeInv, NEW g \in Supervisors, WatcherFindsDead(g)
    PROVE  LifeInv'
  <1> USE DEF LifeInv, LifeType, WatcherFindsDead
  <1>1. LifeType'
    OBVIOUS
  <1>2. GlobalOk'
    BY DEF GlobalOk
  <1>3. published[g] = Len(workers[g]) /\ ~ workers[g][Len(workers[g])].alive
    BY DEF PublishedOk, Worker
  <1>4. ASSUME NEW h \in Supervisors
        PROVE  StartedOk(h)' /\ PublishedOk(h)' /\ AliveOk(h)'
    <2>1. CASE h # g
      BY <2>1, Untouched
    <2>2. CASE h = g
      BY <1>3, <2>2 DEF StartedOk, PublishedOk, AliveOk
    <2> QED BY <2>1, <2>2
  <1> QED BY <1>1, <1>2, <1>4

LEMMA SpawnKeeps ==
    ASSUME LifeInv, NEW g \in Supervisors, Spawn(g)
    PROVE  LifeInv'
  <1> USE DEF LifeInv
  <1> DEFINE w == NewWorker(mode[g] = "normal")
  <1>1. /\ w \in WorkerRecords /\ w.transport = (mode[g] = "normal")
    BY DEF NewWorker, WorkerRecords
  <1> HIDE DEF w
  <1>2. workers[g] \in Seq(WorkerRecords)
    BY DEF LifeType
  <1>3. /\ workers'[g] = Append(workers[g], w) /\ watcher'[g] = "publish"
        /\ \A h \in Supervisors : h # g => /\ workers'[h] = workers[h]
                                           /\ watcher'[h] = watcher[h]
    BY DEF LifeType, Spawn, w
  <1>4. /\ Append(workers[g], w) \in Seq(WorkerRecords)
        /\ Len(Append(workers[g], w)) = Len(workers[g]) + 1
        /\ Append(workers[g], w)[Len(workers[g]) + 1] = w
        /\ \A i \in 1..Len(workers[g]) : Append(workers[g], w)[i] = workers[g][i]
    BY <1>1, <1>2
  <1>5. LifeType'
    BY <1>4 DEF LifeType, Spawn, w
  <1>6. GlobalOk'
    BY DEF GlobalOk, Spawn
  <1>7. ASSUME NEW h \in Supervisors
        PROVE  StartedOk(h)' /\ PublishedOk(h)' /\ AliveOk(h)'
    <2>1. CASE h # g
      BY <1>3, <2>1, Untouched DEF Spawn
    <2>2. CASE h = g
      <3>1. /\ watcher[g] = "spawn" /\ mode'[g] = mode[g] /\ published'[g] = published[g]
            /\ stopSet' = stopSet
        BY DEF Spawn
      <3>2. \A i \in 1..Len(workers[g]) : ~ workers[g][i].alive
        BY <3>1 DEF AliveOk
      <3>3. mode[g] # "none"
        BY <3>1 DEF StartedOk
      <3>4. StartedOk(g)'
        BY <1>2, <1>3, <1>4, <3>1, <3>3 DEF StartedOk
      <3>5. PublishedOk(g)'
        BY <1>2, <1>3, <1>4, <3>1 DEF PublishedOk
      <3>6. ASSUME NEW i \in 1..(Len(workers[g]) + 1), workers'[g][i].alive
            PROVE  i = Len(workers[g]) + 1
        BY <1>2, <1>3, <1>4, <3>2, <3>6
      <3>7. AliveOk(g)'
        <4>1. Len(workers'[g]) = Len(workers[g]) + 1
          BY <1>3, <1>4
        <4>2. ASSUME NEW i \in 1..Len(workers'[g]), workers'[g][i].alive
              PROVE  /\ i = Len(workers'[g])
                     /\ workers'[g][i].transport <=> mode'[g] = "normal"
          <5>1. i = Len(workers[g]) + 1
            BY <3>6, <4>1, <4>2
          <5>2. workers'[g][i] = w
            BY <1>3, <1>4, <5>1
          <5> QED BY <1>1, <3>1, <4>1, <5>1, <5>2
        <4> QED BY <1>3, <4>2 DEF AliveOk
      <3> QED BY <2>2, <3>4, <3>5, <3>7
    <2> QED BY <2>1, <2>2
  <1> QED BY <1>5, <1>6, <1>7

LEMMA PublishKeeps ==
    ASSUME LifeInv, NEW g \in Supervisors, Publish(g)
    PROVE  LifeInv'
  <1> USE DEF LifeInv, LifeType, Publish
  <1>1. workers[g] \in Seq(WorkerRecords) /\ Len(workers[g]) \in Nat
    OBVIOUS
  <1>2. LifeType'
    BY <1>1
  <1>3. GlobalOk'
    BY DEF GlobalOk
  <1>4. ASSUME NEW h \in Supervisors
        PROVE  StartedOk(h)' /\ PublishedOk(h)' /\ AliveOk(h)'
    <2>1. CASE h # g
      BY <2>1, Untouched
    <2>2. CASE h = g
      BY <2>2 DEF StartedOk, PublishedOk, AliveOk
    <2> QED BY <2>1, <2>2
  <1> QED BY <1>2, <1>3, <1>4

LEMMA WatcherKeeps ==
    ASSUME LifeInv, NEW g \in Supervisors, WatcherStep(g)
    PROVE  LifeInv'
  <1> USE DEF LifeInv
  <1>1. CASE WatcherLeaves(g)
    BY <1>1, WatcherMoves DEF WatcherLeaves, LifeType
  <1>2. CASE WatcherFindsDead(g)
    BY <1>2, FindsDeadKeeps
  <1>3. CASE RecordDeath(g)
    <2>1. watcher[g] = "record" /\ mode[g] # "none"
      BY <1>3 DEF RecordDeath, StartedOk
    <2>2. mode' = mode \/ mode' = [mode EXCEPT ![g] = "spool_only"]
      BY <1>3 DEF RecordDeath, LifeType
    <2>3. /\ mode' \in [Supervisors -> {"none", "normal", "spool_only"}]
          /\ \A h \in Supervisors : mode'[h] = "none" <=> mode[h] = "none"
          /\ \A h \in Supervisors : mode'[h] # mode[h] => h = g
      BY <2>1, <2>2 DEF LifeType
    <2>4. /\ \/ g \in stopSet /\ watcher' = [watcher EXCEPT ![g] = "done"]
             \/ watcher' = [watcher EXCEPT ![g] = "sleep"]
          /\ UNCHANGED <<current, stopSet, workers, published, stopper>>
      BY <1>3 DEF RecordDeath
    <2> QED BY <2>1, <2>3, <2>4, WatcherMoves
  <1>4. CASE WatcherWakes(g)
    <2>1. /\ watcher[g] = "sleep"
          /\ \/ g \in stopSet /\ watcher' = [watcher EXCEPT ![g] = "done"]
             \/ watcher' = [watcher EXCEPT ![g] = "spawn"]
          /\ UNCHANGED <<current, mode, stopSet, workers, published, stopper>>
      BY <1>4 DEF WatcherWakes
    <2> QED BY <2>1, WatcherMoves DEF LifeType
  <1>5. CASE Spawn(g)
    BY <1>5, SpawnKeeps
  <1>6. CASE Publish(g)
    BY <1>6, PublishKeeps
  <1> QED BY <1>1, <1>2, <1>3, <1>4, <1>5, <1>6 DEF WatcherStep

-------------------------------------------------------------------------------
(* stop_flush_thread, and time *)

\* A step that takes a stop further leaves what it stops alone.
LEMMA StopperMoves ==
    ASSUME LifeInv, NEW c \in Stoppers, NEW pc \in {"worker", "join", "returned"},
           stopper[c].pc # "away", stopper' = [stopper EXCEPT ![c].pc = pc],
           workers' \in [Supervisors -> Seq(WorkerRecords)],
           UNCHANGED <<current, mode, stopSet, published, watcher>>
    PROVE  LifeType' /\ GlobalOk'
  <1>1. stopper[c] \in [pc : {"away", "set", "worker", "join", "returned"},
                        sup : Supervisors \cup {None}, timely : BOOLEAN]
    BY DEF LifeInv, LifeType
  <1>2. stopper' = [stopper EXCEPT ![c] = [stopper[c] EXCEPT !.pc = pc]]
    BY DEF LifeInv, LifeType
  <1>3. [stopper[c] EXCEPT !.pc = pc] \in
           [pc : {"away", "set", "worker", "join", "returned"},
            sup : Supervisors \cup {None}, timely : BOOLEAN]
    BY <1>1
  <1>4. LifeType'
    BY <1>2, <1>3 DEF LifeInv, LifeType
  <1>5. \A d \in Stoppers : /\ stopper'[d].sup = stopper[d].sup
                           /\ stopper'[d].pc # "away" => stopper[d].pc # "away"
    <2>1. \A d \in Stoppers : d # c => stopper'[d] = stopper[d]
      BY <1>2 DEF LifeInv, LifeType
    <2>2. stopper'[c].sup = stopper[c].sup
      BY <1>1, <1>2 DEF LifeInv, LifeType
    <2> QED BY <2>1, <2>2
  <1>6. GlobalOk'
    BY <1>5 DEF LifeInv, GlobalOk
  <1> QED BY <1>4, <1>6

LEMMA StopperKeeps ==
    ASSUME LifeInv, NEW c \in Stoppers, StopperStep(c)
    PROVE  LifeInv'
  <1> USE DEF LifeInv
  <1>1. CASE StopTake(c)
    <2>1. LifeType'
      BY <1>1 DEF StopTake, LifeType, Away
    <2>2. GlobalOk'
      BY <1>1, SupervisorAssumption
      DEF StopTake, LifeType, GlobalOk, Away, SupervisorAssumption
    <2>3. \A g \in Supervisors : StartedOk(g)' /\ PublishedOk(g)' /\ AliveOk(g)'
      BY <1>1, Untouched DEF StopTake
    <2> QED BY <2>1, <2>2, <2>3
  <1>2. CASE StopSet(c)
    <2>1. /\ stopper[c].sup \in Supervisors /\ mode[stopper[c].sup] # "none"
          /\ stopper[c].sup # current
      BY <1>2 DEF StopSet, GlobalOk
    <2>2. LifeType'
      BY <1>2, <2>1 DEF StopSet, LifeType
    <2>3. GlobalOk'
      BY <1>2, <2>1 DEF StopSet, LifeType, GlobalOk
    <2>4. \A g \in Supervisors : StartedOk(g)' /\ PublishedOk(g)' /\ AliveOk(g)'
      BY <1>2, Untouched DEF StopSet
    <2> QED BY <2>2, <2>3, <2>4
  <1>3. CASE StopWorker(c)
    <2> DEFINE g == stopper[c].sup
               i == published[g]
               w == [workers[g][i] EXCEPT !.stopEvent = TRUE]
    <2>1. g \in Supervisors /\ mode[g] # "none" /\ stopper[c].pc = "worker"
      BY <1>3 DEF StopWorker, GlobalOk
    <2>2. /\ workers' = [workers EXCEPT ![g][i].stopEvent = TRUE]
          /\ stopper' = [stopper EXCEPT ![c].pc = "join"]
          /\ UNCHANGED <<current, mode, stopSet, published, watcher>>
      BY <1>3 DEF StopWorker
    <2> HIDE DEF g, i, w
    <2>3. i \in 1..Len(workers[g]) /\ workers[g][i] \in WorkerRecords
      <3>1. workers[g] \in Seq(WorkerRecords) /\ i \in Nat /\ i > 0
        BY <2>1 DEF LifeType, PublishedOk, i
      <3>2. i <= Len(workers[g])
        BY <2>1, <3>1 DEF PublishedOk, i
      <3> QED BY <3>1, <3>2
    <2>4. /\ w \in WorkerRecords /\ w.transport = workers[g][i].transport
          /\ w.alive => workers[g][i].alive
      BY <2>3 DEF WorkerRecords, w
    <2>5. workers' = [workers EXCEPT ![g][i] = w]
      BY <2>2 DEF w
    <2>6. /\ workers' \in [Supervisors -> Seq(WorkerRecords)]
          /\ \A h \in Supervisors : StartedOk(h)' /\ PublishedOk(h)' /\ AliveOk(h)'
      <3>1. UNCHANGED <<mode, stopSet, published, watcher>>
        BY <2>2
      <3> QED BY <2>1, <2>3, <2>4, <2>5, <3>1, WorkersSubside
    <2>7. LifeType' /\ GlobalOk'
      BY <2>6, StopperMoves, <1>3 DEF StopWorker
    <2> QED BY <2>6, <2>7
  <1>4. CASE StopJoin(c) \/ StopReturn(c)
    <2>1. UNCHANGED <<current, mode, stopSet, workers, published, watcher>>
      BY <1>4 DEF StopJoin, StopReturn
    <2>2. LifeType' /\ GlobalOk'
      <3>1. workers' \in [Supervisors -> Seq(WorkerRecords)]
        BY <2>1 DEF LifeType
      <3>2. CASE StopJoin(c)
        <4>1. PICK timely \in BOOLEAN :
                stopper' = [stopper EXCEPT ![c] =
                              [@ EXCEPT !.pc = "returned", !.timely = timely]]
          BY <3>2 DEF StopJoin
        <4>2. stopper[c].pc = "join"
          BY <3>2 DEF StopJoin
        <4> QED BY <2>1, <3>1, <4>1, <4>2 DEF LifeType, GlobalOk
      <3>3. CASE StopReturn(c)
        BY <2>1, <3>1, <3>3 DEF StopReturn, LifeType, GlobalOk, Away
      <3> QED BY <1>4, <3>2, <3>3
    <2> QED BY <2>1, <2>2, Untouched
  <1> QED BY <1>1, <1>2, <1>3, <1>4 DEF StopperStep

LEMMA LifeStep == LifeInv /\ [Next]_vars => LifeInv'
  <1> SUFFICES ASSUME LifeInv, [Next]_vars PROVE LifeInv'
    OBVIOUS
  <1>1. CASE \E g \in Supervisors : \/ StartFlushThread(g) \/ WorkerDies(g)
                                    \/ WorkerExits(g) \/ WatcherStep(g)
    BY <1>1, StartKeeps, WorkerEnds, WatcherKeeps
  <1>2. CASE \E c \in Stoppers : StopperStep(c)
    BY <1>2, StopperKeeps
  <1>3. CASE Tick \/ UNCHANGED vars
    <2>1. UNCHANGED <<current, mode, stopSet, workers, published, watcher, stopper>>
      BY <1>3 DEF Tick, vars
    <2> QED BY <2>1 DEF LifeInv, LifeType, GlobalOk, StartedOk, PublishedOk, AliveOk
  <1> QED BY <1>1, <1>2, <1>3 DEF Next

\* The invariant, for every behaviour of the module.
LEMMA LifeAlways == Spec => []LifeInv
  BY LifeInit, LifeStep, PTL DEF Spec

-------------------------------------------------------------------------------

\* A supervisor never runs two workers at once, however its deaths, its respawns
\* and concurrent stops interleave (core/flush.py:969-992).
THEOREM OneWorker == Spec => []OneWorkerAtATime
  <1>1. LifeInv => OneWorkerAtATime
    <2> SUFFICES ASSUME LifeInv, NEW g \in Supervisors
                 PROVE  Cardinality(Alive(g)) <= 1
      BY DEF OneWorkerAtATime
    <2>1. Alive(g) = {} \/ Alive(g) = {Len(workers[g])}
      BY DEF LifeInv, AliveOk, Alive
    <2>2. Cardinality({}) = 0 /\ Cardinality({Len(workers[g])}) = 1
      BY FS_EmptySet, FS_Singleton
    <2>3. Cardinality(Alive(g)) = 0 \/ Cardinality(Alive(g)) = 1
      BY <2>1, <2>2, Zenon
    <2> QED BY <2>3
  <1> QED BY <1>1, LifeAlways, PTL

\* A worker that lives has the transport that the mode of its supervisor allows:
\* the mode changes only while no worker runs (core/flush.py:955, 1003).
THEOREM NoTransportInSpoolOnly == Spec => []TransportFollowsMode
  <1>1. LifeInv => TransportFollowsMode
    BY DEF LifeInv, AliveOk, TransportFollowsMode, Alive
  <1> QED BY <1>1, LifeAlways, PTL

\* start_flush_thread never returns a supervisor that is being stopped or has
\* lost its watcher (core/flush.py:1380-1392).
THEOREM CurrentIsUsable == Spec => []CurrentIsWatched
  <1>1. LifeInv => CurrentIsWatched
    BY SupervisorAssumption
    DEF LifeInv, LifeType, GlobalOk, StartedOk, CurrentIsWatched, SupervisorAssumption
  <1> QED BY <1>1, LifeAlways, PTL

-------------------------------------------------------------------------------
(* What the supervisor remembers of its deaths, against all of them *)

Ages == 0..(Window + 1)

MemoryType ==
    /\ mode \in [Supervisors -> {"none", "normal", "spool_only"}]
    /\ sleepLeft \in [Supervisors -> Int]
    /\ deaths \in [Supervisors -> Seq(Ages)]
    /\ ages \in [Supervisors -> Seq(Ages)]
    /\ near \in [Supervisors -> SUBSET (Nat \X Nat)]

\* The deaths are in order, the oldest first: what is popped from the left is what
\* is too old.
Falls(a) == \A i, j \in 1..Len(a) : i <= j => a[j] <= a[i]

\* e is the end of a, and what it lacks is older than the window.
EndOf(e, a) ==
    /\ Len(e) <= Len(a)
    /\ \A i \in 1..Len(e) : e[i] = a[Len(a) - Len(e) + i]
    /\ \A i \in 1..(Len(a) - Len(e)) : a[i] > Window

RemembersRecent(g) == Falls(ages[g]) /\ EndOf(deaths[g], ages[g])

\* The pairs are of deaths that were, and those of the last death are with the ones
\* that _deaths kept when it was recorded.
PairsOk(g) ==
    /\ \A i, j \in Nat : <<i, j>> \in near[g] => i \in 1..Len(ages[g]) /\ j <= Len(ages[g])
    /\ \A i \in 1..Len(ages[g]) :
          <<i, Len(ages[g])>> \in near[g] <=> i > Len(ages[g]) - Len(deaths[g])

BurstOk(g) == mode[g] = "spool_only" <=> Burst(g)

\* What is left of a backoff and the time since the last death make up the backoff.
BackoffOk(g) ==
    LET due == Minimum(Backoff(Len(deaths[g])), Window + 1) IN
    /\ watcher[g] \in {"sleep", "spawn"} => deaths[g] # <<>>
    /\ watcher[g] = "sleep" => ages[g][Len(ages[g])] + sleepLeft[g] >= due
    /\ watcher[g] = "spawn" => ages[g][Len(ages[g])] >= due

MemoryOk(g) == RemembersRecent(g) /\ PairsOk(g) /\ BurstOk(g) /\ BackoffOk(g)

MemoryInv == MemoryType /\ \A g \in Supervisors : MemoryOk(g)

\* Of any set of naturals some element is the least.
LEMMA Least ==
    ASSUME NEW S, S \subseteq Nat, S # {}
    PROVE  \E x \in S : \A y \in S : x <= y
  <1>1. PICK x \in S : \A y \in S : ~ (<<y, x>> \in OpToRel(<, Nat))
    BY NatLessThanWellFounded, WFMin
  <1>2. ASSUME NEW y \in S
        PROVE  x <= y
    <2>1. x \in Nat /\ y \in Nat /\ ~ (y < x)
      BY <1>1 DEF OpToRel
    <2> QED BY <2>1
  <1> QED BY <1>2

LEMMA FirstRecentIs ==
    ASSUME NEW q \in Seq(Ages), Len(q) > 0, q[Len(q)] = 0
    PROVE  /\ FirstRecent(q) \in 1..Len(q) /\ q[FirstRecent(q)] <= Window
           /\ \A j \in 1..(FirstRecent(q) - 1) : q[j] > Window
  <1> DEFINE S == {i \in 1..Len(q) : q[i] <= Window}
  <1>1. S \subseteq Nat /\ S # {}
    <2>1. Len(q) \in S
      BY SupervisorAssumption DEF SupervisorAssumption
    <2> QED BY <2>1
  <1>2. PICK m \in S : \A i \in S : m <= i
    BY <1>1, Least
  <1>3. m \in 1..Len(q) /\ q[m] <= Window /\ \A j \in 1..(m - 1) : q[j] > Window
    <2>1. ASSUME NEW j \in 1..(m - 1)
          PROVE  q[j] > Window
      <3>1. j \in 1..Len(q) /\ j < m /\ q[j] \in Ages
        BY <1>2
      <3>2. ~ (q[j] <= Window)
        BY <1>2, <3>1
      <3> QED BY <3>1, <3>2, SupervisorAssumption DEF Ages, SupervisorAssumption
    <2> QED BY <1>2, <2>1
  <1> QED BY <1>3 DEF FirstRecent

LEMMA DeathAppended ==
    ASSUME NEW q \in Seq(Ages)
    PROVE  /\ Append(q, 0) \in Seq(Ages) /\ Len(Append(q, 0)) = Len(q) + 1
           /\ Append(q, 0)[Len(q) + 1] = 0
           /\ \A i \in 1..Len(q) : Append(q, 0)[i] = q[i]
  <1>1. 0 \in Ages
    BY SupervisorAssumption DEF Ages, SupervisorAssumption
  <1> QED BY <1>1

\* One more death at the end of both sequences.
LEMMA EndGrows ==
    ASSUME NEW a \in Seq(Ages), NEW e \in Seq(Ages), Falls(a), EndOf(e, a)
    PROVE  Falls(Append(a, 0)) /\ EndOf(Append(e, 0), Append(a, 0))
  <1> DEFINE q == Append(a, 0)
             d == Append(e, 0)
  <1>1. PICK n \in Nat, k \in Nat : n = Len(a) /\ k = Len(e)
    OBVIOUS
  <1>2. /\ k <= n
        /\ \A i, j \in 1..n : i <= j => a[j] <= a[i]
        /\ \A i \in 1..k : e[i] = a[n - k + i]
        /\ \A i \in 1..(n - k) : a[i] > Window
    BY <1>1 DEF Falls, EndOf
  <1>3. /\ d \in Seq(Ages) /\ Len(d) = k + 1 /\ d[k + 1] = 0
        /\ \A i \in 1..k : d[i] = e[i]
    BY <1>1, DeathAppended
  <1>4. /\ q \in Seq(Ages) /\ Len(q) = n + 1 /\ q[n + 1] = 0
        /\ \A i \in 1..n : q[i] = a[i]
    BY <1>1, DeathAppended
  <1> HIDE DEF d, q
  <1>5. ASSUME NEW i \in 1..(k + 1)
        PROVE  d[i] = q[n + 1 - (k + 1) + i]
    <2>1. CASE i = k + 1
      <3>1. n + 1 - (k + 1) + i = n + 1
        BY <2>1, <1>1
      <3> QED BY <1>3, <1>4, <2>1, <3>1
    <2>2. CASE i \in 1..k
      <3>1. n + 1 - (k + 1) + i = n - k + i /\ n - k + i \in 1..n
        BY <1>1, <1>2, <2>2
      <3> QED BY <1>2, <1>3, <1>4, <2>2, <3>1
    <2>3. i = k + 1 \/ i \in 1..k
      BY <1>1
    <2> QED BY <2>1, <2>2, <2>3
  <1>6. \A i \in 1..(n + 1 - (k + 1)) : q[i] > Window
    <2>1. ASSUME NEW i \in 1..(n + 1 - (k + 1))
          PROVE  q[i] > Window
      <3>1. i \in 1..(n - k) /\ i \in 1..n
        BY <1>1, <1>2
      <3> QED BY <1>2, <1>4, <3>1
    <2> QED BY <2>1
  <1>7. ASSUME NEW i \in 1..(n + 1), NEW j \in 1..(n + 1), i <= j
        PROVE  q[j] <= q[i]
    <2>1. q[i] >= 0
      BY <1>1, <1>4, SupervisorAssumption DEF Ages, SupervisorAssumption
    <2>2. CASE j = n + 1
      BY <1>4, <2>1, <2>2
    <2>3. CASE j \in 1..n
      <3>1. i \in 1..n
        BY <1>1, <1>7, <2>3
      <3>2. a[j] <= a[i]
        BY <1>2, <1>7, <2>3, <3>1
      <3> QED BY <1>4, <2>3, <3>1, <3>2
    <2>4. j = n + 1 \/ j \in 1..n
      BY <1>1
    <2> QED BY <2>2, <2>3, <2>4
  <1>8. Falls(q)
    BY <1>4, <1>7 DEF Falls
  <1>9. EndOf(d, q)
    <2>1. Len(d) <= Len(q)
      BY <1>1, <1>2, <1>3, <1>4
    <2>2. ASSUME NEW i \in 1..Len(d) PROVE d[i] = q[Len(q) - Len(d) + i]
      BY <1>3, <1>4, <1>5
    <2>3. ASSUME NEW i \in 1..(Len(q) - Len(d)) PROVE q[i] > Window
      BY <1>3, <1>4, <1>6
    <2> QED BY <2>1, <2>2, <2>3 DEF EndOf
  <1> QED BY <1>8, <1>9 DEF d, q

\* The end of falling ages, from the first of them that is within the window.
LEMMA EndIsWindow ==
    ASSUME NEW q \in Seq(Ages), NEW d \in Seq(Ages), Falls(q), EndOf(d, q),
           NEW m \in 1..Len(d), d[m] <= Window,
           \A j \in 1..(m - 1) : d[j] > Window,
           NEW r, r = SubSeq(d, m, Len(d))
    PROVE  /\ r \in Seq(Ages) /\ r # <<>> /\ EndOf(r, q)
           /\ \A i \in 1..Len(q) : q[i] <= Window <=> i > Len(q) - Len(r)
  <1>1. PICK n \in Nat, k \in Nat : n = Len(q) /\ k = Len(d)
    OBVIOUS
  <1>2. /\ k <= n
        /\ \A i, j \in 1..n : i <= j => q[j] <= q[i]
        /\ \A i \in 1..k : d[i] = q[n - k + i]
        /\ \A i \in 1..(n - k) : q[i] > Window
        /\ m \in 1..k
    BY <1>1 DEF Falls, EndOf
  <1>3. /\ \A i \in 1..n : q[i] \in Int
        /\ Window \in Nat
    BY <1>1, SupervisorAssumption DEF Ages, SupervisorAssumption
  <1>4. PICK l \in Nat : l = k + 1 - m
    <2>1. m \in 1..k
      BY <1>2
    <2>2. k + 1 - m \in Nat
      BY <1>1, <2>1
    <2> QED BY <2>2
  <1>5. /\ r \in Seq(Ages) /\ Len(r) = l
        /\ \A i \in 1..l : r[i] = d[m + i - 1]
    BY <1>1, <1>2, <1>4
  <1>6. \A i \in 1..l : r[i] = q[n - l + i]
    <2>1. ASSUME NEW i \in 1..l
          PROVE  r[i] = q[n - l + i]
      <3>1. m + i - 1 \in 1..k /\ n - k + (m + i - 1) = n - l + i
        BY <1>1, <1>2, <1>4
      <3> QED BY <1>2, <1>5, <3>1
    <2> QED BY <2>1
  <1>7. ASSUME NEW i \in 1..n
        PROVE  /\ i > n - l => q[i] <= Window
               /\ i <= n - l => q[i] > Window
    <2>1. CASE i > n - l
      <3>1. n - k + m \in 1..n /\ n - k + m <= i
        BY <1>1, <1>2, <1>4, <2>1
      <3>2. q[i] <= q[n - k + m] /\ q[n - k + m] <= Window
        BY <1>2, <3>1
      <3>3. q[i] <= Window
        BY <1>3, <3>1, <3>2
      <3> QED BY <1>1, <1>4, <2>1, <3>3
    <2>2. CASE i <= n - l /\ i > n - k
      <3>1. i - (n - k) \in 1..(m - 1) /\ i - (n - k) \in 1..k
            /\ n - k + (i - (n - k)) = i
        BY <1>1, <1>2, <1>4, <2>2
      <3>2. d[i - (n - k)] > Window /\ d[i - (n - k)] = q[i]
        BY <1>2, <3>1
      <3> QED BY <1>1, <1>4, <2>2, <3>2
    <2>3. CASE i <= n - k
      <3>1. q[i] > Window /\ i <= n - l
        BY <1>1, <1>2, <1>4, <2>3
      <3> QED BY <1>1, <1>4, <3>1
    <2>4. i > n - l \/ (i <= n - l /\ i > n - k) \/ i <= n - k
      BY <1>1, <1>4
    <2> QED BY <2>1, <2>2, <2>3, <2>4
  <1>8. \A i \in 1..n : q[i] <= Window <=> i > n - l
    <2>1. ASSUME NEW i \in 1..n
          PROVE  q[i] <= Window <=> i > n - l
      <3>1. q[i] \in Int /\ (i > n - l \/ i <= n - l)
        BY <1>1, <1>3, <1>4
      <3> QED BY <1>3, <1>7, <3>1
    <2> QED BY <2>1
  <1>9. \A i \in 1..(n - l) : q[i] > Window
    <2>1. ASSUME NEW i \in 1..(n - l)
          PROVE  q[i] > Window
      <3>1. i \in 1..n /\ i <= n - l
        BY <1>1, <1>4
      <3> QED BY <1>7, <3>1
    <2> QED BY <2>1
  <1>10. l <= n /\ l > 0
    BY <1>1, <1>2, <1>4
  <1>11. EndOf(r, q)
    <2>1. Len(r) <= Len(q)
      BY <1>1, <1>5, <1>10
    <2>2. ASSUME NEW i \in 1..Len(r) PROVE r[i] = q[Len(q) - Len(r) + i]
      BY <1>1, <1>5, <1>6
    <2>3. ASSUME NEW i \in 1..(Len(q) - Len(r)) PROVE q[i] > Window
      BY <1>1, <1>5, <1>9
    <2> QED BY <2>1, <2>2, <2>3 DEF EndOf
  <1>12. r # <<>>
    <2>1. Len(r) # 0
      BY <1>5, <1>10
    <2> QED BY <2>1
  <1> QED BY <1>1, <1>5, <1>8, <1>11, <1>12

\* What _record_death keeps: the end of the history, and exactly the deaths within
\* the window.
LEMMA RecentIsWindow ==
    ASSUME MemoryInv, NEW g \in Supervisors
    PROVE  /\ Append(ages[g], 0) \in Seq(Ages)
           /\ Recent(g) \in Seq(Ages) /\ Recent(g) # <<>>
           /\ Falls(Append(ages[g], 0)) /\ EndOf(Recent(g), Append(ages[g], 0))
           /\ \A i \in 1..(Len(ages[g]) + 1) :
                 Append(ages[g], 0)[i] <= Window <=> i > Len(ages[g]) + 1 - Len(Recent(g))
  <1>1. PICK a \in Seq(Ages), e \in Seq(Ages) : a = ages[g] /\ e = deaths[g]
    BY DEF MemoryInv, MemoryType
  <1>2. Falls(a) /\ EndOf(e, a)
    BY <1>1 DEF MemoryInv, MemoryOk, RemembersRecent
  <1>3. PICK q, d : q = Append(a, 0) /\ d = Append(e, 0)
    OBVIOUS
  <1>4. /\ q \in Seq(Ages) /\ Len(q) = Len(a) + 1
        /\ d \in Seq(Ages) /\ Len(d) > 0 /\ d[Len(d)] = 0
    BY <1>3, <1>1, DeathAppended
  <1>5. Falls(q) /\ EndOf(d, q)
    BY <1>1, <1>2, <1>3, EndGrows
  <1>6. PICK m \in 1..Len(d) : /\ m = FirstRecent(d) /\ d[m] <= Window
                               /\ \A j \in 1..(m - 1) : d[j] > Window
    BY <1>4, FirstRecentIs
  <1>7. Recent(g) = SubSeq(d, m, Len(d))
    BY <1>1, <1>3, <1>6 DEF Recent
  <1>8. /\ Recent(g) \in Seq(Ages) /\ Recent(g) # <<>> /\ EndOf(Recent(g), q)
        /\ \A i \in 1..Len(q) : q[i] <= Window <=> i > Len(q) - Len(Recent(g))
    BY <1>4, <1>5, <1>6, <1>7, EndIsWindow
  <1> QED BY <1>1, <1>3, <1>4, <1>5, <1>8

LEMMA MemoryInit == Init => MemoryInv
  <1> SUFFICES ASSUME Init PROVE MemoryInv
    OBVIOUS
  <1>1. MemoryType
    BY DEF Init, MemoryType
  <1>2. ASSUME NEW g \in Supervisors PROVE MemoryOk(g)
    <2>1. /\ mode[g] = "none" /\ watcher[g] = "none"
          /\ deaths[g] = <<>> /\ ages[g] = <<>> /\ near[g] = {}
      BY <1>2 DEF Init
    <2> QED BY <2>1 DEF MemoryOk, RemembersRecent, Falls, EndOf, PairsOk, BurstOk, Burst,
                        BackoffOk
  <1> QED BY <1>1, <1>2 DEF MemoryInv

\* A supervisor that records no death and is not on its way to a respawn.
LEMMA MemoryUntouched ==
    ASSUME NEW g, MemoryOk(g), deaths'[g] = deaths[g], ages'[g] = ages[g],
           near'[g] = near[g], mode'[g] = "spool_only" <=> mode[g] = "spool_only",
           sleepLeft'[g] = sleepLeft[g],
           watcher'[g] = watcher[g] \/ watcher'[g] \notin {"sleep", "spawn"}
    PROVE  MemoryOk(g)'
  <1>1. RemembersRecent(g)'
    BY DEF MemoryOk, RemembersRecent, Falls, EndOf
  <1>2. PairsOk(g)'
    BY DEF MemoryOk, PairsOk
  <1>3. BurstOk(g)'
    BY DEF MemoryOk, BurstOk, Burst
  <1>4. BackoffOk(g)'
    BY DEF MemoryOk, BackoffOk
  <1> QED BY <1>1, <1>2, <1>3, <1>4 DEF MemoryOk

LEMMA RecordedPairs ==
    ASSUME MemoryInv, NEW g \in Supervisors, RecordDeath(g), NEW n \in Nat, n = Len(ages[g])
    PROVE  /\ ages'[g] = Append(ages[g], 0) /\ Len(ages'[g]) = n + 1
           /\ deaths'[g] = Recent(g)
           /\ \A i, j \in Nat : <<i, j>> \in near'[g] <=>
                 \/ <<i, j>> \in near[g]
                 \/ j = n + 1 /\ i \in 1..(n + 1) /\ i > n + 1 - Len(Recent(g))
           /\ near' \in [Supervisors -> SUBSET (Nat \X Nat)]
  <1>1. /\ ages' = [ages EXCEPT ![g] = Append(@, 0)]
        /\ deaths' = [deaths EXCEPT ![g] = Recent(g)]
        /\ near' = [near EXCEPT ![g] = @ \cup {<<i, Len(ages[g]) + 1>> :
                      i \in {i \in 1..(Len(ages[g]) + 1) : ages'[g][i] <= Window}}]
    BY DEF RecordDeath, Remember
  <1>2. ages'[g] = Append(ages[g], 0) /\ deaths'[g] = Recent(g)
    BY <1>1 DEF MemoryInv, MemoryType
  <1>3. near'[g] = near[g] \cup {<<i, n + 1>> : i \in {i \in 1..(n + 1) : ages'[g][i] <= Window}}
    BY <1>1 DEF MemoryInv, MemoryType
  <1>4. Len(ages'[g]) = n + 1
    BY <1>2, DeathAppended DEF MemoryInv, MemoryType
  <1>5. \A i \in 1..(n + 1) : ages'[g][i] <= Window <=> i > n + 1 - Len(Recent(g))
    BY <1>2, RecentIsWindow
  <1>6. \A i, j \in Nat : <<i, j>> \in near'[g] <=>
           \/ <<i, j>> \in near[g]
           \/ j = n + 1 /\ i \in 1..(n + 1) /\ i > n + 1 - Len(Recent(g))
    BY <1>3, <1>5
  <1>7. near' \in [Supervisors -> SUBSET (Nat \X Nat)]
    <2>1. near'[g] \in SUBSET (Nat \X Nat)
      BY <1>3 DEF MemoryInv, MemoryType
    <2>2. near' = [near EXCEPT ![g] = near'[g]]
      BY <1>1 DEF MemoryInv, MemoryType
    <2> QED BY <2>1, <2>2 DEF MemoryInv, MemoryType
  <1> QED BY <1>2, <1>4, <1>6, <1>7

\* A death gives the transport up exactly if it completes a burst.
LEMMA BurstRecorded ==
    ASSUME MemoryInv, NEW g \in Supervisors, RecordDeath(g)
    PROVE  BurstOk(g)'
  <1>1. PICK n \in Nat : n = Len(ages[g])
    BY DEF MemoryInv, MemoryType
  <1>2. PICK l \in Nat : l = Len(Recent(g)) /\ l <= n + 1
    <2>1. Append(ages[g], 0) \in Seq(Ages) /\ Len(Append(ages[g], 0)) = n + 1
      BY <1>1, DeathAppended DEF MemoryInv, MemoryType
    <2> QED BY <2>1, RecentIsWindow DEF EndOf
  <1>3. /\ Len(ages'[g]) = n + 1
        /\ \A i, j \in Nat : <<i, j>> \in near'[g] <=>
              \/ <<i, j>> \in near[g]
              \/ j = n + 1 /\ i \in 1..(n + 1) /\ i > n + 1 - l
    BY <1>1, <1>2, RecordedPairs
  <1>4. MaxDeaths \in Nat /\ MaxDeaths > 0
    BY SupervisorAssumption DEF SupervisorAssumption
  <1>5. \A i, j \in Nat : <<i, j>> \in near[g] => i \in 1..n
    BY <1>1 DEF MemoryInv, MemoryOk, PairsOk
  <1>6. mode'[g] = "spool_only" <=> mode[g] = "spool_only" \/ l >= MaxDeaths
    BY <1>2 DEF RecordDeath, MemoryInv, MemoryType
  <1>7. Burst(g)' <=> Burst(g) \/ l >= MaxDeaths
    <2>1. ASSUME NEW i \in 1..(n + 1), <<i, i + MaxDeaths - 1>> \in near'[g]
          PROVE  Burst(g) \/ l >= MaxDeaths
      <3>1. i \in Nat /\ i + MaxDeaths - 1 \in Nat
        BY <1>4
      <3>2. CASE <<i, i + MaxDeaths - 1>> \in near[g]
        BY <1>1, <1>5, <3>1, <3>2 DEF Burst
      <3>3. CASE i + MaxDeaths - 1 = n + 1 /\ i > n + 1 - l
        BY <1>2, <1>4, <3>1, <3>3
      <3> QED BY <1>3, <2>1, <3>1, <3>2, <3>3
    <2>2. ASSUME NEW i \in 1..n, <<i, i + MaxDeaths - 1>> \in near[g]
          PROVE  Burst(g)'
      <3>1. i \in Nat /\ i + MaxDeaths - 1 \in Nat /\ i \in 1..(n + 1)
        BY <1>4
      <3> QED BY <1>3, <2>2, <3>1 DEF Burst
    <2>3. ASSUME l >= MaxDeaths
          PROVE  Burst(g)'
      <3>1. PICK i \in Nat : i = n + 2 - MaxDeaths
        <4>1. n + 2 - MaxDeaths \in Nat
          BY <1>2, <1>4, <2>3
        <4> QED BY <4>1
      <3>2. i \in 1..(n + 1) /\ i > n + 1 - l /\ i + MaxDeaths - 1 = n + 1
        BY <1>2, <1>4, <2>3, <3>1
      <3>3. <<i, i + MaxDeaths - 1>> \in near'[g]
        BY <1>3, <3>2
      <3> QED BY <1>3, <3>2, <3>3 DEF Burst
    <2>4. Burst(g)' => \E i \in 1..(n + 1) : <<i, i + MaxDeaths - 1>> \in near'[g]
      BY <1>3 DEF Burst
    <2>5. Burst(g) => \E i \in 1..n : <<i, i + MaxDeaths - 1>> \in near[g]
      BY <1>1 DEF Burst
    <2> QED BY <2>1, <2>2, <2>3, <2>4, <2>5
  <1>8. BurstOk(g)
    BY DEF MemoryInv, MemoryOk
  <1> QED BY <1>6, <1>7, <1>8 DEF BurstOk

LEMMA BackoffInt == ASSUME NEW n \in Nat, n > 0 PROVE Backoff(n) \in Int
  <1>1. n - 1 \in Nat
    OBVIOUS
  <1>2. \A k \in Nat : 2 ^ k \in Int
    OBVIOUS
  <1>3. 2 ^ (n - 1) \in Int
    BY <1>1, <1>2
  <1> QED BY <1>3, SupervisorAssumption DEF Backoff, Minimum, SupervisorAssumption

LEMMA RecordKeepsMemory ==
    ASSUME LifeInv, MemoryInv, NEW g \in Supervisors, RecordDeath(g)
    PROVE  MemoryInv'
  <1>1. PICK n \in Nat : n = Len(ages[g])
    BY DEF MemoryInv, MemoryType
  <1>2. PICK q \in Seq(Ages), r \in Seq(Ages) :
             /\ q = Append(ages[g], 0) /\ r = Recent(g)
             /\ r # <<>> /\ Falls(q) /\ EndOf(r, q)
             /\ \A i \in 1..(n + 1) : q[i] <= Window <=> i > n + 1 - Len(r)
    BY <1>1, RecentIsWindow
  <1>3. /\ ages'[g] = q /\ Len(q) = n + 1 /\ deaths'[g] = r
        /\ \A i, j \in Nat : <<i, j>> \in near'[g] <=>
              \/ <<i, j>> \in near[g]
              \/ j = n + 1 /\ i \in 1..(n + 1) /\ i > n + 1 - Len(r)
        /\ near' \in [Supervisors -> SUBSET (Nat \X Nat)]
    BY <1>1, <1>2, RecordedPairs
  <1>4. Backoff(Len(r)) \in Int
    <2>1. Len(r) \in Nat /\ Len(r) > 0
      BY <1>2
    <2> QED BY <2>1, BackoffInt
  <1>5. /\ sleepLeft' = [sleepLeft EXCEPT ![g] = Backoff(Len(r))]
        /\ ages' = [ages EXCEPT ![g] = q]
        /\ deaths' = [deaths EXCEPT ![g] = r]
        /\ watcher' = [watcher EXCEPT ![g] = IF g \in stopSet THEN "done" ELSE "sleep"]
        /\ mode' = [mode EXCEPT ![g] = IF Len(r) >= MaxDeaths THEN "spool_only" ELSE @]
        /\ watcher[g] = "record"
    BY <1>2 DEF RecordDeath, Remember
  <1>6. MemoryType'
    BY <1>2, <1>3, <1>4, <1>5 DEF MemoryInv, MemoryType
  <1>7. MemoryOk(g)'
    <2>1. RemembersRecent(g)'
      BY <1>2, <1>3 DEF RemembersRecent
    <2>2. PairsOk(g)'
      <3>1. \A i, j \in Nat : <<i, j>> \in near[g] => i \in 1..n /\ j <= n
        BY <1>1 DEF MemoryInv, MemoryOk, PairsOk
      <3>2. ASSUME NEW i \in Nat, NEW j \in Nat, <<i, j>> \in near'[g]
            PROVE  i \in 1..Len(ages'[g]) /\ j <= Len(ages'[g])
        <4>1. CASE <<i, j>> \in near[g]
          <5>1. i \in 1..n /\ j <= n
            BY <3>1, <4>1
          <5> QED BY <1>3, <5>1
        <4>2. CASE j = n + 1 /\ i \in 1..(n + 1)
          BY <1>3, <4>2
        <4> QED BY <1>3, <3>2, <4>1, <4>2
      <3>3. ASSUME NEW i \in 1..(n + 1)
            PROVE  <<i, n + 1>> \in near'[g] <=> i > n + 1 - Len(r)
        <4>1. i \in Nat /\ n + 1 \in Nat /\ ~ (n + 1 <= n)
          OBVIOUS
        <4>2. <<i, n + 1>> \notin near[g]
          BY <3>1, <4>1
        <4> QED BY <1>3, <4>1, <4>2
      <3> QED BY <1>3, <3>2, <3>3 DEF PairsOk
    <2>3. BurstOk(g)'
      BY BurstRecorded
    <2>4. BackoffOk(g)'
      <3>1. /\ watcher'[g] # "spawn"
            /\ watcher'[g] = "sleep" => sleepLeft'[g] = Backoff(Len(r))
        <4>1. watcher'[g] = watcher[g] \/ watcher'[g] = "done" \/ watcher'[g] = "sleep"
          BY <1>5 DEF LifeInv, LifeType
        <4> QED BY <1>5, <4>1 DEF LifeInv, LifeType, MemoryInv, MemoryType
      <3>2. ages'[g][Len(ages'[g])] = 0
        BY <1>2, <1>3, <1>1, DeathAppended DEF MemoryInv, MemoryType
      <3>3. 0 + Backoff(Len(r)) >= Minimum(Backoff(Len(r)), Window + 1)
        BY <1>4, SupervisorAssumption DEF Minimum, SupervisorAssumption
      <3> QED BY <1>2, <1>3, <3>1, <3>2, <3>3 DEF BackoffOk
    <2> QED BY <2>1, <2>2, <2>3, <2>4 DEF MemoryOk
  <1>8. ASSUME NEW h \in Supervisors, h # g PROVE MemoryOk(h)'
    <2>1. /\ deaths'[h] = deaths[h] /\ ages'[h] = ages[h] /\ mode'[h] = mode[h]
          /\ sleepLeft'[h] = sleepLeft[h]
      BY <1>5, <1>8 DEF MemoryInv, MemoryType
    <2>2. near'[h] = near[h]
      BY <1>8 DEF RecordDeath, Remember, MemoryInv, MemoryType
    <2>3. watcher'[h] = watcher[h]
      BY <1>5, <1>8 DEF LifeInv, LifeType
    <2> QED BY <2>1, <2>2, <2>3, MemoryUntouched DEF MemoryInv
  <1> QED BY <1>6, <1>7, <1>8 DEF MemoryInv

LEMMA WakeKeepsMemory ==
    ASSUME LifeInv, MemoryInv, NEW g \in Supervisors, WatcherWakes(g)
    PROVE  MemoryInv'
  <1>1. /\ UNCHANGED <<mode, sleepLeft, deaths, ages, near>>
        /\ watcher[g] = "sleep" /\ sleepLeft[g] = 0
        /\ watcher'[g] \in {"spawn", "done"}
        /\ \A h \in Supervisors : h # g => watcher'[h] = watcher[h]
    BY DEF WatcherWakes, history, LifeInv, LifeType
  <1>2. MemoryType'
    BY <1>1 DEF MemoryInv, MemoryType
  <1>3. ASSUME NEW h \in Supervisors, h # g PROVE MemoryOk(h)'
    BY <1>1, <1>3, MemoryUntouched DEF MemoryInv
  <1>4. MemoryOk(g)'
    <2>1. RemembersRecent(g)' /\ PairsOk(g)' /\ BurstOk(g)'
      BY <1>1 DEF MemoryInv, MemoryOk, RemembersRecent, Falls, EndOf, PairsOk, BurstOk, Burst
    <2>2. BackoffOk(g)'
      <3>1. Len(ages[g]) \in 1..Len(ages[g]) /\ ages[g][Len(ages[g])] \in Int
        <4>1. /\ ages[g] \in Seq(Ages) /\ deaths[g] \in Seq(Ages) /\ deaths[g] # <<>>
              /\ Len(deaths[g]) <= Len(ages[g])
          BY <1>1 DEF MemoryInv, MemoryType, MemoryOk, BackoffOk, RemembersRecent, EndOf
        <4>2. Len(ages[g]) \in 1..Len(ages[g])
          BY <4>1
        <4> QED BY <4>1, <4>2, SupervisorAssumption DEF Ages, SupervisorAssumption
      <3>2. ages[g][Len(ages[g])] + 0 = ages[g][Len(ages[g])]
        BY <3>1
      <3> QED BY <1>1, <3>2 DEF MemoryInv, MemoryOk, BackoffOk
    <2> QED BY <2>1, <2>2 DEF MemoryOk
  <1> QED BY <1>2, <1>3, <1>4 DEF MemoryInv

\* Ages that grow together stay in order, and an age that left the window stays out.
LEMMA Older ==
    ASSUME NEW q \in Seq(Ages), NEW p, p = [i \in DOMAIN q |-> Minimum(q[i] + 1, Window + 1)]
    PROVE  /\ p \in Seq(Ages) /\ Len(p) = Len(q)
           /\ \A i \in 1..Len(q) : p[i] = Minimum(q[i] + 1, Window + 1)
  <1>1. DOMAIN q = 1..Len(q) /\ Len(q) \in Nat
    OBVIOUS
  <1>2. \A i \in 1..Len(q) : Minimum(q[i] + 1, Window + 1) \in Ages
    BY SupervisorAssumption DEF Ages, Minimum, SupervisorAssumption
  <1>3. p \in [1..Len(q) -> Ages]
    BY <1>1, <1>2
  <1> QED BY <1>1, <1>3

LEMMA TickKeepsMemory ==
    ASSUME MemoryInv, Tick
    PROVE  MemoryInv'
  <1>1. /\ deaths' = [g \in Supervisors |->
              [i \in DOMAIN deaths[g] |-> Minimum(deaths[g][i] + 1, Window + 1)]]
        /\ ages' = [g \in Supervisors |->
              [i \in DOMAIN ages[g] |-> Minimum(ages[g][i] + 1, Window + 1)]]
        /\ sleepLeft' = [g \in Supervisors |->
              IF watcher[g] = "sleep" /\ sleepLeft[g] > 0 THEN sleepLeft[g] - 1
              ELSE sleepLeft[g]]
        /\ UNCHANGED <<mode, watcher, near>>
    BY DEF Tick
  <1>2. ASSUME NEW g \in Supervisors
        PROVE  /\ ages'[g] \in Seq(Ages) /\ Len(ages'[g]) = Len(ages[g])
               /\ \A i \in 1..Len(ages[g]) : ages'[g][i] = Minimum(ages[g][i] + 1, Window + 1)
    BY <1>1, Older DEF MemoryInv, MemoryType
  <1>3. ASSUME NEW g \in Supervisors
        PROVE  /\ deaths'[g] \in Seq(Ages) /\ Len(deaths'[g]) = Len(deaths[g])
               /\ \A i \in 1..Len(deaths[g]) :
                     deaths'[g][i] = Minimum(deaths[g][i] + 1, Window + 1)
    BY <1>1, Older DEF MemoryInv, MemoryType
  <1>4. MemoryType'
    <2>1. ages' \in [Supervisors -> Seq(Ages)] /\ deaths' \in [Supervisors -> Seq(Ages)]
      BY <1>1, <1>2, <1>3
    <2>2. sleepLeft' \in [Supervisors -> Int]
      BY <1>1 DEF MemoryInv, MemoryType
    <2> QED BY <1>1, <2>1, <2>2 DEF MemoryInv, MemoryType
  <1>5. ASSUME NEW g \in Supervisors PROVE MemoryOk(g)'
    <2>1. PICK n \in Nat, k \in Nat : n = Len(ages[g]) /\ k = Len(deaths[g])
      BY DEF MemoryInv, MemoryType
    <2>2. /\ k <= n
          /\ \A i, j \in 1..n : i <= j => ages[g][j] <= ages[g][i]
          /\ \A i \in 1..k : deaths[g][i] = ages[g][n - k + i]
          /\ \A i \in 1..(n - k) : ages[g][i] > Window
      BY <2>1 DEF MemoryInv, MemoryOk, RemembersRecent, Falls, EndOf
    <2>3. /\ \A i \in 1..n : ages[g][i] \in Int
          /\ Window \in Nat
      BY <2>1, SupervisorAssumption DEF MemoryInv, MemoryType, Ages, SupervisorAssumption
    <2>4. Falls(ages'[g])
      <3>1. ASSUME NEW i \in 1..n, NEW j \in 1..n, i <= j
            PROVE  ages'[g][j] <= ages'[g][i]
        <4>1. ages[g][j] <= ages[g][i]
          BY <2>2, <3>1
        <4> QED BY <1>2, <2>1, <2>3, <4>1 DEF Minimum
      <3> QED BY <1>2, <2>1, <3>1 DEF Falls
    <2>5. EndOf(deaths'[g], ages'[g])
      <3>1. ASSUME NEW i \in 1..k
            PROVE  deaths'[g][i] = ages'[g][n - k + i]
        <4>1. k <= n /\ deaths[g][i] = ages[g][n - k + i]
          BY <2>2
        <4>2. n - k + i \in 1..n
          <5>1. n \in Nat /\ k \in Nat /\ i \in 1..k /\ k <= n
            BY <2>1, <3>1, <4>1
          <5> QED BY <5>1
        <4>3. deaths'[g][i] = Minimum(deaths[g][i] + 1, Window + 1)
          BY <1>3, <1>5, <2>1
        <4>4. ages'[g][n - k + i] = Minimum(ages[g][n - k + i] + 1, Window + 1)
          BY <1>2, <1>5, <2>1, <4>2
        <4> QED BY <4>1, <4>3, <4>4
      <3>2. ASSUME NEW i \in 1..(n - k)
            PROVE  ages'[g][i] > Window
        <4>1. i \in 1..n /\ ages[g][i] > Window
          BY <2>1, <2>2
        <4> QED BY <1>2, <2>1, <2>3, <4>1 DEF Minimum
      <3> QED BY <1>2, <1>3, <2>1, <2>2, <3>1, <3>2 DEF EndOf
    <2>6. PairsOk(g)' /\ BurstOk(g)'
      BY <1>1, <1>2, <1>3 DEF MemoryInv, MemoryOk, PairsOk, BurstOk, Burst
    <2>7. BackoffOk(g)'
      <3>1. CASE watcher[g] \notin {"sleep", "spawn"}
        BY <1>1, <3>1 DEF BackoffOk
      <3>2. CASE watcher[g] \in {"sleep", "spawn"}
        <4>1. deaths[g] # <<>> /\ k > 0 /\ n \in 1..n
          BY <2>1, <2>2, <3>2 DEF MemoryInv, MemoryType, MemoryOk, BackoffOk
        <4>2. PICK due \in Int, age \in Int, left \in Int :
                   /\ due = Minimum(Backoff(k), Window + 1)
                   /\ age = ages[g][n] /\ left = sleepLeft[g]
          <5>1. Minimum(Backoff(k), Window + 1) \in Int
            BY <2>1, <2>3, <4>1, BackoffInt DEF Minimum
          <5> QED BY <2>3, <4>1, <5>1 DEF MemoryInv, MemoryType
        <4>3. /\ watcher[g] = "sleep" => age + left >= due
              /\ watcher[g] = "spawn" => age >= due
              /\ due <= Window + 1
          <5>1. due <= Window + 1
            <6>1. Backoff(k) \in Int
              BY <2>1, <4>1, BackoffInt
            <6> QED BY <2>3, <4>2, <6>1 DEF Minimum
          <5> QED BY <2>1, <4>2, <5>1 DEF MemoryInv, MemoryOk, BackoffOk
        <4>4. /\ ages'[g][n] = Minimum(age + 1, Window + 1)
              /\ sleepLeft'[g] = IF watcher[g] = "sleep" /\ left > 0 THEN left - 1 ELSE left
          BY <1>1, <1>2, <2>1, <4>1, <4>2
        <4>5. age <= Window + 1
          <5>1. ages[g] \in Seq(Ages)
            BY <1>5 DEF MemoryInv, MemoryType
          <5>2. ages[g][n] \in Ages
            BY <2>1, <4>1, <5>1
          <5> QED BY <2>3, <4>2, <5>2 DEF Ages
        <4>6. /\ watcher[g] = "sleep" => ages'[g][n] + sleepLeft'[g] >= due
              /\ watcher[g] = "spawn" => ages'[g][n] >= due
          BY <2>3, <4>3, <4>4, <4>5 DEF Minimum
        <4>7. deaths'[g] # <<>>
          BY <1>3, <2>1, <4>1
        <4> QED BY <1>1, <1>2, <1>3, <2>1, <4>2, <4>6, <4>7 DEF BackoffOk
      <3> QED BY <3>1, <3>2
    <2> QED BY <2>4, <2>5, <2>6, <2>7 DEF MemoryOk, RemembersRecent
  <1> QED BY <1>4, <1>5 DEF MemoryInv

LEMMA MemoryStep == LifeInv /\ MemoryInv /\ [Next]_vars => MemoryInv'
  <1> SUFFICES ASSUME LifeInv, MemoryInv, [Next]_vars PROVE MemoryInv'
    OBVIOUS
  <1>1. ASSUME UNCHANGED <<sleepLeft, deaths, ages, near>>,
               mode' \in [Supervisors -> {"none", "normal", "spool_only"}],
               NEW g \in Supervisors,
               \A h \in Supervisors : mode'[h] = "spool_only" <=> mode[h] = "spool_only",
               \A h \in Supervisors : \/ watcher'[h] = watcher[h]
                                      \/ watcher'[h] \notin {"sleep", "spawn"}
        PROVE  MemoryInv'
    <2>1. MemoryType'
      BY <1>1 DEF MemoryInv, MemoryType
    <2>2. \A h \in Supervisors : MemoryOk(h)'
      BY <1>1, MemoryUntouched DEF MemoryInv
    <2> QED BY <2>1, <2>2 DEF MemoryInv
  <1>2. ASSUME UNCHANGED <<sleepLeft, deaths, ages, near, mode, watcher>>
        PROVE  MemoryInv'
    <2>1. MemoryType'
      BY <1>2 DEF MemoryInv, MemoryType
    <2>2. \A h \in Supervisors : MemoryOk(h)'
      BY <1>2, MemoryUntouched DEF MemoryInv
    <2> QED BY <2>1, <2>2 DEF MemoryInv
  <1>3. ASSUME NEW g \in Supervisors, StartFlushThread(g) PROVE MemoryInv'
    <2>1. /\ UNCHANGED <<sleepLeft, deaths, ages, near>> /\ mode[g] = "none"
          /\ mode' = [mode EXCEPT ![g] = "normal"]
          /\ watcher' = [watcher EXCEPT ![g] = "top"]
      BY <1>3 DEF StartFlushThread, history
    <2>2. /\ mode' \in [Supervisors -> {"none", "normal", "spool_only"}]
          /\ \A h \in Supervisors : mode'[h] = "spool_only" <=> mode[h] = "spool_only"
          /\ \A h \in Supervisors : watcher'[h] = watcher[h] \/ watcher'[h] = "top"
      BY <2>1 DEF MemoryInv, MemoryType, LifeInv, LifeType
    <2> QED BY <1>1, <2>1, <2>2
  <1>4. ASSUME NEW g \in Supervisors, WorkerDies(g) \/ WorkerExits(g) PROVE MemoryInv'
    BY <1>2, <1>4 DEF WorkerDies, WorkerExits, history
  <1>5. ASSUME NEW g \in Supervisors, WatcherStep(g) PROVE MemoryInv'
    <2>1. CASE RecordDeath(g)
      BY <2>1, RecordKeepsMemory
    <2>2. CASE WatcherWakes(g)
      BY <2>2, WakeKeepsMemory
    <2>3. CASE WatcherLeaves(g) \/ WatcherFindsDead(g) \/ Spawn(g) \/ Publish(g)
      <3>1. /\ UNCHANGED <<sleepLeft, deaths, ages, near, mode>>
            /\ \E pc \in {"done", "record", "publish", "top"} :
                  watcher' = [watcher EXCEPT ![g] = pc]
        BY <2>3 DEF WatcherLeaves, WatcherFindsDead, Spawn, Publish, history
      <3>2. /\ mode' \in [Supervisors -> {"none", "normal", "spool_only"}]
            /\ \A h \in Supervisors : \/ watcher'[h] = watcher[h]
                                      \/ watcher'[h] \notin {"sleep", "spawn"}
        BY <3>1 DEF MemoryInv, MemoryType, LifeInv, LifeType
      <3> QED BY <1>1, <3>1, <3>2
    <2> QED BY <1>5, <2>1, <2>2, <2>3 DEF WatcherStep
  <1>6. ASSUME NEW c \in Stoppers, StopperStep(c) PROVE MemoryInv'
    <2>1. UNCHANGED <<sleepLeft, deaths, ages, near, mode, watcher>>
      BY <1>6 DEF StopperStep, StopTake, StopSet, StopWorker, StopJoin, StopReturn, history
    <2> QED BY <1>2, <2>1
  <1>7. CASE Tick
    BY <1>7, TickKeepsMemory
  <1>8. CASE UNCHANGED vars
    BY <1>2, <1>8 DEF vars, history
  <1> QED BY <1>3, <1>4, <1>5, <1>6, <1>7, <1>8 DEF Next

LEMMA MemoryAlways == Spec => [](LifeInv /\ MemoryInv)
  <1>1. Init => LifeInv /\ MemoryInv
    BY LifeInit, MemoryInit
  <1>2. LifeInv /\ MemoryInv /\ [Next]_vars => LifeInv' /\ MemoryInv'
    BY LifeStep, MemoryStep
  <1> QED BY <1>1, <1>2, PTL DEF Spec

\* The supervisor goes into spool-only mode exactly if MAX_DEATHS of the deaths of its
\* workers, of all there ever were, fell within one window, although it forgets deaths
\* as it goes (core/flush.py:997-1009); and the transport of the workers follows.
THEOREM DegradesOnlyForBurst == Spec => []DegradesRight
  <1>1. LifeInv /\ MemoryInv => DegradesRight
    BY DEF LifeInv, AliveOk, TransportFollowsMode, Alive, MemoryInv, MemoryOk, BurstOk,
           DegradesRight, DegradedExactlyAfterBurst
  <1> QED BY <1>1, MemoryAlways, PTL

LEMMA LastOnes ==
    ASSUME NEW n \in Nat, NEW k \in Nat, k \in 1..n
    PROVE  /\ {i \in 1..n : i > n - k} = (n - k + 1)..n
           /\ Cardinality((n - k + 1)..n) = k
  <1>1. {i \in 1..n : i > n - k} = (n - k + 1)..n
    OBVIOUS
  <1>2. n - k + 1 \in Int /\ n \in Int /\ ~ (n - k + 1 > n) /\ n - (n - k + 1) + 1 = k
    OBVIOUS
  <1>3. Cardinality((n - k + 1)..n) = n - (n - k + 1) + 1
    BY <1>2, FS_Interval
  <1> QED BY <1>1, <1>2, <1>3

\* The deaths within the window of the last one are those that _deaths holds.
LEMMA HistoryCounts ==
    ASSUME MemoryInv, NEW g \in Supervisors, deaths[g] # <<>>
    PROVE  RecentByHistory(g) = Len(deaths[g])
  <1>1. PICK n \in Nat, k \in Nat : n = Len(ages[g]) /\ k = Len(deaths[g])
    BY DEF MemoryInv, MemoryType
  <1>2. k \in 1..n
    BY <1>1 DEF MemoryInv, MemoryType, MemoryOk, RemembersRecent, EndOf
  <1> DEFINE N == {i \in 1..n : <<i, n>> \in near[g]}
  <1>3. N = (n - k + 1)..n
    <2>1. \A i \in 1..n : <<i, n>> \in near[g] <=> i > n - k
      <3>1. PairsOk(g)
        BY DEF MemoryInv, MemoryOk
      <3>2. \A i \in 1..Len(ages[g]) :
               <<i, Len(ages[g])>> \in near[g] <=> i > Len(ages[g]) - Len(deaths[g])
        BY <3>1 DEF PairsOk
      <3> QED BY <1>1, <3>2, Zenon
    <2>2. N = {i \in 1..n : i > n - k}
      BY <2>1
    <2>3. {i \in 1..n : i > n - k} = (n - k + 1)..n
      BY <1>2, LastOnes
    <2> HIDE DEF N
    <2> QED BY <2>2, <2>3, Zenon
  <1>4. Cardinality((n - k + 1)..n) = k
    BY <1>2, LastOnes
  <1>5. RecentByHistory(g) = Cardinality(N)
    BY <1>1 DEF RecentByHistory
  <1> HIDE DEF N
  <1> QED BY <1>1, <1>3, <1>4, <1>5, Zenon

\* A worker is respawned no earlier than the backoff after the death before it: twice
\* as long for each death within the window, up to MAX_BACKOFF (core/flush.py:982-989,
\* 1010), and ages past the window count as just past it.
THEOREM RespawnsBackOff == Spec => RespawnBacksOff
  <1>1. ASSUME LifeInv, MemoryInv, [Next]_vars, NEW g \in Supervisors,
               Len(workers[g]) > 0, Len(workers'[g]) > Len(workers[g])
        PROVE  Last(ages[g]) >=
                  Minimum(Minimum(2 ^ (RecentByHistory(g) - 1), MaxBackoff), Window + 1)
    <2>1. Spawn(g)
      <3>1. workers[g] \in Seq(WorkerRecords) /\ workers \in [Supervisors -> Seq(WorkerRecords)]
        BY <1>1 DEF LifeInv, LifeType
      <3>2. workers[g] # <<>> /\ workers'[g] # workers[g]
        BY <1>1, <3>1
      <3>3. ASSUME NEW h \in Supervisors, StartFlushThread(h) PROVE FALSE
        <4>1. h # g
          BY <1>1, <3>2, <3>3 DEF StartFlushThread, LifeInv, StartedOk
        <4> QED BY <3>1, <3>2, <3>3, <4>1 DEF StartFlushThread
      <3>4. ASSUME NEW h \in Supervisors, NEW i \in 1..Len(workers[h]), NEW w,
                   workers' = [workers EXCEPT ![h][i] = w]
            PROVE  FALSE
        <4>1. workers' = [workers EXCEPT ![h] = [workers[h] EXCEPT ![i] = w]]
          BY <3>4, <3>1
        <4>2. Len([workers[h] EXCEPT ![i] = w]) = Len(workers[h])
          BY <3>1
        <4>3. workers'[g] = workers[g] \/ (h = g /\ workers'[g] = [workers[h] EXCEPT ![i] = w])
          BY <3>1, <4>1
        <4> QED BY <1>1, <3>2, <4>2, <4>3, <3>1
      <3>5. ASSUME NEW h \in Supervisors, WorkerDies(h) \/ WorkerExits(h) PROVE FALSE
        <4>1. PICK i \in 1..Len(workers[h]) :
                   \/ workers' = [workers EXCEPT ![h][i] = [@ EXCEPT !.alive = FALSE, !.died = TRUE]]
                   \/ workers' = [workers EXCEPT ![h][i] = [@ EXCEPT !.alive = FALSE]]
          BY <3>5 DEF WorkerDies, WorkerExits, Alive
        <4> QED BY <3>4, <4>1
      <3>6. ASSUME NEW c \in Stoppers, StopperStep(c) PROVE FALSE
        <4>1. StopWorker(c)
          BY <3>2, <3>6 DEF StopperStep, StopTake, StopSet, StopJoin, StopReturn
        <4>2. PICK h \in Supervisors : \E i \in 1..Len(workers[h]) :
                   workers' = [workers EXCEPT ![h][i].stopEvent = TRUE]
          <5>1. stopper[c].sup \in Supervisors /\ mode[stopper[c].sup] # "none"
            BY <1>1, <3>6, <4>1 DEF StopWorker, LifeInv, GlobalOk
          <5>2. published[stopper[c].sup] \in 1..Len(workers[stopper[c].sup])
            <6>1. /\ published[stopper[c].sup] \in Nat /\ published[stopper[c].sup] > 0
                  /\ Len(workers[stopper[c].sup]) \in Nat
              BY <1>1, <5>1 DEF LifeInv, LifeType, PublishedOk
            <6>2. published[stopper[c].sup] <= Len(workers[stopper[c].sup])
              BY <1>1, <5>1, <6>1 DEF LifeInv, PublishedOk
            <6> QED BY <6>1, <6>2
          <5> QED BY <4>1, <5>1, <5>2 DEF StopWorker
        <4>3. PICK i \in 1..Len(workers[h]) :
                   workers' = [workers EXCEPT ![h][i] = [workers[h][i] EXCEPT !.stopEvent = TRUE]]
          BY <4>2, <3>1
        <4> QED BY <3>4, <4>3
      <3>7. ASSUME NEW h \in Supervisors, WatcherStep(h) PROVE Spawn(g)
        <4>1. Spawn(h)
          BY <3>2, <3>7 DEF WatcherStep, WatcherLeaves, WatcherFindsDead, RecordDeath,
                            WatcherWakes, Publish
        <4>2. h = g
          BY <3>1, <3>2, <4>1 DEF Spawn
        <4> QED BY <4>1, <4>2
      <3>8. ~ Tick /\ ~ UNCHANGED vars
        BY <3>2 DEF Tick, vars
      <3> QED BY <1>1, <3>3, <3>5, <3>6, <3>7, <3>8 DEF Next
    <2>2. /\ deaths[g] # <<>>
          /\ ages[g][Len(ages[g])] >= Minimum(Backoff(Len(deaths[g])), Window + 1)
      BY <1>1, <2>1 DEF Spawn, MemoryInv, MemoryOk, BackoffOk
    <2>3. RecentByHistory(g) = Len(deaths[g])
      BY <1>1, <2>2, HistoryCounts
    <2> QED BY <2>2, <2>3 DEF Backoff, Last
  <1>2. ASSUME LifeInv, MemoryInv, [Next]_vars
        PROVE  [\A g \in Supervisors :
                  Len(workers[g]) > 0 /\ Len(workers'[g]) > Len(workers[g]) =>
                     Last(ages[g]) >=
                        Minimum(Minimum(2 ^ (RecentByHistory(g) - 1), MaxBackoff), Window + 1)]_vars
    BY <1>1, <1>2
  <1> QED BY <1>2, MemoryAlways, PTL DEF Spec, RespawnBacksOff
===============================================================================
