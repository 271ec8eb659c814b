----------------------------- MODULE FlushPipeline -----------------------------
(***************************************************************************)
(* core/flush.py, with core/snapshot_buffer.py, core/blob_queue.py and the *)
(* capture side of snapshots/sampled.py: how closed spans, snapshot        *)
(* records and pending blobs leave the producer buffers.  They are drained *)
(* by the ticks of the flush worker and, at the same time, by callers of   *)
(* flush_now, ci.trace() and Profiler.shutdown on other threads.           *)
(*                                                                         *)
(* A drained record is in the hand of its flusher, off every buffer, until *)
(* the batch reaches the trace buffer, the local sink and the transport.   *)
(* The drain of all spans is one step: ScopeStack shows what it does step  *)
(* by step.  Marks travel like spans.  The supervisor is a worker that may *)
(* die and come back, possibly without its transport: see Supervisor.      *)
(***************************************************************************)
EXTENDS Naturals, Sequences, FiniteSets

CONSTANTS Spans,         \* closed spans (and marks)
          Snaps,         \* snapshot records, each with a blob of its own
          Callers,       \* threads that flush
          Calls,         \* bound: the calls a caller may make
          SpoolOn,       \* TRUE for output="spool", FALSE for output="none"
          MaxAttempts,   \* MAX_BLOB_ATTEMPTS
          BlobCap,       \* DEFAULT_SOFT_CAP of the blob queue
          SnapCap,       \* DEFAULT_SOFT_CAP of the snapshot buffer
          Setups         \* the circumstances to explore, see below

Records == Spans \cup Snaps

\* transport: profile() selected one; snaps and callers: those of the behaviour;
\* deaths: bound on the deaths of the worker.
Circumstances == [transport : BOOLEAN, snaps : SUBSET Snaps, callers : SUBSET Callers,
                  deaths : 0..2]

ASSUME FlushAssumption ==
    /\ Spans \cap Snaps = {}
    /\ Calls \subseteq {"flush", "trace", "shutdown"}
    /\ Setups \subseteq Circumstances /\ SpoolOn \in BOOLEAN
    /\ MaxAttempts \in Nat \ {0} /\ BlobCap \in Nat \ {0} /\ SnapCap \in Nat \ {0}

VARIABLES
    setup,      \* the circumstances of this behaviour
    made,       \* spans closed so far; snapshot records built so far
    spanBuf,    \* spans in the deques
    snapBuf,    \* records in the snapshot buffer
    snapDrops,  \* its drop_count
    blobQ,      \* the blob queue: snapshot and attempts, oldest first
    blobDrops,  \* its drop_count
    blobs,      \* snapshots whose blob was serialized and offered to the queue
    uri,        \* snapshot -> "local" or "remote", its blob_uri
    worker,     \* the worker's tick
    supervised, \* _supervisor is set
    stopping,   \* the worker's stop event is set
    deaths,     \* deaths of the worker so far
    caller,     \* per caller: the call in progress
    traced,     \* record -> how often it was added to the trace buffer
    spooled,    \* record -> how often it was written to the spool
    offered,    \* record -> how often it was passed to transport.send
    accepted,   \* records whose send returned True
    tries,      \* history: snapshot -> calls of upload_blob
    uploaded,   \* history: snapshots whose upload succeeded
    early,      \* history: snapshots offered under their local URI
    gone,       \* history: records lost with a worker that died
    lostBlobs   \* history: snapshots whose pending upload was

buffers  == <<spanBuf, snapBuf, snapDrops>>
queue    == <<blobQ, blobDrops>>
outputs  == <<traced, spooled, offered, accepted>>
uploads  == <<tries, uploaded>>
losses   == <<gone, lostBlobs>>
life     == <<supervised, stopping, deaths>>
vars     == <<setup, made, spanBuf, snapBuf, snapDrops, blobQ, blobDrops, blobs, uri,
              worker, supervised, stopping, deaths, caller, traced, spooled,
              offered, accepted, tries, uploaded, early, gone, lostBlobs>>

NoTick == [pc |-> "idle", hand |-> {}, pending |-> <<>>, uris |-> {}, transport |-> setup.transport]
NoCall == [pc |-> "away", kind |-> "flush", hand |-> {}, sinks |-> "fallback",
           before |-> {}, timely |-> FALSE]

Once(count, set) == [r \in Records |-> count[r] + (IF r \in set THEN 1 ELSE 0)]

Init ==
    /\ setup \in Setups
    /\ made = {} /\ spanBuf = {} /\ snapBuf = <<>> /\ snapDrops = 0
    /\ blobQ = <<>> /\ blobDrops = 0 /\ blobs = {}
    /\ uri = [s \in Snaps |-> "local"]
    /\ worker = NoTick
    /\ supervised = TRUE /\ stopping = FALSE /\ deaths = 0
    /\ caller = [c \in Callers |-> NoCall]
    /\ traced = [r \in Records |-> 0]
    /\ spooled = [r \in Records |-> 0]
    /\ offered = [r \in Records |-> 0]
    /\ accepted = {}
    /\ tries = [s \in Snaps |-> 0]
    /\ uploaded = {} /\ early = {}
    /\ gone = {} /\ lostBlobs = {}

-------------------------------------------------------------------------------
(* Producers *)

\* A span is closed (or a mark is made) and can be drained.
CloseSpan(s) ==
    /\ s \notin made
    /\ made' = made \cup {s}
    /\ spanBuf' = spanBuf \cup {s}
    /\ UNCHANGED <<snapBuf, snapDrops, queue, blobs, uri, worker, life, caller,
                   outputs, uploads, early, losses>>

\* BlobUploadQueue.enqueue
Enqueue(item) == IF Len(blobQ) >= BlobCap
                 THEN blobDrops' = blobDrops + 1 /\ UNCHANGED blobQ
                 ELSE blobQ' = Append(blobQ, item) /\ UNCHANGED blobDrops

\* serialize_and_enqueue: the blob is written and queued while its record is
\* still in the hands of the hook.
CaptureBlob(s) ==
    /\ s \notin blobs
    /\ blobs' = blobs \cup {s}
    /\ Enqueue([snap |-> s, attempts |-> 0])
    /\ UNCHANGED <<made, buffers, uri, worker, life, caller, outputs, uploads, early,
                   losses>>

\* Faulty: refuses a record at the cap without counting it.
CaptureRecordUncounted(s) ==
    /\ s \in blobs /\ s \notin made
    /\ made' = made \cup {s}
    /\ snapBuf' = IF Len(snapBuf) >= SnapCap THEN snapBuf ELSE Append(snapBuf, s)
    /\ UNCHANGED <<spanBuf, snapDrops, queue, blobs, uri, worker, life, caller, outputs,
                   uploads, early, losses>>

\* SnapshotBuffer.extend, at the end of the capture.
CaptureRecord(s) ==
    /\ s \in blobs /\ s \notin made
    /\ made' = made \cup {s}
    /\ IF Len(snapBuf) >= SnapCap
       THEN snapDrops' = snapDrops + 1 /\ UNCHANGED snapBuf
       ELSE snapBuf' = Append(snapBuf, s) /\ UNCHANGED snapDrops
    /\ UNCHANGED <<spanBuf, queue, blobs, uri, worker, life, caller, outputs, uploads,
                   early, losses>>

-------------------------------------------------------------------------------
(* The tick of the worker: _tick_body *)

Snapped == {snapBuf[i] : i \in DOMAIN snapBuf}

\* The loop has tested its stop event.
TickSpans ==
    /\ worker.pc = "idle" /\ ~ stopping
    /\ worker' = [worker EXCEPT !.pc = "snaps", !.hand = spanBuf]
    /\ spanBuf' = {}
    /\ UNCHANGED <<made, snapBuf, snapDrops, queue, blobs, uri, life, caller, outputs,
                   uploads, early, losses>>

\* Faulty: copies the snapshot buffer without emptying it.
TickSnapsKeeping ==
    /\ worker.pc = "snaps"
    /\ worker' = [worker EXCEPT !.pc = "blobs", !.hand = @ \cup Snapped]
    /\ UNCHANGED <<made, spanBuf, snapBuf, snapDrops, queue, blobs, uri, life, caller,
                   outputs, uploads, early, losses>>

TickSnaps ==
    /\ worker.pc = "snaps"
    /\ worker' = [worker EXCEPT !.pc = "blobs", !.hand = @ \cup Snapped]
    /\ snapBuf' = <<>>
    /\ UNCHANGED <<made, spanBuf, snapDrops, queue, blobs, uri, life, caller, outputs,
                   uploads, early, losses>>

\* Take the pending blobs; without a transport they are discarded.
TickBlobs ==
    /\ worker.pc = "blobs"
    /\ worker' = [worker EXCEPT !.pc = "upload",
                                !.pending = IF worker.transport THEN blobQ ELSE <<>>]
    /\ blobQ' = <<>>
    /\ UNCHANGED <<made, buffers, blobDrops, blobs, uri, life, caller, outputs, uploads,
                   early, losses>>

\* Faulty: gives up one attempt late.
HandleUploadFailureLate(item) ==
    IF item.attempts + 1 > MaxAttempts THEN UNCHANGED queue
    ELSE Enqueue([item EXCEPT !.attempts = @ + 1])

\* _handle_upload_failure: give up, or queue again.
HandleUploadFailure(item) ==
    IF item.attempts + 1 >= MaxAttempts THEN UNCHANGED queue
    ELSE Enqueue([item EXCEPT !.attempts = @ + 1])

\* upload_blob raises, or returns None.
UploadFails ==
    /\ worker.pc = "upload" /\ worker.pending # <<>>
    /\ LET item == Head(worker.pending) IN
         /\ tries' = [tries EXCEPT ![item.snap] = @ + 1]
         /\ worker' = [worker EXCEPT !.pending = Tail(@)]
         /\ HandleUploadFailure(item)
    /\ UNCHANGED <<made, buffers, blobs, uri, life, caller, outputs, uploaded, early,
                   losses>>

UploadSucceeds ==
    /\ worker.pc = "upload" /\ worker.pending # <<>>
    /\ LET s == Head(worker.pending).snap IN
         /\ tries' = [tries EXCEPT ![s] = @ + 1]
         /\ uploaded' = uploaded \cup {s}
         /\ worker' = [worker EXCEPT !.pending = Tail(@), !.uris = @ \cup {s}]
    /\ UNCHANGED <<made, buffers, queue, blobs, uri, life, caller, outputs, early, losses>>

\* _apply_uri_map, to the records of this tick.  An empty tick ends here.
ApplyUris ==
    /\ worker.pc = "upload" /\ worker.pending = <<>>
    /\ uri' = [s \in Snaps |-> IF s \in worker.hand \cap worker.uris THEN "remote"
                               ELSE uri[s]]
    /\ worker' = [worker EXCEPT !.pc = IF worker.hand = {} THEN "idle" ELSE "trace",
                                !.uris = {}]
    /\ UNCHANGED <<made, buffers, queue, blobs, life, caller, outputs, uploads, early,
                   losses>>

\* trace_buffer.add_batch
TickTrace ==
    /\ worker.pc = "trace"
    /\ traced' = Once(traced, worker.hand)
    /\ worker' = [worker EXCEPT !.pc = "sink"]
    /\ UNCHANGED <<made, buffers, queue, blobs, uri, life, caller, spooled, offered,
                   accepted, uploads, early, losses>>

\* The sinks; one that raises is logged and passed over.
TickSink ==
    /\ worker.pc = "sink"
    /\ \E written \in BOOLEAN :
         spooled' = IF written /\ SpoolOn THEN Once(spooled, worker.hand) ELSE spooled
    /\ worker' = [worker EXCEPT !.pc = "send"]
    /\ UNCHANGED <<made, buffers, queue, blobs, uri, life, caller, traced, offered,
                   accepted, uploads, early, losses>>

\* transport.send; what it returns is not looked at.
TickSend ==
    /\ worker.pc = "send"
    /\ IF worker.transport
       THEN /\ offered' = Once(offered, worker.hand)
            /\ \E ok \in BOOLEAN : accepted' = IF ok THEN accepted \cup worker.hand
                                               ELSE accepted
            /\ early' = early \cup {s \in worker.hand \cap Snaps : uri[s] = "local"}
       ELSE UNCHANGED <<offered, accepted, early>>
    /\ worker' = [worker EXCEPT !.pc = "idle", !.hand = {}]
    /\ UNCHANGED <<made, buffers, queue, blobs, uri, life, caller, traced, spooled,
                   uploads, losses>>

\* Something a tick does not swallow: what it had drained is lost with it.  The
\* supervisor brings up a new worker, degraded or not.
WorkerDies ==
    /\ worker.pc \notin {"exited"} /\ deaths < setup.deaths
    /\ deaths' = deaths + 1
    /\ gone' = gone \cup worker.hand
    /\ lostBlobs' = lostBlobs \cup {worker.pending[i].snap : i \in DOMAIN worker.pending}
    /\ \E t \in {worker.transport, FALSE} : worker' = [NoTick EXCEPT !.transport = t]
    /\ UNCHANGED <<made, buffers, queue, blobs, uri, supervised, stopping, caller,
                   outputs, uploads, early>>

\* Faulty: tests the stop event in the middle of a tick too.
WorkerExitsMidTick ==
    /\ worker.pc # "exited" /\ stopping
    /\ worker' = [worker EXCEPT !.pc = "exited"]
    /\ UNCHANGED <<made, buffers, queue, blobs, uri, life, caller, outputs, uploads,
                   early, losses>>

\* The loop leaves without a last tick.
WorkerExits ==
    /\ worker.pc = "idle" /\ stopping
    /\ worker' = [worker EXCEPT !.pc = "exited"]
    /\ UNCHANGED <<made, buffers, queue, blobs, uri, life, caller, outputs, uploads,
                   early, losses>>

-------------------------------------------------------------------------------
(* Callers: flush_now, flush_to_trace_buffer, shutdown *)

\* flush_now reads the supervisor and its worker's sinks first.  ci.trace() goes
\* through flush_now only if there is a supervisor; a call of shutdown begins
\* with a flush_now.  Each caller makes one call.
CallBegin(c) ==
    /\ caller[c].pc = "away"
    /\ \E k \in Calls :
         caller' = [caller EXCEPT ![c] =
            [NoCall EXCEPT !.pc = "spans", !.kind = k, !.before = made,
                           !.sinks = IF supervised THEN "worker"
                                     ELSE IF k = "trace" THEN "none" ELSE "fallback"]]
    /\ UNCHANGED <<made, buffers, queue, blobs, uri, worker, life, outputs, uploads,
                   early, losses>>

CallSpans(c) ==
    /\ caller[c].pc = "spans"
    /\ caller' = [caller EXCEPT ![c].pc = "snaps", ![c].hand = spanBuf]
    /\ spanBuf' = {}
    /\ UNCHANGED <<made, snapBuf, snapDrops, queue, blobs, uri, worker, life, outputs,
                   uploads, early, losses>>

CallSnaps(c) ==
    /\ caller[c].pc = "snaps"
    /\ caller' = [caller EXCEPT ![c].pc = "trace", ![c].hand = @ \cup Snapped]
    /\ snapBuf' = <<>>
    /\ UNCHANGED <<made, spanBuf, snapDrops, queue, blobs, uri, worker, life, outputs,
                   uploads, early, losses>>

CallTrace(c) ==
    /\ caller[c].pc = "trace"
    /\ traced' = Once(traced, caller[c].hand)
    /\ caller' = [caller EXCEPT ![c].pc = "sink"]
    /\ UNCHANGED <<made, buffers, queue, blobs, uri, worker, life, spooled, offered,
                   accepted, uploads, early, losses>>

\* The worker's sinks, or the fallback writer when there was no worker.
CallSink(c) ==
    /\ caller[c].pc = "sink"
    /\ \E written \in BOOLEAN :
         spooled' = IF written /\ \/ caller[c].sinks = "worker" /\ SpoolOn
                                  \/ caller[c].sinks = "fallback"
                    THEN Once(spooled, caller[c].hand) ELSE spooled
    /\ caller' = [caller EXCEPT ![c].pc = IF caller[c].kind = "shutdown" THEN "stop"
                                          ELSE "returned",
                                ![c].hand = {}]
    /\ UNCHANGED <<made, buffers, queue, blobs, uri, worker, life, traced, offered,
                   accepted, uploads, early, losses>>

\* Faulty: stops the worker and leaves its supervisor in the global.
CallStopKeeping(c) ==
    /\ caller[c].pc = "stop"
    /\ stopping' = TRUE
    /\ caller' = [caller EXCEPT ![c].pc = IF supervised THEN "join" ELSE "returned"]
    /\ UNCHANGED <<made, buffers, queue, blobs, uri, worker, supervised, deaths, outputs,
                   uploads, early, losses>>

\* stop_flush_thread; the join that follows may time out.
CallStop(c) ==
    /\ caller[c].pc = "stop"
    /\ supervised' = FALSE
    /\ stopping' = TRUE
    /\ caller' = [caller EXCEPT ![c].pc = IF supervised THEN "join" ELSE "returned"]
    /\ UNCHANGED <<made, buffers, queue, blobs, uri, worker, deaths, outputs, uploads,
                   early, losses>>

CallJoin(c) ==
    /\ caller[c].pc = "join"
    /\ \E timely \in BOOLEAN :
         /\ timely => worker.pc = "exited"
         /\ caller' = [caller EXCEPT ![c].pc = "returned", ![c].timely = timely]
    /\ UNCHANGED <<made, buffers, queue, blobs, uri, worker, life, outputs, uploads,
                   early, losses>>

-------------------------------------------------------------------------------

WorkerStep == /\ \/ TickSpans \/ TickSnaps \/ TickBlobs \/ UploadFails \/ UploadSucceeds
                 \/ ApplyUris \/ TickTrace \/ TickSink \/ TickSend \/ WorkerExits
              /\ UNCHANGED setup

CallerStep(c) == /\ \/ CallSpans(c) \/ CallSnaps(c) \/ CallTrace(c) \/ CallSink(c)
                    \/ CallStop(c) \/ CallJoin(c)
                 /\ UNCHANGED setup

Produce == /\ \/ \E s \in Spans : CloseSpan(s)
              \/ \E s \in setup.snaps : CaptureBlob(s) \/ CaptureRecord(s)
           /\ UNCHANGED setup

Next == \/ Produce \/ WorkerStep
        \/ WorkerDies /\ UNCHANGED setup
        \/ \E c \in setup.callers : CallBegin(c) /\ UNCHANGED setup
        \/ \E c \in setup.callers : CallerStep(c)

Spec == Init /\ [][Next]_vars

\* The worker's interval runs out, its transport calls have timeouts, and a call
\* that was begun goes on.
FairSpec == /\ Spec
            /\ WF_vars(WorkerStep)
            /\ \A c \in Callers : WF_vars(CallerStep(c))

-------------------------------------------------------------------------------
(* Properties *)

QueueItems == [snap : Snaps, attempts : 0..MaxAttempts]

\* The variables hold what the attributes and locals of flush.py hold; the queue
\* and the buffer respect their caps.
TypeOK ==
    /\ made \subseteq Records /\ spanBuf \subseteq Spans
    /\ snapBuf \in Seq(Snaps) /\ Len(snapBuf) <= SnapCap
    /\ blobQ \in Seq(QueueItems) /\ Len(blobQ) <= BlobCap
    /\ snapDrops \in Nat /\ blobDrops \in Nat
    /\ blobs \subseteq Snaps
    /\ uri \in [Snaps -> {"local", "remote"}]
    /\ worker.pc \in {"idle", "snaps", "blobs", "upload", "trace", "sink", "send",
                      "exited"}
    /\ worker.hand \subseteq Records /\ worker.pending \in Seq(QueueItems)
    /\ worker.uris \subseteq Snaps /\ worker.transport \in BOOLEAN
    /\ supervised \in BOOLEAN /\ stopping \in BOOLEAN /\ deaths \in Nat
    /\ caller \in [Callers -> [pc : {"away", "spans", "snaps", "trace", "sink", "stop",
                                     "join", "returned"},
                               kind : {"flush", "trace", "shutdown"},
                               hand : SUBSET Records,
                               sinks : {"worker", "fallback", "none"},
                               before : SUBSET Records, timely : BOOLEAN]]
    /\ traced \in [Records -> Nat] /\ spooled \in [Records -> Nat]
    /\ offered \in [Records -> Nat] /\ accepted \subseteq Records
    /\ tries \in [Snaps -> Nat] /\ uploaded \subseteq Snaps
    /\ early \subseteq Snaps /\ lostBlobs \subseteq Snaps /\ gone \subseteq Records

Held(r) == r \in worker.hand \/ \E c \in Callers : r \in caller[c].hand

\* However ticks and flushes interleave, a record is in one batch: it reaches the
\* trace buffer, the spool and the transport at most once each.
InOneBatch ==
    \A r \in Records : traced[r] <= 1 /\ spooled[r] <= 1 /\ offered[r] <= 1

\* A record that was handed to the pipeline is still buffered, is in the hand of
\* a flusher or has reached the trace buffer.  It is lost only with a worker that
\* died or at the cap of the snapshot buffer, which counts it.
NothingVanishes ==
    Cardinality({r \in made : /\ r \notin spanBuf /\ r \notin Snapped
                              /\ ~ Held(r) /\ traced[r] = 0 /\ r \notin gone})
       = snapDrops

\* When a tick ends, what it drained is in the trace buffer and, if the worker has
\* a transport, was passed to it, whatever the sinks did: "a sink crash later in
\* the loop can't make ci.trace() lose data".
TickDelivers ==
    [][worker.hand # {} /\ worker'.hand = {} /\ deaths' = deaths =>
         \A r \in worker.hand : /\ traced[r] > 0
                                /\ worker.transport => offered'[r] > 0]_vars

\* A blob is never uploaded twice, is tried at most MAX_BLOB_ATTEMPTS times, and
\* until then it is queued, in the hand of the worker, uploaded or accounted for:
\* dropped at the cap, discarded without a transport, or lost with a worker.  A
\* record points at remote storage only if its blob is there.
Pending(s) == \/ \E i \in DOMAIN blobQ : blobQ[i].snap = s
              \/ \E i \in DOMAIN worker.pending : worker.pending[i].snap = s
BlobAccounted ==
    \A s \in Snaps :
        /\ uri[s] = "remote" => s \in uploaded
        /\ tries[s] <= MaxAttempts
        /\ s \in uploaded => ~ Pending(s)
        /\ s \in blobs /\ ~ Pending(s) =>
              \/ s \in uploaded
              \/ tries[s] = MaxAttempts
              \/ blobDrops > 0 \/ s \in lostBlobs \/ ~ worker.transport

\* When the shutdown that stopped the worker returns, and its join did not time
\* out, every record that was closed before it began has reached the trace buffer,
\* was lost with a worker, or is in the hand of another flush: also the records of
\* a tick that was in progress.  A second shutdown returns without waiting.
ShutdownFlushes ==
    \A c \in Callers :
        caller[c].kind = "shutdown" /\ caller[c].pc = "returned" /\ caller[c].timely
            => \A r \in caller[c].before :
                  \/ traced[r] > 0 \/ r \in gone
                  \/ r \in Snaps /\ snapDrops > 0
                  \/ \E d \in Callers \ {c} : r \in caller[d].hand

\* As long as the supervisor runs, a closed span does not stay in its buffer.
EverySpanLeaves ==
    \A s \in Spans : s \in spanBuf ~> (s \notin spanBuf \/ ~ supervised)

\* A closed span is drained by some tick or call, and a tick that has drained it
\* delivers it to all who should get it.
SpansDelivered == EverySpanLeaves /\ TickDelivers

\* What the capture's comment says, "Enqueue after records are upgraded so the
\* flush thread has a populated local_uri to match against when it swaps in the
\* remote URI post-upload": a record whose blob is uploaded does not reach the
\* transport under its local URI.  It does not hold of the code, as the README
\* explains, and no run claims it.
UploadedIsSwapped == uploaded \cap early = {}
================================================================================
