------------------------- MODULE FlushPipeline_proofs -------------------------
(***************************************************************************)
(* Proofs about FlushPipeline, for any spans, snapshots, callers and caps, *)
(* any number of attempts, and workers that die as often as a setup says.  *)
(***************************************************************************)
EXTENDS FlushPipeline, FiniteSetTheorems, SequenceTheorems, TLAPS

WorkerPcs == {"idle", "snaps", "blobs", "upload", "trace", "sink", "send", "exited"}
CallerPcs == {"away", "spans", "snaps", "trace", "sink", "stop", "join", "returned"}

Ticks == [pc : WorkerPcs, hand : SUBSET Records, pending : Seq(QueueItems),
          uris : SUBSET Snaps, transport : BOOLEAN]
CallRecords == [pc : CallerPcs, kind : {"flush", "trace", "shutdown"},
                hand : SUBSET Records, sinks : {"worker", "fallback", "none"},
                before : SUBSET Records, timely : BOOLEAN]

\* The part of TypeOK that the argument needs, with the shape of a tick, and that only
\* finitely many records were made.
FlushType ==
    /\ setup \in Circumstances
    /\ made \in SUBSET Records /\ IsFiniteSet(made)
    /\ spanBuf \in SUBSET Spans /\ snapBuf \in Seq(Snaps) /\ snapDrops \in Nat
    /\ blobQ \in Seq(QueueItems) /\ blobDrops \in Nat /\ blobs \in SUBSET Snaps
    /\ uri \in [Snaps -> {"local", "remote"}]
    /\ worker \in Ticks /\ deaths \in Nat
    /\ supervised \in BOOLEAN /\ stopping \in BOOLEAN
    /\ caller \in [Callers -> CallRecords]
    /\ traced \in [Records -> Nat] /\ spooled \in [Records -> Nat]
    /\ offered \in [Records -> Nat]
    /\ tries \in [Snaps -> Nat] /\ uploaded \in SUBSET Snaps
    /\ gone \in SUBSET Records /\ lostBlobs \in SUBSET Snaps

-------------------------------------------------------------------------------
(* Lemmas about the operators *)

\* The frame of a call when it goes on.
LEMMA CallGoesOn ==
    ASSUME NEW k \in CallRecords, NEW pc \in CallerPcs, NEW hand \in SUBSET Records,
           NEW timely \in BOOLEAN
    PROVE  /\ [k EXCEPT !.pc = pc, !.hand = hand] \in CallRecords
           /\ [k EXCEPT !.pc = pc, !.timely = timely] \in CallRecords
  BY DEF CallRecords

\* What is in the snapshot buffer are snapshots, and an append adds one.
LEMMA SnappedAppend ==
    ASSUME snapBuf \in Seq(Snaps)
    PROVE  /\ Snapped \in SUBSET Snaps
           /\ snapBuf' = <<>> => Snapped' = {}
           /\ \A s \in Snaps : snapBuf' = Append(snapBuf, s) => Snapped' = Snapped \cup {s}
           /\ snapBuf' = snapBuf => Snapped' = Snapped
<1>1. Snapped \in SUBSET Snaps
  BY DEF Snapped
<1>2. ASSUME NEW s \in Snaps, snapBuf' = Append(snapBuf, s)
      PROVE  Snapped' = Snapped \cup {s}
  <2>1. /\ Len(snapBuf) \in Nat /\ Len(snapBuf') = Len(snapBuf) + 1
        /\ DOMAIN snapBuf = 1..Len(snapBuf) /\ DOMAIN snapBuf' = 1..(Len(snapBuf) + 1)
        /\ \A i \in 1..Len(snapBuf) : snapBuf'[i] = snapBuf[i]
        /\ snapBuf'[Len(snapBuf) + 1] = s
    BY <1>2, AppendProperties
  <2> QED
    BY <2>1 DEF Snapped
<1>3. snapBuf' = <<>> => Snapped' = {}
  BY DEF Snapped
<1>4. snapBuf' = snapBuf => Snapped' = Snapped
  BY DEF Snapped
<1> QED
  BY <1>1, <1>2, <1>3, <1>4

\* A destination counts each record of a batch once.
LEMMA OnceCounts ==
    ASSUME NEW count \in [Records -> Nat], NEW set
    PROVE  /\ Once(count, set) \in [Records -> Nat]
           /\ \A r \in Records :
                Once(count, set)[r] = IF r \in set THEN count[r] + 1 ELSE count[r]
  BY DEF Once

\* What a refused or accepted blob does to the queue.
LEMMA EnqueueKinds ==
    ASSUME FlushType, NEW item \in QueueItems, Enqueue(item)
    PROVE  /\ blobQ' \in Seq(QueueItems) /\ blobDrops' \in Nat
           /\ \/ blobDrops' = blobDrops + 1 /\ blobQ' = blobQ
              \/ blobDrops' = blobDrops /\ blobQ' = Append(blobQ, item)
<1>1. Append(blobQ, item) \in Seq(QueueItems)
  BY AppendProperties DEF FlushType
<1>2. blobQ \in Seq(QueueItems) /\ blobDrops \in Nat
  BY DEF FlushType
<1>3. \/ blobDrops' = blobDrops + 1 /\ blobQ' = blobQ
      \/ blobDrops' = blobDrops /\ blobQ' = Append(blobQ, item)
  BY DEF Enqueue
<1> QED
  BY <1>1, <1>2, <1>3

-------------------------------------------------------------------------------
(* The shape of the state *)

LEMMA FlushTypeInit == Init => FlushType
<1> SUFFICES ASSUME Init PROVE FlushType
  OBVIOUS
<1>1. setup \in Circumstances /\ setup.transport \in BOOLEAN
  BY FlushAssumption DEF Init, Circumstances
<1>2. worker \in Ticks
  BY <1>1 DEF Init, NoTick, Ticks, WorkerPcs
<1>3. NoCall \in CallRecords
  BY DEF NoCall, CallRecords, CallerPcs
<1>4. IsFiniteSet(made)
  BY FS_EmptySet DEF Init
<1>5. snapBuf \in Seq(Snaps) /\ blobQ \in Seq(QueueItems)
  BY EmptySeq DEF Init
<1>6. caller \in [Callers -> CallRecords]
  BY <1>3 DEF Init
<1> QED
  BY <1>1, <1>2, <1>4, <1>5, <1>6 DEF Init, FlushType

LEMMA ProduceType == ASSUME FlushType, Produce PROVE FlushType'
<1>1. ASSUME NEW s \in Spans, CloseSpan(s) PROVE FlushType'
  BY <1>1, FS_AddElement DEF CloseSpan, FlushType, Records, queue, life, outputs, uploads, losses, Produce
<1>2. ASSUME NEW s \in setup.snaps, CaptureBlob(s) PROVE FlushType'
  <2>1. s \in Snaps /\ [snap |-> s, attempts |-> 0] \in QueueItems
    BY FlushAssumption DEF FlushType, Circumstances, QueueItems
  <2>2. blobQ' \in Seq(QueueItems) /\ blobDrops' \in Nat
    BY <1>2, <2>1, EnqueueKinds DEF CaptureBlob
  <2> QED
    BY <1>2, <2>1, <2>2 DEF CaptureBlob, FlushType, buffers, life, outputs, uploads, losses, Produce
<1>3. ASSUME NEW s \in setup.snaps, CaptureRecord(s) PROVE FlushType'
  <2>1. s \in Snaps
    BY DEF FlushType, Circumstances
  <2>2. snapBuf' \in Seq(Snaps) /\ snapDrops' \in Nat
    <3>1. snapBuf \in Seq(Snaps) /\ snapDrops \in Nat
      BY DEF FlushType
    <3>2. Append(snapBuf, s) \in Seq(Snaps)
      BY <2>1, <3>1, AppendProperties
    <3>3. \/ snapDrops' = snapDrops + 1 /\ snapBuf' = snapBuf
          \/ snapDrops' = snapDrops /\ snapBuf' = Append(snapBuf, s)
      BY <1>3 DEF CaptureRecord
    <3> QED
      BY <3>1, <3>2, <3>3
  <2>3. made' \in SUBSET Records /\ IsFiniteSet(made')
    BY <1>3, <2>1, FS_AddElement DEF CaptureRecord, FlushType, Records
  <2> QED
    BY <1>3, <2>1, <2>2, <2>3 DEF CaptureRecord, FlushType, queue, life, outputs, uploads, losses, Produce
<1> QED
  BY <1>1, <1>2, <1>3 DEF Produce

LEMMA TickShape ==
    ASSUME FlushType
    PROVE  /\ worker = [pc |-> worker.pc, hand |-> worker.hand, pending |-> worker.pending,
                        uris |-> worker.uris, transport |-> worker.transport]
           /\ worker.pc \in WorkerPcs /\ worker.hand \in SUBSET Records
           /\ worker.pending \in Seq(QueueItems) /\ worker.uris \in SUBSET Snaps
           /\ worker.transport \in BOOLEAN
  BY DEF FlushType, Ticks

LEMMA TickType ==
    ASSUME FlushType, WorkerStep
    PROVE  FlushType'
<1> USE TickShape
<1>1. CASE TickSpans
  <2>1. worker' \in Ticks
    BY <1>1 DEF TickSpans, FlushType, Ticks, WorkerPcs, Records
  <2> QED
    BY <1>1, <2>1 DEF TickSpans, WorkerStep, FlushType, queue, life, outputs, uploads, losses
<1>2. CASE TickSnaps
  <2>1. worker' \in Ticks
    BY <1>2, SnappedAppend DEF TickSnaps, FlushType, Ticks, WorkerPcs, Records
  <2>2. snapBuf' \in Seq(Snaps)
    BY <1>2, EmptySeq DEF TickSnaps
  <2> QED
    BY <1>2, <2>1, <2>2 DEF TickSnaps, WorkerStep, FlushType, queue, life, outputs, uploads, losses
<1>3. CASE TickBlobs
  <2>1. <<>> \in Seq(QueueItems)
    BY EmptySeq
  <2>2. worker' \in Ticks
    BY <1>3, <2>1 DEF TickBlobs, FlushType, Ticks, WorkerPcs
  <2> QED
    BY <1>3, <2>1, <2>2 DEF TickBlobs, WorkerStep, FlushType, buffers, life, outputs, uploads, losses
<1>4. CASE UploadFails
  <2> DEFINE item == Head(worker.pending)
  <2>1. item \in QueueItems /\ Tail(worker.pending) \in Seq(QueueItems)
    BY <1>4, HeadTailProperties DEF UploadFails
  <2>2. worker' \in Ticks
    BY <1>4, <2>1 DEF UploadFails, FlushType, Ticks, WorkerPcs
  <2>3. blobQ' \in Seq(QueueItems) /\ blobDrops' \in Nat
    <3>1. CASE item.attempts + 1 >= MaxAttempts
      BY <1>4, <3>1 DEF UploadFails, HandleUploadFailure, queue, FlushType
    <3>2. CASE ~ (item.attempts + 1 >= MaxAttempts)
      <4>1. [item EXCEPT !.attempts = @ + 1] \in QueueItems
        <5>1. /\ item = [snap |-> item.snap, attempts |-> item.attempts]
              /\ item.snap \in Snaps /\ item.attempts \in 0..MaxAttempts
          BY <2>1 DEF QueueItems
        <5>2. item.attempts + 1 \in 0..MaxAttempts
          BY <3>2, <5>1, FlushAssumption
        <5>3. [item EXCEPT !.attempts = @ + 1]
                 = [snap |-> item.snap, attempts |-> item.attempts + 1]
          BY <5>1
        <5> QED
          BY <5>1, <5>2, <5>3 DEF QueueItems
      <4>2. Enqueue([item EXCEPT !.attempts = @ + 1])
        BY <1>4, <3>2 DEF UploadFails, HandleUploadFailure
      <4> QED
        BY <4>1, <4>2, EnqueueKinds
    <3> QED
      BY <3>1, <3>2
  <2>4. tries' \in [Snaps -> Nat]
    <3>1. item.snap \in Snaps
      BY <2>1 DEF QueueItems
    <3>2. tries' = [tries EXCEPT ![item.snap] = @ + 1]
      BY <1>4 DEF UploadFails
    <3> QED
      BY <3>1, <3>2 DEF FlushType
  <2> QED
    BY <1>4, <2>2, <2>3, <2>4 DEF UploadFails, WorkerStep, FlushType, buffers, life, outputs, losses
<1>5. CASE UploadSucceeds
  <2>1. Head(worker.pending).snap \in Snaps /\ Tail(worker.pending) \in Seq(QueueItems)
    <3>1. Head(worker.pending) \in QueueItems /\ Tail(worker.pending) \in Seq(QueueItems)
      BY <1>5, HeadTailProperties DEF UploadSucceeds
    <3> QED
      BY <3>1 DEF QueueItems
  <2>2. worker' \in Ticks
    BY <1>5, <2>1 DEF UploadSucceeds, FlushType, Ticks, WorkerPcs
  <2>3. tries' \in [Snaps -> Nat] /\ uploaded' \in SUBSET Snaps
    BY <1>5, <2>1 DEF UploadSucceeds, FlushType
  <2> QED
    BY <1>5, <2>2, <2>3 DEF UploadSucceeds, WorkerStep, FlushType, buffers, queue, life, outputs, losses
<1>6. CASE ApplyUris
  <2>1. worker' \in Ticks
    BY <1>6 DEF ApplyUris, FlushType, Ticks, WorkerPcs
  <2> QED
    BY <1>6, <2>1 DEF ApplyUris, WorkerStep, FlushType, buffers, queue, life, outputs, uploads, losses
<1>7. CASE TickTrace
  <2>1. worker' \in Ticks
    BY <1>7 DEF TickTrace, FlushType, Ticks, WorkerPcs
  <2>2. traced' \in [Records -> Nat]
    <3>1. traced \in [Records -> Nat]
      BY DEF FlushType
    <3>2. traced' = Once(traced, worker.hand)
      BY <1>7 DEF TickTrace
    <3> QED
      BY <3>1, <3>2, OnceCounts
  <2> QED
    BY <1>7, <2>1, <2>2 DEF TickTrace, WorkerStep, FlushType, buffers, queue, life, uploads, losses
<1>8. CASE TickSink
  <2>1. worker' \in Ticks
    BY <1>8 DEF TickSink, FlushType, Ticks, WorkerPcs
  <2>2. spooled' \in [Records -> Nat]
    <3>1. spooled \in [Records -> Nat]
      BY DEF FlushType
    <3>2. spooled' = Once(spooled, worker.hand) \/ spooled' = spooled
      BY <1>8 DEF TickSink
    <3> QED
      BY <3>1, <3>2, OnceCounts
  <2> QED
    BY <1>8, <2>1, <2>2 DEF TickSink, WorkerStep, FlushType, buffers, queue, life, uploads, losses
<1>9. CASE TickSend
  <2>1. worker' \in Ticks
    BY <1>9 DEF TickSend, FlushType, Ticks, WorkerPcs
  <2>2. offered' \in [Records -> Nat]
    <3>1. offered \in [Records -> Nat]
      BY DEF FlushType
    <3>2. offered' = Once(offered, worker.hand) \/ offered' = offered
      BY <1>9 DEF TickSend
    <3> QED
      BY <3>1, <3>2, OnceCounts
  <2> QED
    BY <1>9, <2>1, <2>2 DEF TickSend, WorkerStep, FlushType, buffers, queue, life, uploads, losses
<1>10. CASE WorkerExits
  <2>1. worker' \in Ticks
    BY <1>10 DEF WorkerExits, FlushType, Ticks, WorkerPcs
  <2> QED
    BY <1>10, <2>1 DEF WorkerExits, WorkerStep, FlushType, buffers, queue, life, outputs, uploads, losses
<1> QED
  BY <1>1, <1>2, <1>3, <1>4, <1>5, <1>6, <1>7, <1>8, <1>9, <1>10 DEF WorkerStep

LEMMA DeathType ==
    ASSUME FlushType, WorkerDies, UNCHANGED setup
    PROVE  FlushType'
<1>1. setup.transport \in BOOLEAN
  BY DEF FlushType, Circumstances
<1>2. worker' \in Ticks
  BY <1>1, TickShape, EmptySeq DEF WorkerDies, NoTick, Ticks, WorkerPcs
<1>3. lostBlobs' \in SUBSET Snaps /\ gone' \in SUBSET Records
  <2>1. \A i \in DOMAIN worker.pending : worker.pending[i].snap \in Snaps
    <3> DEFINE q == worker.pending
    <3>1. q \in Seq(QueueItems)
      BY TickShape
    <3> HIDE DEF q
    <3>2. \A i \in DOMAIN q : q[i] \in QueueItems
      BY <3>1, ElementOfSeq
    <3>3. \A i \in DOMAIN q : q[i].snap \in Snaps
      BY <3>2 DEF QueueItems
    <3> QED
      BY <3>3 DEF q
  <2> QED
    BY <2>1, TickShape DEF WorkerDies, FlushType
<1> QED
  BY <1>2, <1>3 DEF WorkerDies, FlushType, buffers, queue, life, outputs, uploads

LEMMA CallShape ==
    ASSUME FlushType, NEW c \in Callers
    PROVE  /\ caller[c] = [pc |-> caller[c].pc, kind |-> caller[c].kind,
                           hand |-> caller[c].hand, sinks |-> caller[c].sinks,
                           before |-> caller[c].before, timely |-> caller[c].timely]
           /\ caller[c].pc \in CallerPcs /\ caller[c].kind \in {"flush", "trace", "shutdown"}
           /\ caller[c].hand \in SUBSET Records
           /\ caller[c].sinks \in {"worker", "fallback", "none"}
           /\ caller[c].before \in SUBSET Records /\ caller[c].timely \in BOOLEAN
<1>1. caller[c] \in CallRecords
  BY DEF FlushType
<1> QED
  BY <1>1 DEF CallRecords

LEMMA CallType ==
    ASSUME FlushType, NEW c \in setup.callers, (CallBegin(c) /\ UNCHANGED setup) \/ CallerStep(c)
    PROVE  FlushType'
<1> USE CallShape
<1>c. c \in Callers /\ caller \in [Callers -> CallRecords]
  BY DEF FlushType, Circumstances
<1>1. CASE CallBegin(c) /\ UNCHANGED setup
  <2>1. PICK k \in Calls :
           caller' = [caller EXCEPT ![c] =
             [NoCall EXCEPT !.pc = "spans", !.kind = k, !.before = made,
                            !.sinks = IF supervised THEN "worker"
                                      ELSE IF k = "trace" THEN "none" ELSE "fallback"]]
    BY <1>1 DEF CallBegin
  <2>2. k \in {"flush", "trace", "shutdown"} /\ made \in SUBSET Records
    BY FlushAssumption DEF FlushType
  <2>3. caller' \in [Callers -> CallRecords]
    BY <1>c, <2>1, <2>2 DEF NoCall, CallRecords, CallerPcs
  <2> QED
    BY <1>1, <2>3 DEF CallBegin, FlushType, buffers, queue, life, outputs, uploads, losses
<1>2. CASE CallSpans(c) /\ UNCHANGED setup
  <2>1. spanBuf \in SUBSET Records
    BY DEF FlushType, Records
  <2>2. caller' \in [Callers -> CallRecords]
    <3>1. caller' = [caller EXCEPT ![c] = [caller[c] EXCEPT !.pc = "snaps", !.hand = spanBuf]]
      BY <1>2 DEF CallSpans
    <3>2. [caller[c] EXCEPT !.pc = "snaps", !.hand = spanBuf] \in CallRecords
      BY <1>c, <2>1, CallGoesOn DEF CallerPcs
    <3> QED
      BY <1>c, <3>1, <3>2
  <2> QED
    BY <1>2, <2>2 DEF CallSpans, FlushType, queue, life, outputs, uploads, losses
<1>3. CASE CallSnaps(c) /\ UNCHANGED setup
  <2>1. Snapped \in SUBSET Records
    BY SnappedAppend DEF FlushType, Records
  <2>2. caller' \in [Callers -> CallRecords]
    <3>1. caller' = [caller EXCEPT ![c] =
                       [caller[c] EXCEPT !.pc = "trace", !.hand = caller[c].hand \cup Snapped]]
      BY <1>3 DEF CallSnaps
    <3>2. caller[c].hand \cup Snapped \in SUBSET Records
      BY <1>c, <2>1
    <3>3. [caller[c] EXCEPT !.pc = "trace", !.hand = caller[c].hand \cup Snapped] \in CallRecords
      BY <1>c, <3>2, CallGoesOn DEF CallerPcs
    <3> QED
      BY <1>c, <3>1, <3>3
  <2>3. snapBuf' \in Seq(Snaps)
    BY <1>3, EmptySeq DEF CallSnaps
  <2> QED
    BY <1>3, <2>2, <2>3 DEF CallSnaps, FlushType, queue, life, outputs, uploads, losses
<1>4. CASE CallTrace(c) /\ UNCHANGED setup
  <2>1. caller' \in [Callers -> CallRecords]
    BY <1>4, <1>c DEF CallTrace, CallRecords, CallerPcs
  <2>2. traced' \in [Records -> Nat]
    <3>1. traced \in [Records -> Nat]
      BY DEF FlushType
    <3>2. traced' = Once(traced, caller[c].hand)
      BY <1>4 DEF CallTrace
    <3> QED
      BY <3>1, <3>2, OnceCounts
  <2> QED
    BY <1>4, <2>1, <2>2 DEF CallTrace, FlushType, buffers, queue, life, uploads, losses
<1>5. CASE CallSink(c) /\ UNCHANGED setup
  <2>1. caller' \in [Callers -> CallRecords]
    <3> DEFINE pc == IF caller[c].kind = "shutdown" THEN "stop" ELSE "returned"
    <3>1. caller' = [caller EXCEPT ![c] = [caller[c] EXCEPT !.pc = pc, !.hand = {}]]
      BY <1>5 DEF CallSink
    <3>2. [caller[c] EXCEPT !.pc = pc, !.hand = {}] \in CallRecords
      BY <1>c, CallGoesOn DEF CallerPcs
    <3> QED
      BY <1>c, <3>1, <3>2
  <2>2. spooled' \in [Records -> Nat]
    <3>1. spooled \in [Records -> Nat]
      BY DEF FlushType
    <3>2. spooled' = Once(spooled, caller[c].hand) \/ spooled' = spooled
      BY <1>5 DEF CallSink
    <3> QED
      BY <3>1, <3>2, OnceCounts
  <2> QED
    BY <1>5, <2>1, <2>2 DEF CallSink, FlushType, buffers, queue, life, uploads, losses
<1>6. CASE CallStop(c) /\ UNCHANGED setup
  <2>1. caller' \in [Callers -> CallRecords]
    BY <1>6, <1>c DEF CallStop, CallRecords, CallerPcs
  <2> QED
    BY <1>6, <2>1 DEF CallStop, FlushType, buffers, queue, outputs, uploads, losses
<1>7. CASE CallJoin(c) /\ UNCHANGED setup
  <2>1. caller' \in [Callers -> CallRecords]
    <3>1. PICK timely \in BOOLEAN :
             caller' = [caller EXCEPT ![c] = [caller[c] EXCEPT !.pc = "returned", !.timely = timely]]
      BY <1>7 DEF CallJoin
    <3>2. [caller[c] EXCEPT !.pc = "returned", !.timely = timely] \in CallRecords
      BY <1>c, CallGoesOn DEF CallerPcs
    <3> QED
      BY <1>c, <3>1, <3>2
  <2> QED
    BY <1>7, <2>1 DEF CallJoin, FlushType, buffers, queue, life, outputs, uploads, losses
<1> QED
  BY <1>1, <1>2, <1>3, <1>4, <1>5, <1>6, <1>7 DEF CallerStep

LEMMA FlushTypeStep == FlushType /\ [Next]_vars => FlushType'
<1> SUFFICES ASSUME FlushType, [Next]_vars PROVE FlushType'
  OBVIOUS
<1>1. CASE UNCHANGED vars
  BY <1>1 DEF vars, FlushType
<1> QED
  BY <1>1, ProduceType, TickType, DeathType, CallType DEF Next

-------------------------------------------------------------------------------
(* The way of a record *)

\* A record is in one place at a time: buffered, in the hand of one flusher, or out.
\* Each destination has seen it if and only if its flusher is past that step.
RecordOk(r) ==
    /\ r \in spanBuf \cup Snapped =>
          /\ r \in made /\ traced[r] = 0 /\ spooled[r] = 0 /\ offered[r] = 0
          /\ r \notin worker.hand /\ \A c \in Callers : r \notin caller[c].hand
    /\ r \in worker.hand =>
          /\ r \in made /\ \A c \in Callers : r \notin caller[c].hand
          /\ worker.pc \notin {"idle", "exited"}
          /\ traced[r] = IF worker.pc \in {"sink", "send"} THEN 1 ELSE 0
          /\ worker.pc # "send" => spooled[r] = 0
          /\ offered[r] = 0
    /\ \A c \in Callers : r \in caller[c].hand =>
          /\ r \in made /\ \A d \in Callers \ {c} : r \notin caller[d].hand
          /\ caller[c].pc \in {"snaps", "trace", "sink"}
          /\ traced[r] = IF caller[c].pc = "sink" THEN 1 ELSE 0
          /\ spooled[r] = 0 /\ offered[r] = 0
    /\ r \notin made =>
          r \notin gone /\ traced[r] = 0 /\ spooled[r] = 0 /\ offered[r] = 0
    /\ traced[r] <= 1 /\ spooled[r] <= 1 /\ offered[r] <= 1

\* A record that was made and is nowhere, without having gone down with a worker.
Lost(r) == /\ r \in made /\ r \notin spanBuf /\ r \notin Snapped
           /\ ~ Held(r) /\ traced[r] = 0 /\ r \notin gone

\* Only snapshots get lost, and the buffer that refused them counted them.
LossOk == /\ {r \in made : Lost(r)} \subseteq Snaps
          /\ Cardinality({r \in made : Lost(r)}) = snapDrops

\* What a call found made is out of the buffers once it has drained them, and a join
\* that was not cut short found the worker gone for good.
CallerOk(c) ==
    /\ caller[c].before \subseteq made
    /\ caller[c].pc \notin {"away", "spans"} => caller[c].before \cap spanBuf = {}
    /\ caller[c].pc \notin {"away", "spans", "snaps"} => caller[c].before \cap Snapped = {}
    /\ caller[c].timely => worker.pc = "exited" /\ caller[c].pc = "returned"

FlowInv == /\ FlushType /\ LossOk
           /\ \A r \in Records : RecordOk(r)
           /\ \A c \in Callers : CallerOk(c)

\* A step after which the same records are lost keeps the count right.
LEMMA LossStays ==
    ASSUME LossOk, snapDrops' = snapDrops,
           made \in SUBSET Records, made' \in SUBSET Records,
           \A r \in Records : Lost(r)' <=> Lost(r)
    PROVE  LossOk'
<1>1. {r \in made' : Lost(r)'} = {r \in made : Lost(r)}
  BY DEF Lost
<1> QED
  BY <1>1 DEF LossOk

LEMMA TickSpansFlow ==
    ASSUME FlowInv, TickSpans
    PROVE  LossOk' /\ (\A r \in Records : RecordOk(r)') /\ (\A c \in Callers : CallerOk(c)')
<1>1. /\ worker.pc = "idle" /\ worker'.pc = "snaps" /\ worker'.hand = spanBuf
      /\ spanBuf' = {} /\ Snapped' = Snapped
      /\ UNCHANGED <<made, snapDrops, caller, traced, spooled, offered, gone>>
  BY TickShape DEF TickSpans, FlowInv, queue, outputs, losses, Snapped
<1>2. /\ made \in SUBSET Records /\ spanBuf \in SUBSET Spans /\ Snapped \in SUBSET Snaps
      /\ Spans \cap Snaps = {} /\ worker.hand \in SUBSET Records
  BY SnappedAppend, FlushAssumption, TickShape DEF FlowInv, FlushType
<1>3. \A r \in Records : RecordOk(r)'
  BY <1>1, <1>2 DEF FlowInv, RecordOk
<1>4. \A r \in Records : Lost(r)' <=> Lost(r)
  BY <1>1, <1>2 DEF FlowInv, RecordOk, Lost, Held
<1>5. \A c \in Callers : CallerOk(c)'
  BY <1>1, <1>2 DEF FlowInv, CallerOk
<1> QED
  BY <1>1, <1>2, <1>3, <1>4, <1>5, LossStays DEF FlowInv

LEMMA TickSnapsFlow ==
    ASSUME FlowInv, TickSnaps
    PROVE  LossOk' /\ (\A r \in Records : RecordOk(r)') /\ (\A c \in Callers : CallerOk(c)')
<1>1. /\ worker.pc = "snaps" /\ worker'.pc = "blobs"
      /\ worker'.hand = worker.hand \cup Snapped
      /\ spanBuf' = spanBuf /\ Snapped' = {}
      /\ UNCHANGED <<made, snapDrops, caller, traced, spooled, offered, gone>>
  BY TickShape, SnappedAppend DEF TickSnaps, FlowInv, FlushType, Snapped, queue, outputs, losses
<1>2. /\ made \in SUBSET Records /\ spanBuf \in SUBSET Spans /\ Snapped \in SUBSET Snaps
      /\ Spans \cap Snaps = {} /\ worker.hand \in SUBSET Records
      /\ traced \in [Records -> Nat] /\ spooled \in [Records -> Nat]
      /\ offered \in [Records -> Nat]
  BY SnappedAppend, FlushAssumption, TickShape DEF FlowInv, FlushType
<1>3. \A r \in Records : RecordOk(r)'
  BY <1>1, <1>2 DEF FlowInv, RecordOk
<1>4. \A r \in Records : Lost(r)' <=> Lost(r)
  BY <1>1, <1>2 DEF FlowInv, RecordOk, Lost, Held
<1>5. \A c \in Callers : CallerOk(c)'
  BY <1>1, <1>2 DEF FlowInv, CallerOk
<1> QED
  BY <1>1, <1>2, <1>3, <1>4, <1>5, LossStays DEF FlowInv

LEMMA TickBlobsFlow ==
    ASSUME FlowInv, TickBlobs
    PROVE  LossOk' /\ (\A r \in Records : RecordOk(r)') /\ (\A c \in Callers : CallerOk(c)')
<1>1. /\ worker.pc = "blobs" /\ worker'.pc = "upload"
      /\ worker'.hand = worker.hand /\ spanBuf' = spanBuf /\ Snapped' = Snapped
      /\ UNCHANGED <<made, snapDrops, caller, traced, spooled, offered, gone>>
  BY TickShape, SnappedAppend DEF TickBlobs, FlowInv, FlushType, Snapped, buffers, outputs, losses
<1>2. /\ made \in SUBSET Records /\ spanBuf \in SUBSET Spans /\ Snapped \in SUBSET Snaps
      /\ Spans \cap Snaps = {} /\ worker.hand \in SUBSET Records
      /\ traced \in [Records -> Nat] /\ spooled \in [Records -> Nat]
      /\ offered \in [Records -> Nat]
  BY SnappedAppend, FlushAssumption, TickShape DEF FlowInv, FlushType
<1>3. \A r \in Records : RecordOk(r)'
  BY <1>1, <1>2 DEF FlowInv, RecordOk
<1>4. \A r \in Records : Lost(r)' <=> Lost(r)
  BY <1>1, <1>2 DEF FlowInv, RecordOk, Lost, Held
<1>5. \A c \in Callers : CallerOk(c)'
  BY <1>1, <1>2 DEF FlowInv, CallerOk
<1> QED
  BY <1>1, <1>2, <1>3, <1>4, <1>5, LossStays DEF FlowInv

LEMMA UploadFailsFlow ==
    ASSUME FlowInv, UploadFails
    PROVE  LossOk' /\ (\A r \in Records : RecordOk(r)') /\ (\A c \in Callers : CallerOk(c)')
<1>1. /\ worker.pc = "upload" /\ worker'.pc = "upload"
      /\ worker'.hand = worker.hand /\ spanBuf' = spanBuf /\ Snapped' = Snapped
      /\ UNCHANGED <<made, snapDrops, caller, traced, spooled, offered, gone>>
  BY TickShape, SnappedAppend DEF UploadFails, FlowInv, FlushType, Snapped, buffers, outputs, losses
<1>2. /\ made \in SUBSET Records /\ spanBuf \in SUBSET Spans /\ Snapped \in SUBSET Snaps
      /\ Spans \cap Snaps = {} /\ worker.hand \in SUBSET Records
      /\ traced \in [Records -> Nat] /\ spooled \in [Records -> Nat]
      /\ offered \in [Records -> Nat]
  BY SnappedAppend, FlushAssumption, TickShape DEF FlowInv, FlushType
<1>3. \A r \in Records : RecordOk(r)'
  BY <1>1, <1>2 DEF FlowInv, RecordOk
<1>4. \A r \in Records : Lost(r)' <=> Lost(r)
  BY <1>1, <1>2 DEF FlowInv, RecordOk, Lost, Held
<1>5. \A c \in Callers : CallerOk(c)'
  BY <1>1, <1>2 DEF FlowInv, CallerOk
<1> QED
  BY <1>1, <1>2, <1>3, <1>4, <1>5, LossStays DEF FlowInv

LEMMA UploadSucceedsFlow ==
    ASSUME FlowInv, UploadSucceeds
    PROVE  LossOk' /\ (\A r \in Records : RecordOk(r)') /\ (\A c \in Callers : CallerOk(c)')
<1>1. /\ worker.pc = "upload" /\ worker'.pc = "upload"
      /\ worker'.hand = worker.hand /\ spanBuf' = spanBuf /\ Snapped' = Snapped
      /\ UNCHANGED <<made, snapDrops, caller, traced, spooled, offered, gone>>
  BY TickShape, SnappedAppend DEF UploadSucceeds, FlowInv, FlushType, Snapped, buffers, outputs, losses
<1>2. /\ made \in SUBSET Records /\ spanBuf \in SUBSET Spans /\ Snapped \in SUBSET Snaps
      /\ Spans \cap Snaps = {} /\ worker.hand \in SUBSET Records
      /\ traced \in [Records -> Nat] /\ spooled \in [Records -> Nat]
      /\ offered \in [Records -> Nat]
  BY SnappedAppend, FlushAssumption, TickShape DEF FlowInv, FlushType
<1>3. \A r \in Records : RecordOk(r)'
  BY <1>1, <1>2 DEF FlowInv, RecordOk
<1>4. \A r \in Records : Lost(r)' <=> Lost(r)
  BY <1>1, <1>2 DEF FlowInv, RecordOk, Lost, Held
<1>5. \A c \in Callers : CallerOk(c)'
  BY <1>1, <1>2 DEF FlowInv, CallerOk
<1> QED
  BY <1>1, <1>2, <1>3, <1>4, <1>5, LossStays DEF FlowInv

LEMMA ApplyUrisFlow ==
    ASSUME FlowInv, ApplyUris
    PROVE  LossOk' /\ (\A r \in Records : RecordOk(r)') /\ (\A c \in Callers : CallerOk(c)')
<1>1. /\ worker.pc = "upload" /\ worker'.pc = IF worker.hand = {} THEN "idle" ELSE "trace"
      /\ worker'.hand = worker.hand /\ spanBuf' = spanBuf /\ Snapped' = Snapped
      /\ UNCHANGED <<made, snapDrops, caller, traced, spooled, offered, gone>>
  BY TickShape, SnappedAppend DEF ApplyUris, FlowInv, FlushType, Snapped, buffers, outputs, losses
<1>2. /\ made \in SUBSET Records /\ spanBuf \in SUBSET Spans /\ Snapped \in SUBSET Snaps
      /\ Spans \cap Snaps = {} /\ worker.hand \in SUBSET Records
      /\ traced \in [Records -> Nat] /\ spooled \in [Records -> Nat]
      /\ offered \in [Records -> Nat]
  BY SnappedAppend, FlushAssumption, TickShape DEF FlowInv, FlushType
<1>3. \A r \in Records : RecordOk(r)'
  BY <1>1, <1>2 DEF FlowInv, RecordOk
<1>4. \A r \in Records : Lost(r)' <=> Lost(r)
  BY <1>1, <1>2 DEF FlowInv, RecordOk, Lost, Held
<1>5. \A c \in Callers : CallerOk(c)'
  BY <1>1, <1>2 DEF FlowInv, CallerOk
<1> QED
  BY <1>1, <1>2, <1>3, <1>4, <1>5, LossStays DEF FlowInv

LEMMA TickTraceFlow ==
    ASSUME FlowInv, TickTrace
    PROVE  LossOk' /\ (\A r \in Records : RecordOk(r)') /\ (\A c \in Callers : CallerOk(c)')
<1>1. /\ worker.pc = "trace" /\ worker'.pc = "sink"
      /\ worker'.hand = worker.hand /\ spanBuf' = spanBuf /\ Snapped' = Snapped
      /\ traced' = Once(traced, worker.hand)
      /\ UNCHANGED <<made, snapDrops, caller, spooled, offered, gone>>
  BY TickShape, SnappedAppend DEF TickTrace, FlowInv, FlushType, Snapped, buffers, losses
<1>2. /\ made \in SUBSET Records /\ spanBuf \in SUBSET Spans /\ Snapped \in SUBSET Snaps
      /\ Spans \cap Snaps = {} /\ worker.hand \in SUBSET Records
      /\ traced \in [Records -> Nat] /\ spooled \in [Records -> Nat]
      /\ offered \in [Records -> Nat]
  BY SnappedAppend, FlushAssumption, TickShape DEF FlowInv, FlushType
<1>3. \A r \in Records : RecordOk(r)'
  BY <1>1, <1>2, OnceCounts DEF FlowInv, RecordOk
<1>4. \A r \in Records : Lost(r)' <=> Lost(r)
  BY <1>1, <1>2, OnceCounts DEF FlowInv, RecordOk, Lost, Held
<1>5. \A c \in Callers : CallerOk(c)'
  BY <1>1, <1>2 DEF FlowInv, CallerOk
<1> QED
  BY <1>1, <1>2, <1>3, <1>4, <1>5, LossStays DEF FlowInv

LEMMA TickSinkFlow ==
    ASSUME FlowInv, TickSink
    PROVE  LossOk' /\ (\A r \in Records : RecordOk(r)') /\ (\A c \in Callers : CallerOk(c)')
<1>1. /\ worker.pc = "sink" /\ worker'.pc = "send"
      /\ worker'.hand = worker.hand /\ spanBuf' = spanBuf /\ Snapped' = Snapped
      /\ spooled' = Once(spooled, worker.hand) \/ spooled' = spooled
      /\ UNCHANGED <<made, snapDrops, caller, traced, offered, gone>>
  BY TickShape, SnappedAppend DEF TickSink, FlowInv, FlushType, Snapped, buffers, losses
<1>2. /\ made \in SUBSET Records /\ spanBuf \in SUBSET Spans /\ Snapped \in SUBSET Snaps
      /\ Spans \cap Snaps = {} /\ worker.hand \in SUBSET Records
      /\ traced \in [Records -> Nat] /\ spooled \in [Records -> Nat]
      /\ offered \in [Records -> Nat]
  BY SnappedAppend, FlushAssumption, TickShape DEF FlowInv, FlushType
<1>3. \A r \in Records : RecordOk(r)'
  BY <1>1, <1>2, OnceCounts DEF FlowInv, RecordOk
<1>4. \A r \in Records : Lost(r)' <=> Lost(r)
  BY <1>1, <1>2, OnceCounts DEF FlowInv, RecordOk, Lost, Held
<1>5. \A c \in Callers : CallerOk(c)'
  BY <1>1, <1>2 DEF FlowInv, CallerOk
<1> QED
  BY <1>1, <1>2, <1>3, <1>4, <1>5, LossStays DEF FlowInv

LEMMA TickSendFlow ==
    ASSUME FlowInv, TickSend
    PROVE  LossOk' /\ (\A r \in Records : RecordOk(r)') /\ (\A c \in Callers : CallerOk(c)')
<1>1. /\ worker.pc = "send" /\ worker'.pc = "idle"
      /\ worker'.hand = {} /\ spanBuf' = spanBuf /\ Snapped' = Snapped
      /\ offered' = Once(offered, worker.hand) \/ offered' = offered
      /\ UNCHANGED <<made, snapDrops, caller, traced, spooled, gone>>
  BY TickShape, SnappedAppend DEF TickSend, FlowInv, FlushType, Snapped, buffers, losses
<1>2. /\ made \in SUBSET Records /\ spanBuf \in SUBSET Spans /\ Snapped \in SUBSET Snaps
      /\ Spans \cap Snaps = {} /\ worker.hand \in SUBSET Records
      /\ traced \in [Records -> Nat] /\ spooled \in [Records -> Nat]
      /\ offered \in [Records -> Nat]
  BY SnappedAppend, FlushAssumption, TickShape DEF FlowInv, FlushType
<1>3. \A r \in Records : RecordOk(r)'
  BY <1>1, <1>2, OnceCounts DEF FlowInv, RecordOk
<1>4. \A r \in Records : Lost(r)' <=> Lost(r)
  BY <1>1, <1>2, OnceCounts DEF FlowInv, RecordOk, Lost, Held
<1>5. \A c \in Callers : CallerOk(c)'
  BY <1>1, <1>2 DEF FlowInv, CallerOk
<1> QED
  BY <1>1, <1>2, <1>3, <1>4, <1>5, LossStays DEF FlowInv

LEMMA WorkerExitsFlow ==
    ASSUME FlowInv, WorkerExits
    PROVE  LossOk' /\ (\A r \in Records : RecordOk(r)') /\ (\A c \in Callers : CallerOk(c)')
<1>1. /\ worker.pc = "idle" /\ worker'.pc = "exited"
      /\ worker'.hand = worker.hand /\ spanBuf' = spanBuf /\ Snapped' = Snapped
      /\ UNCHANGED <<made, snapDrops, caller, traced, spooled, offered, gone>>
  BY TickShape, SnappedAppend DEF WorkerExits, FlowInv, FlushType, Snapped, buffers, outputs, losses
<1>2. /\ made \in SUBSET Records /\ spanBuf \in SUBSET Spans /\ Snapped \in SUBSET Snaps
      /\ Spans \cap Snaps = {} /\ worker.hand \in SUBSET Records
      /\ traced \in [Records -> Nat] /\ spooled \in [Records -> Nat]
      /\ offered \in [Records -> Nat]
  BY SnappedAppend, FlushAssumption, TickShape DEF FlowInv, FlushType
<1>3. \A r \in Records : RecordOk(r)'
  BY <1>1, <1>2 DEF FlowInv, RecordOk
<1>4. \A r \in Records : Lost(r)' <=> Lost(r)
  BY <1>1, <1>2 DEF FlowInv, RecordOk, Lost, Held
<1>5. \A c \in Callers : CallerOk(c)'
  BY <1>1, <1>2 DEF FlowInv, CallerOk
<1> QED
  BY <1>1, <1>2, <1>3, <1>4, <1>5, LossStays DEF FlowInv

LEMMA WorkerDiesFlow ==
    ASSUME FlowInv, WorkerDies
    PROVE  LossOk' /\ (\A r \in Records : RecordOk(r)') /\ (\A c \in Callers : CallerOk(c)')
<1>1. /\ worker.pc # "exited" /\ worker'.pc = "idle" /\ worker'.hand = {}
      /\ spanBuf' = spanBuf /\ Snapped' = Snapped /\ gone' = gone \cup worker.hand
      /\ UNCHANGED <<made, snapDrops, caller, traced, spooled, offered>>
  BY TickShape, SnappedAppend DEF WorkerDies, FlowInv, FlushType, Snapped, buffers, outputs, NoTick
<1>2. /\ made \in SUBSET Records /\ spanBuf \in SUBSET Spans /\ Snapped \in SUBSET Snaps
      /\ Spans \cap Snaps = {} /\ worker.hand \in SUBSET Records
      /\ traced \in [Records -> Nat] /\ spooled \in [Records -> Nat]
      /\ offered \in [Records -> Nat]
  BY SnappedAppend, FlushAssumption, TickShape DEF FlowInv, FlushType
<1>3. \A r \in Records : RecordOk(r)'
  BY <1>1, <1>2 DEF FlowInv, RecordOk
<1>4. \A r \in Records : Lost(r)' <=> Lost(r)
  BY <1>1, <1>2 DEF FlowInv, RecordOk, Lost, Held
<1>5. \A c \in Callers : CallerOk(c)'
  BY <1>1, <1>2 DEF FlowInv, CallerOk
<1> QED
  BY <1>1, <1>2, <1>3, <1>4, <1>5, LossStays DEF FlowInv

LEMMA CallBeginFlow ==
    ASSUME FlowInv, NEW c \in Callers, CallBegin(c)
    PROVE  LossOk' /\ (\A r \in Records : RecordOk(r)') /\ (\A d \in Callers : CallerOk(d)')
<1>1. /\ caller[c].pc = "away" /\ caller'[c].pc = "spans" /\ caller'[c].hand = {}
      /\ caller'[c].before = made /\ caller'[c].timely = FALSE
      /\ \A d \in Callers : d # c => caller'[d] = caller[d]
      /\ spanBuf' = spanBuf /\ Snapped' = Snapped
      /\ UNCHANGED <<made, snapDrops, worker, traced, spooled, offered, gone>>
  BY CallShape, TickShape, SnappedAppend, FlushAssumption DEF CallBegin, FlowInv, FlushType, Snapped, NoCall, buffers, outputs, losses
<1>2. /\ made \in SUBSET Records /\ spanBuf \in SUBSET Spans /\ Snapped \in SUBSET Snaps
      /\ Spans \cap Snaps = {} /\ Records = Spans \cup Snaps
      /\ \A d \in Callers : caller[d].hand \in SUBSET Records
      /\ traced \in [Records -> Nat] /\ spooled \in [Records -> Nat]
      /\ offered \in [Records -> Nat]
  BY SnappedAppend, FlushAssumption, CallShape DEF FlowInv, FlushType, Records
<1>3. \A r \in Records : RecordOk(r)'
  BY <1>1, <1>2 DEF FlowInv, RecordOk
<1>4. \A r \in Records : Lost(r)' <=> Lost(r)
  BY <1>1, <1>2 DEF FlowInv, RecordOk, Lost, Held
<1>5. \A d \in Callers : CallerOk(d)'
  BY <1>1, <1>2 DEF FlowInv, CallerOk
<1> QED
  BY <1>1, <1>2, <1>3, <1>4, <1>5, LossStays DEF FlowInv

LEMMA CallSpansFlow ==
    ASSUME FlowInv, NEW c \in Callers, CallSpans(c)
    PROVE  LossOk' /\ (\A r \in Records : RecordOk(r)') /\ (\A d \in Callers : CallerOk(d)')
<1>1. /\ caller[c].pc = "spans" /\ caller'[c].pc = "snaps" /\ caller'[c].hand = spanBuf
      /\ caller'[c].before = caller[c].before /\ caller'[c].timely = caller[c].timely
      /\ \A d \in Callers : d # c => caller'[d] = caller[d]
      /\ spanBuf' = {} /\ Snapped' = Snapped
      /\ UNCHANGED <<made, snapDrops, worker, traced, spooled, offered, gone>>
  BY CallShape, TickShape, SnappedAppend, FlushAssumption DEF CallSpans, FlowInv, FlushType, Snapped, outputs, losses
<1>2. /\ made \in SUBSET Records /\ spanBuf \in SUBSET Spans /\ Snapped \in SUBSET Snaps
      /\ Spans \cap Snaps = {} /\ Records = Spans \cup Snaps
      /\ \A d \in Callers : caller[d].hand \in SUBSET Records
      /\ traced \in [Records -> Nat] /\ spooled \in [Records -> Nat]
      /\ offered \in [Records -> Nat]
  BY SnappedAppend, FlushAssumption, CallShape DEF FlowInv, FlushType, Records
<1>3. \A r \in Records : RecordOk(r)'
  BY <1>1, <1>2 DEF FlowInv, RecordOk
<1>4. \A r \in Records : Lost(r)' <=> Lost(r)
  BY <1>1, <1>2 DEF FlowInv, RecordOk, Lost, Held
<1>5. \A d \in Callers : CallerOk(d)'
  BY <1>1, <1>2 DEF FlowInv, CallerOk
<1> QED
  BY <1>1, <1>2, <1>3, <1>4, <1>5, LossStays DEF FlowInv

LEMMA CallSnapsFlow ==
    ASSUME FlowInv, NEW c \in Callers, CallSnaps(c)
    PROVE  LossOk' /\ (\A r \in Records : RecordOk(r)') /\ (\A d \in Callers : CallerOk(d)')
<1>1. /\ caller[c].pc = "snaps" /\ caller'[c].pc = "trace"
      /\ caller'[c].hand = caller[c].hand \cup Snapped
      /\ caller'[c].before = caller[c].before /\ caller'[c].timely = caller[c].timely
      /\ \A d \in Callers : d # c => caller'[d] = caller[d]
      /\ spanBuf' = spanBuf /\ Snapped' = {}
      /\ UNCHANGED <<made, snapDrops, worker, traced, spooled, offered, gone>>
  BY CallShape, TickShape, SnappedAppend, FlushAssumption DEF CallSnaps, FlowInv, FlushType, Snapped, outputs, losses
<1>2. /\ made \in SUBSET Records /\ spanBuf \in SUBSET Spans /\ Snapped \in SUBSET Snaps
      /\ Spans \cap Snaps = {} /\ Records = Spans \cup Snaps
      /\ \A d \in Callers : caller[d].hand \in SUBSET Records
      /\ traced \in [Records -> Nat] /\ spooled \in [Records -> Nat]
      /\ offered \in [Records -> Nat]
  BY SnappedAppend, FlushAssumption, CallShape DEF FlowInv, FlushType, Records
<1>3. \A r \in Records : RecordOk(r)'
  BY <1>1, <1>2 DEF FlowInv, RecordOk
<1>4. \A r \in Records : Lost(r)' <=> Lost(r)
  BY <1>1, <1>2 DEF FlowInv, RecordOk, Lost, Held
<1>5. \A d \in Callers : CallerOk(d)'
  BY <1>1, <1>2 DEF FlowInv, CallerOk
<1> QED
  BY <1>1, <1>2, <1>3, <1>4, <1>5, LossStays DEF FlowInv

LEMMA CallTraceFlow ==
    ASSUME FlowInv, NEW c \in Callers, CallTrace(c)
    PROVE  LossOk' /\ (\A r \in Records : RecordOk(r)') /\ (\A d \in Callers : CallerOk(d)')
<1>1. /\ caller[c].pc = "trace" /\ caller'[c].pc = "sink" /\ caller'[c].hand = caller[c].hand
      /\ caller'[c].before = caller[c].before /\ caller'[c].timely = caller[c].timely
      /\ \A d \in Callers : d # c => caller'[d] = caller[d]
      /\ spanBuf' = spanBuf /\ Snapped' = Snapped
      /\ traced' = Once(traced, caller[c].hand)
      /\ UNCHANGED <<made, snapDrops, worker, spooled, offered, gone>>
  BY CallShape, TickShape, SnappedAppend, FlushAssumption DEF CallTrace, FlowInv, FlushType, Snapped, buffers, losses
<1>2. /\ made \in SUBSET Records /\ spanBuf \in SUBSET Spans /\ Snapped \in SUBSET Snaps
      /\ Spans \cap Snaps = {} /\ Records = Spans \cup Snaps
      /\ \A d \in Callers : caller[d].hand \in SUBSET Records
      /\ traced \in [Records -> Nat] /\ spooled \in [Records -> Nat]
      /\ offered \in [Records -> Nat]
  BY SnappedAppend, FlushAssumption, CallShape DEF FlowInv, FlushType, Records
<1>6. \A r \in Records : traced'[r] = IF r \in caller[c].hand THEN traced[r] + 1 ELSE traced[r]
  BY <1>1, <1>2, OnceCounts
<1>3. ASSUME NEW r \in Records PROVE RecordOk(r)'
  <2>1. RecordOk(r)
    BY DEF FlowInv
  <2>2. CASE r \in caller[c].hand
    BY <1>1, <1>2, <1>6, <2>1, <2>2 DEF RecordOk
  <2>3. CASE r \notin caller[c].hand
    BY <1>1, <1>2, <1>6, <2>1, <2>3 DEF RecordOk
  <2> QED
    BY <2>2, <2>3
<1>4. \A r \in Records : Lost(r)' <=> Lost(r)
  BY <1>1, <1>2, <1>6 DEF FlowInv, RecordOk, Lost, Held
<1>5. \A d \in Callers : CallerOk(d)'
  BY <1>1, <1>2 DEF FlowInv, CallerOk
<1> QED
  BY <1>1, <1>2, <1>3, <1>4, <1>5, LossStays DEF FlowInv

LEMMA CallSinkFlow ==
    ASSUME FlowInv, NEW c \in Callers, CallSink(c)
    PROVE  LossOk' /\ (\A r \in Records : RecordOk(r)') /\ (\A d \in Callers : CallerOk(d)')
<1>1. /\ caller[c].pc = "sink" /\ caller'[c].hand = {}
      /\ caller'[c].pc \in {"stop", "returned"}
      /\ caller'[c].before = caller[c].before /\ caller'[c].timely = caller[c].timely
      /\ \A d \in Callers : d # c => caller'[d] = caller[d]
      /\ spanBuf' = spanBuf /\ Snapped' = Snapped
      /\ spooled' = Once(spooled, caller[c].hand) \/ spooled' = spooled
      /\ UNCHANGED <<made, snapDrops, worker, traced, offered, gone>>
  BY CallShape, TickShape, SnappedAppend, FlushAssumption DEF CallSink, FlowInv, FlushType, Snapped, buffers, losses
<1>2. /\ made \in SUBSET Records /\ spanBuf \in SUBSET Spans /\ Snapped \in SUBSET Snaps
      /\ Spans \cap Snaps = {} /\ Records = Spans \cup Snaps
      /\ \A d \in Callers : caller[d].hand \in SUBSET Records
      /\ traced \in [Records -> Nat] /\ spooled \in [Records -> Nat]
      /\ offered \in [Records -> Nat]
  BY SnappedAppend, FlushAssumption, CallShape DEF FlowInv, FlushType, Records
<1>6. \/ \A r \in Records :
           spooled'[r] = IF r \in caller[c].hand THEN spooled[r] + 1 ELSE spooled[r]
      \/ spooled' = spooled
  <2>1. CASE spooled' = Once(spooled, caller[c].hand)
    <3>1. \A r \in Records : Once(spooled, caller[c].hand)[r] =
             IF r \in caller[c].hand THEN spooled[r] + 1 ELSE spooled[r]
      <4>1. spooled \in [Records -> Nat]
        BY <1>2
      <4> QED
        BY <4>1, OnceCounts
    <3> QED
      BY <2>1, <3>1
  <2> QED
    BY <1>1, <2>1
<1>3. ASSUME NEW r \in Records PROVE RecordOk(r)'
  <2>1. RecordOk(r)
    BY DEF FlowInv
  <2>2. CASE r \in caller[c].hand
    BY <1>1, <1>2, <1>6, <2>1, <2>2 DEF RecordOk
  <2>3. CASE r \notin caller[c].hand
    BY <1>1, <1>2, <1>6, <2>1, <2>3 DEF RecordOk
  <2> QED
    BY <2>2, <2>3
<1>4. ASSUME NEW r \in Records PROVE Lost(r)' <=> Lost(r)
  <2>1. r \in caller[c].hand => traced[r] = 1
    BY <1>1 DEF FlowInv, RecordOk
  <2>2. r \notin caller[c].hand => (Held(r)' <=> Held(r))
    BY <1>1 DEF Held
  <2> QED
    BY <1>1, <2>1, <2>2 DEF Lost
<1>5. \A d \in Callers : CallerOk(d)'
  BY <1>1, <1>2 DEF FlowInv, CallerOk
<1> QED
  BY <1>1, <1>2, <1>3, <1>4, <1>5, LossStays DEF FlowInv

LEMMA CallStopFlow ==
    ASSUME FlowInv, NEW c \in Callers, CallStop(c)
    PROVE  LossOk' /\ (\A r \in Records : RecordOk(r)') /\ (\A d \in Callers : CallerOk(d)')
<1>1. /\ caller[c].pc = "stop" /\ caller'[c].hand = caller[c].hand
      /\ caller'[c].pc \in {"join", "returned"}
      /\ caller'[c].before = caller[c].before /\ caller'[c].timely = caller[c].timely
      /\ \A d \in Callers : d # c => caller'[d] = caller[d]
      /\ spanBuf' = spanBuf /\ Snapped' = Snapped
      /\ UNCHANGED <<made, snapDrops, worker, traced, spooled, offered, gone>>
  BY CallShape, TickShape, SnappedAppend, FlushAssumption DEF CallStop, FlowInv, FlushType, Snapped, buffers, outputs, losses
<1>2. /\ made \in SUBSET Records /\ spanBuf \in SUBSET Spans /\ Snapped \in SUBSET Snaps
      /\ Spans \cap Snaps = {} /\ Records = Spans \cup Snaps
      /\ \A d \in Callers : caller[d].hand \in SUBSET Records
      /\ traced \in [Records -> Nat] /\ spooled \in [Records -> Nat]
      /\ offered \in [Records -> Nat]
  BY SnappedAppend, FlushAssumption, CallShape DEF FlowInv, FlushType, Records
<1>3. \A r \in Records : RecordOk(r)'
  BY <1>1, <1>2 DEF FlowInv, RecordOk
<1>4. \A r \in Records : Lost(r)' <=> Lost(r)
  BY <1>1, <1>2 DEF FlowInv, RecordOk, Lost, Held
<1>5. \A d \in Callers : CallerOk(d)'
  BY <1>1, <1>2 DEF FlowInv, CallerOk
<1> QED
  BY <1>1, <1>2, <1>3, <1>4, <1>5, LossStays DEF FlowInv

LEMMA CallJoinFlow ==
    ASSUME FlowInv, NEW c \in Callers, CallJoin(c)
    PROVE  LossOk' /\ (\A r \in Records : RecordOk(r)') /\ (\A d \in Callers : CallerOk(d)')
<1>1. /\ caller[c].pc = "join" /\ caller'[c].pc = "returned" /\ caller'[c].hand = caller[c].hand
      /\ caller'[c].before = caller[c].before
      /\ caller'[c].timely => worker.pc = "exited"
      /\ \A d \in Callers : d # c => caller'[d] = caller[d]
      /\ spanBuf' = spanBuf /\ Snapped' = Snapped
      /\ UNCHANGED <<made, snapDrops, worker, traced, spooled, offered, gone>>
  BY CallShape, TickShape, SnappedAppend, FlushAssumption DEF CallJoin, FlowInv, FlushType, Snapped, buffers, outputs, losses
<1>2. /\ made \in SUBSET Records /\ spanBuf \in SUBSET Spans /\ Snapped \in SUBSET Snaps
      /\ Spans \cap Snaps = {} /\ Records = Spans \cup Snaps
      /\ \A d \in Callers : caller[d].hand \in SUBSET Records
      /\ traced \in [Records -> Nat] /\ spooled \in [Records -> Nat]
      /\ offered \in [Records -> Nat]
  BY SnappedAppend, FlushAssumption, CallShape DEF FlowInv, FlushType, Records
<1>3. \A r \in Records : RecordOk(r)'
  BY <1>1, <1>2 DEF FlowInv, RecordOk
<1>4. \A r \in Records : Lost(r)' <=> Lost(r)
  BY <1>1, <1>2 DEF FlowInv, RecordOk, Lost, Held
<1>5. \A d \in Callers : CallerOk(d)'
  BY <1>1, <1>2 DEF FlowInv, CallerOk
<1> QED
  BY <1>1, <1>2, <1>3, <1>4, <1>5, LossStays DEF FlowInv

LEMMA CloseSpanFlow ==
    ASSUME FlowInv, NEW s \in Spans, CloseSpan(s)
    PROVE  LossOk' /\ (\A r \in Records : RecordOk(r)') /\ (\A c \in Callers : CallerOk(c)')
<1>1. /\ s \notin made /\ made' = made \cup {s} /\ spanBuf' = spanBuf \cup {s}
      /\ Snapped' = Snapped
      /\ UNCHANGED <<snapDrops, worker, caller, traced, spooled, offered, gone>>
  BY DEF CloseSpan, outputs, losses, Snapped
<1>2. /\ made \in SUBSET Records /\ Snapped \in SUBSET Snaps /\ gone \in SUBSET Records
      /\ s \in Records /\ s \notin Snapped
  BY SnappedAppend, FlushAssumption DEF FlowInv, FlushType, Records
<1>3. \A r \in Records : RecordOk(r)'
  BY <1>1, <1>2 DEF FlowInv, RecordOk
<1>4. \A r \in Records : Lost(r)' <=> Lost(r)
  BY <1>1, <1>2 DEF FlowInv, RecordOk, Lost, Held
<1>5. \A c \in Callers : CallerOk(c)'
  BY <1>1, <1>2 DEF FlowInv, CallerOk
<1> QED
  BY <1>1, <1>2, <1>3, <1>4, <1>5, LossStays DEF FlowInv

\* A record that the full buffer refuses is the one loss that is counted.
LEMMA CaptureRecordFlow ==
    ASSUME FlowInv, NEW s \in Snaps, CaptureRecord(s)
    PROVE  LossOk' /\ (\A r \in Records : RecordOk(r)') /\ (\A c \in Callers : CallerOk(c)')
<1>1. /\ s \notin made /\ made' = made \cup {s} /\ spanBuf' = spanBuf
      /\ \/ Snapped' = Snapped \cup {s} /\ snapDrops' = snapDrops
         \/ Snapped' = Snapped /\ snapDrops' = snapDrops + 1
      /\ UNCHANGED <<worker, caller, traced, spooled, offered, gone>>
  BY SnappedAppend DEF CaptureRecord, FlowInv, FlushType, outputs, losses
<1>2. /\ made \in SUBSET Records /\ IsFiniteSet(made) /\ Snapped \in SUBSET Snaps
      /\ spanBuf \in SUBSET Spans /\ s \in Records /\ s \notin spanBuf /\ snapDrops \in Nat
  BY SnappedAppend, FlushAssumption DEF FlowInv, FlushType, Records
<1>3. \A r \in Records : RecordOk(r)'
  BY <1>1, <1>2 DEF FlowInv, RecordOk
<1>4. \A c \in Callers : CallerOk(c)'
  <2>1. s \notin made /\ \A c \in Callers : caller[c].before \subseteq made
    BY <1>1 DEF FlowInv, CallerOk
  <2> QED
    BY <1>1, <1>2, <2>1 DEF FlowInv, CallerOk
<1>5. CASE Snapped' = Snapped \cup {s} /\ snapDrops' = snapDrops
  <2>1. \A r \in Records : Lost(r)' <=> Lost(r)
    BY <1>1, <1>2, <1>5 DEF FlowInv, RecordOk, Lost, Held
  <2> QED
    BY <1>1, <1>2, <1>3, <1>4, <1>5, <2>1, LossStays DEF FlowInv
<1>6. CASE Snapped' = Snapped /\ snapDrops' = snapDrops + 1
  <2> DEFINE L == {r \in made : Lost(r)}
  <2>1. RecordOk(s) /\ s \notin made
    BY <1>1, <1>2 DEF FlowInv
  <2>2. s \notin gone
    BY <2>1 DEF RecordOk
  <2>3. {r \in made' : Lost(r)'} = L \cup {s}
    BY <1>1, <1>2, <1>6, <2>1, <2>2 DEF RecordOk, Lost, Held
  <2>4. IsFiniteSet(L) /\ s \notin L
    BY <1>1, <1>2, FS_Subset
  <2>5. Cardinality(L \cup {s}) = Cardinality(L) + 1
    BY <2>4, FS_AddElement
  <2>6. L \subseteq Snaps /\ Cardinality(L) = snapDrops
    BY DEF FlowInv, LossOk
  <2> HIDE DEF L
  <2>7. LossOk'
    BY <1>6, <2>3, <2>5, <2>6 DEF LossOk
  <2> QED
    BY <1>3, <1>4, <2>7
<1> QED
  BY <1>1, <1>5, <1>6

LEMMA FlowInit == Init => FlowInv
<1> SUFFICES ASSUME Init PROVE FlowInv
  OBVIOUS
<1>1. /\ made = {} /\ spanBuf = {} /\ snapDrops = 0 /\ gone = {}
      /\ worker.hand = {} /\ worker.pc = "idle"
      /\ \A c \in Callers : caller[c].hand = {} /\ caller[c].before = {}
                            /\ caller[c].pc = "away" /\ caller[c].timely = FALSE
      /\ \A r \in Records : traced[r] = 0 /\ spooled[r] = 0 /\ offered[r] = 0
  BY DEF Init, NoTick, NoCall
<1>2. Snapped = {}
  BY DEF Init, Snapped
<1>3. {r \in made : Lost(r)} = {} /\ Cardinality({}) = 0
  BY <1>1, FS_EmptySet
<1>4. LossOk
  BY <1>1, <1>3 DEF LossOk
<1>5. \A r \in Records : RecordOk(r)
  BY <1>1, <1>2 DEF RecordOk
<1>6. \A c \in Callers : CallerOk(c)
  BY <1>1, <1>2 DEF CallerOk
<1> QED
  BY <1>4, <1>5, <1>6, FlushTypeInit DEF FlowInv

\* A step that has nothing to do with records.
LEMMA QuietFlow ==
    ASSUME FlowInv,
           UNCHANGED <<made, spanBuf, snapBuf, snapDrops, worker, caller, traced, spooled,
                       offered, gone>>
    PROVE  LossOk' /\ (\A r \in Records : RecordOk(r)') /\ (\A c \in Callers : CallerOk(c)')
<1>1. Snapped' = Snapped
  BY DEF Snapped
<1>2. \A r \in Records : RecordOk(r)'
  BY <1>1 DEF FlowInv, RecordOk
<1>3. \A r \in Records : Lost(r)' <=> Lost(r)
  BY <1>1 DEF Lost, Held
<1>4. \A c \in Callers : CallerOk(c)'
  BY <1>1 DEF FlowInv, CallerOk
<1> QED
  BY <1>2, <1>3, <1>4, LossStays DEF FlowInv, FlushType

LEMMA FlowStep == FlowInv /\ [Next]_vars => FlowInv'
<1> SUFFICES ASSUME FlowInv, [Next]_vars
             PROVE  /\ LossOk' /\ \A r \in Records : RecordOk(r)'
                    /\ \A c \in Callers : CallerOk(c)'
  BY FlushTypeStep DEF FlowInv
<1>1. CASE Produce
  <2>1. setup.snaps \subseteq Snaps
    BY DEF FlowInv, FlushType, Circumstances
  <2>2. ASSUME NEW s \in Snaps, CaptureBlob(s)
        PROVE  UNCHANGED <<made, spanBuf, snapBuf, snapDrops, worker, caller, traced,
                           spooled, offered, gone>>
    BY <2>2 DEF CaptureBlob, buffers, outputs, losses
  <2> QED
    BY <1>1, <2>1, <2>2, QuietFlow, CloseSpanFlow, CaptureRecordFlow DEF Produce
<1>2. CASE WorkerStep
  BY <1>2, TickSpansFlow, TickSnapsFlow, TickBlobsFlow, UploadFailsFlow, UploadSucceedsFlow,
     ApplyUrisFlow, TickTraceFlow, TickSinkFlow, TickSendFlow, WorkerExitsFlow DEF WorkerStep
<1>3. CASE WorkerDies
  BY <1>3, WorkerDiesFlow
<1>4. ASSUME NEW c \in setup.callers, CallBegin(c) \/ CallerStep(c)
      PROVE  /\ LossOk' /\ \A r \in Records : RecordOk(r)'
             /\ \A d \in Callers : CallerOk(d)'
  <2>1. c \in Callers
    BY DEF FlowInv, FlushType, Circumstances
  <2> QED
    BY <1>4, <2>1, CallBeginFlow, CallSpansFlow, CallSnapsFlow, CallTraceFlow, CallSinkFlow,
       CallStopFlow, CallJoinFlow DEF CallerStep
<1>5. CASE UNCHANGED vars
  BY <1>5, QuietFlow DEF vars
<1> QED
  BY <1>1, <1>2, <1>3, <1>4, <1>5 DEF Next

\* However ticks, flushes and shutdowns interleave and however often the worker dies, a
\* record is in one batch, which reaches each destination at most once.
THEOREM OneBatch == Spec => []InOneBatch
<1>1. FlowInv => InOneBatch
  BY DEF FlowInv, RecordOk, InOneBatch
<1> QED
  BY <1>1, FlowInit, FlowStep, PTL DEF Spec

\* A record that the pipeline was handed is in it, has reached the trace buffer, went down
\* with a worker, or is one of those the full snapshot buffer refused and counted.
THEOREM NoRecordVanishes == Spec => []NothingVanishes
<1>1. FlowInv => NothingVanishes
  <2> SUFFICES ASSUME FlowInv PROVE NothingVanishes
    OBVIOUS
  <2>1. {r \in made : /\ r \notin spanBuf /\ r \notin Snapped
                      /\ ~ Held(r) /\ traced[r] = 0 /\ r \notin gone}
          = {r \in made : Lost(r)}
    BY DEF Lost
  <2> QED
    BY <2>1 DEF FlowInv, LossOk, NothingVanishes
<1> QED
  BY <1>1, FlowInit, FlowStep, PTL DEF Spec

\* When the shutdown that stopped the worker returns in time, what was closed before it
\* began has reached the trace buffer, was lost and counted, or is in another's hand.
THEOREM ShutdownComplete == Spec => []ShutdownFlushes
<1>1. FlowInv => ShutdownFlushes
  <2> SUFFICES ASSUME FlowInv, NEW c \in Callers, caller[c].pc = "returned",
                      caller[c].timely, NEW r \in caller[c].before
               PROVE  \/ traced[r] > 0 \/ r \in gone
                      \/ r \in Snaps /\ snapDrops > 0
                      \/ \E d \in Callers \ {c} : r \in caller[d].hand
    BY DEF ShutdownFlushes
  <2>1. /\ r \in made /\ r \in Records /\ r \notin spanBuf /\ r \notin Snapped
        /\ worker.pc = "exited"
    BY CallShape DEF FlowInv, CallerOk
  <2>2. r \notin worker.hand /\ r \notin caller[c].hand
    BY <2>1 DEF FlowInv, RecordOk
  <2>3. CASE Lost(r)
    <3> DEFINE L == {s \in made : Lost(s)}
    <3>1. r \in L /\ L \subseteq Snaps /\ IsFiniteSet(made) /\ L \subseteq made
      BY <2>1, <2>3 DEF FlowInv, LossOk, FlushType
    <3>2. IsFiniteSet(L) /\ L # {}
      BY <3>1, FS_Subset
    <3>3. Cardinality(L) \in Nat /\ Cardinality(L) # 0
      BY <3>2, FS_CardinalityType, FS_EmptySet
    <3> QED
      BY <3>1, <3>3 DEF FlowInv, LossOk
  <2>4. CASE ~ Lost(r)
    BY <2>1, <2>2, <2>4 DEF Lost, Held, FlowInv, FlushType
  <2> QED
    BY <2>3, <2>4
<1> QED
  BY <1>1, FlowInit, FlowStep, PTL DEF Spec

\* A tick that is not interrupted delivers what it drained, whatever the sinks do.
THEOREM TicksDeliver == Spec => TickDelivers
<1>1. ASSUME FlowInv, [Next]_vars
      PROVE  [worker.hand # {} /\ worker'.hand = {} /\ deaths' = deaths =>
                \A r \in worker.hand : /\ traced[r] > 0
                                       /\ worker.transport => offered'[r] > 0]_vars
  <2> SUFFICES ASSUME Next, worker.hand # {}, worker'.hand = {}, deaths' = deaths,
                      NEW r \in worker.hand
               PROVE  traced[r] > 0 /\ (worker.transport => offered'[r] > 0)
    BY <1>1 DEF vars
  <2>1. worker.pc \notin {"idle", "exited"} /\ r \in Records
        /\ (worker.pc = "send" => traced[r] = 1) /\ offered[r] = 0
        /\ offered \in [Records -> Nat] /\ deaths \in Nat
    BY <1>1, TickShape DEF FlowInv, RecordOk, FlushType
  <2>2. CASE TickSend
    <3>1. worker.transport => offered' = Once(offered, worker.hand)
      BY <2>2 DEF TickSend
    <3> QED
      BY <2>1, <2>2, <3>1, OnceCounts DEF TickSend
  <2>3. CASE WorkerStep /\ ~ TickSend
    <3>1. ~ TickSpans /\ ~ WorkerExits
      BY <2>1 DEF TickSpans, WorkerExits
    <3>2. worker.hand \subseteq worker'.hand
      <4>1. FlushType
        BY <1>1 DEF FlowInv
      <4>2. CASE TickSnaps
        BY <4>1, <4>2, TickShape DEF TickSnaps
      <4>3. CASE TickBlobs
        BY <4>1, <4>3, TickShape DEF TickBlobs
      <4>4. CASE UploadFails
        BY <4>1, <4>4, TickShape DEF UploadFails
      <4>5. CASE UploadSucceeds
        BY <4>1, <4>5, TickShape DEF UploadSucceeds
      <4>6. CASE ApplyUris
        BY <4>1, <4>6, TickShape DEF ApplyUris
      <4>7. CASE TickTrace
        BY <4>1, <4>7, TickShape DEF TickTrace
      <4>8. CASE TickSink
        BY <4>1, <4>8, TickShape DEF TickSink
      <4> QED
        BY <2>3, <3>1, <4>2, <4>3, <4>4, <4>5, <4>6, <4>7, <4>8 DEF WorkerStep
    <3> QED
      BY <3>2
  <2>4. CASE ~ WorkerStep
    <3>1. ASSUME WorkerDies PROVE FALSE
      BY <2>1, <3>1 DEF WorkerDies
    <3>2. ASSUME Produce PROVE FALSE
      BY <3>2 DEF Produce, CloseSpan, CaptureBlob, CaptureRecord
    <3>3. ASSUME NEW c \in Callers, CallBegin(c) \/ CallerStep(c) PROVE FALSE
      BY <3>3 DEF CallBegin, CallerStep, CallSpans, CallSnaps, CallTrace, CallSink, CallStop,
                  CallJoin
    <3>4. setup.callers \subseteq Callers
      BY <1>1 DEF FlowInv, FlushType, Circumstances
    <3> QED
      BY <2>4, <3>1, <3>2, <3>3, <3>4 DEF Next
  <2> QED
    BY <2>2, <2>3, <2>4 DEF WorkerStep
<1> QED
  BY <1>1, FlowInit, FlowStep, PTL DEF Spec, TickDelivers

-------------------------------------------------------------------------------
(* The way of a blob *)

\* A pending item carries the attempts that were made, and may be tried once more.
ItemOk(item) == /\ item \in QueueItems
                /\ item.attempts = tries[item.snap] /\ item.attempts < MaxAttempts
                /\ item.snap \in blobs /\ item.snap \notin uploaded

\* There is one pending item of a blob at most, in the queue or in the hand of a tick
\* that uploads.
QueueOk ==
    /\ \A i \in DOMAIN blobQ : ItemOk(blobQ[i])
    /\ \A i \in DOMAIN worker.pending : ItemOk(worker.pending[i])
    /\ \A i, j \in DOMAIN blobQ : blobQ[i].snap = blobQ[j].snap => i = j
    /\ \A i, j \in DOMAIN worker.pending :
          worker.pending[i].snap = worker.pending[j].snap => i = j
    /\ \A i \in DOMAIN blobQ, j \in DOMAIN worker.pending :
          blobQ[i].snap # worker.pending[j].snap
    /\ worker.pc # "upload" => worker.pending = <<>>

BlobOk(s) ==
    /\ uri[s] = "remote" => s \in uploaded
    /\ s \in worker.uris => s \in uploaded
    /\ tries[s] <= MaxAttempts
    /\ s \notin blobs => tries[s] = 0 /\ s \notin uploaded
    /\ s \in blobs /\ ~ Pending(s) =>
          \/ s \in uploaded
          \/ tries[s] = MaxAttempts
          \/ blobDrops > 0 \/ s \in lostBlobs \/ ~ worker.transport

BlobInv == FlushType /\ QueueOk /\ \A s \in Snaps : BlobOk(s)

\* The indices of a queue after an append, and of one whose head was taken.
LEMMA AppendIndices ==
    ASSUME NEW q \in Seq(QueueItems), NEW item \in QueueItems
    PROVE  /\ DOMAIN q = 1..Len(q) /\ Len(q) \in Nat
           /\ DOMAIN Append(q, item) = 1..(Len(q) + 1)
           /\ \A i \in DOMAIN q : i \in DOMAIN Append(q, item) /\ Append(q, item)[i] = q[i]
           /\ Append(q, item)[Len(q) + 1] = item
           /\ \A i \in DOMAIN Append(q, item) : i \in DOMAIN q \/ i = Len(q) + 1
           /\ Len(q) + 1 \notin DOMAIN q /\ Len(q) + 1 \in DOMAIN Append(q, item)
  BY AppendProperties

LEMMA TailIndices ==
    ASSUME NEW q \in Seq(QueueItems), q # <<>>
    PROVE  /\ 1 \in DOMAIN q /\ Head(q) = q[1]
           /\ \A i \in DOMAIN Tail(q) : i + 1 \in DOMAIN q /\ i + 1 # 1 /\ i \in Nat
                                        /\ Tail(q)[i] = q[i + 1]
           /\ \A j \in DOMAIN q \ {1} : j \in Nat /\ j - 1 \in DOMAIN Tail(q) /\ (j - 1) + 1 = j
  BY HeadTailProperties

\* A queue takes an item whose blob is not pending, or drops and counts it.
LEMMA EnqueueOk ==
    ASSUME BlobInv, NEW item \in QueueItems, Enqueue(item),
           NEW Q, Q = blobQ, NEW P, P = worker'.pending, P \in Seq(QueueItems),
           ItemOk(item)',
           \A i \in DOMAIN Q : ItemOk(Q[i])' /\ Q[i].snap # item.snap,
           \A i \in DOMAIN P : ItemOk(P[i])' /\ P[i].snap # item.snap,
           \A i, j \in DOMAIN P : P[i].snap = P[j].snap => i = j,
           \A i \in DOMAIN Q, j \in DOMAIN P : Q[i].snap # P[j].snap,
           worker'.pc # "upload" => P = <<>>
    PROVE  /\ QueueOk'
           /\ blobDrops' >= blobDrops /\ blobDrops' \in Nat
           /\ \/ \E i \in DOMAIN blobQ' : blobQ'[i].snap = item.snap
              \/ blobDrops' > 0
           /\ \A i \in DOMAIN Q : \E j \in DOMAIN blobQ' : blobQ'[j].snap = Q[i].snap
<1>1. /\ Q \in Seq(QueueItems) /\ blobDrops \in Nat
      /\ \A i, j \in DOMAIN Q : Q[i].snap = Q[j].snap => i = j
  BY DEF BlobInv, FlushType, QueueOk
<1>2. CASE blobDrops' = blobDrops + 1 /\ blobQ' = blobQ
  <2>1. QueueOk'
    BY <1>1, <1>2 DEF QueueOk, ItemOk
  <2> QED
    BY <1>1, <1>2, <2>1
<1>3. CASE blobDrops' = blobDrops /\ blobQ' = Append(blobQ, item)
  <2> DEFINE n == Len(Q) + 1
  <2>1. /\ \A i \in DOMAIN blobQ' : i = n \/ i \in DOMAIN Q
        /\ \A i \in DOMAIN Q : i \in DOMAIN blobQ' /\ blobQ'[i] = Q[i]
        /\ blobQ'[n] = item /\ n \in DOMAIN blobQ' /\ n \notin DOMAIN Q
    BY <1>1, <1>3, AppendIndices
  <2> HIDE DEF n
  <2>2. (\A i \in DOMAIN blobQ : ItemOk(blobQ[i]))'
    BY <2>1 DEF ItemOk
  <2>3. (\A i, j \in DOMAIN blobQ : blobQ[i].snap = blobQ[j].snap => i = j)'
    BY <1>1, <2>1
  <2>4. (\A i \in DOMAIN blobQ, j \in DOMAIN worker.pending :
            blobQ[i].snap # worker.pending[j].snap)'
    BY <2>1
  <2>5. QueueOk'
    BY <2>2, <2>3, <2>4 DEF QueueOk, ItemOk
  <2> QED
    BY <1>1, <1>3, <2>1, <2>5
<1> QED
  BY <1>2, <1>3, EnqueueKinds DEF BlobInv

\* A step that has nothing to do with blobs.
LEMMA BlobQuiet ==
    ASSUME BlobInv,
           UNCHANGED <<blobQ, blobDrops, blobs, uri, tries, uploaded, lostBlobs>>,
           worker'.pending = worker.pending, worker'.uris = worker.uris,
           worker'.transport = worker.transport,
           worker'.pc # "upload" => worker.pending = <<>>
    PROVE  QueueOk' /\ \A s \in Snaps : BlobOk(s)'
<1>1. QueueOk'
  BY DEF BlobInv, QueueOk, ItemOk
<1>2. \A s \in Snaps : Pending(s)' <=> Pending(s)
  BY DEF Pending
<1> QED
  BY <1>1, <1>2 DEF BlobInv, BlobOk

LEMMA CaptureBlobQueue ==
    ASSUME BlobInv, NEW s \in Snaps, CaptureBlob(s)
    PROVE  QueueOk' /\ \A n \in Snaps : BlobOk(n)'
<1> DEFINE item == [snap |-> s, attempts |-> 0]
<1>1. /\ s \notin blobs /\ blobs' = blobs \cup {s} /\ Enqueue(item)
      /\ UNCHANGED <<worker, uri, tries, uploaded, lostBlobs>>
  BY DEF CaptureBlob, uploads, losses
<1>2. item \in QueueItems /\ item.snap = s /\ item.attempts = 0
  BY FlushAssumption DEF QueueItems
<1>3. tries[s] = 0 /\ s \notin uploaded
  BY <1>1 DEF BlobInv, BlobOk
<1> HIDE DEF item
<1>4. PICK Q : Q = blobQ
  OBVIOUS
<1>5. PICK P : P = worker'.pending
  OBVIOUS
<1>6. P \in Seq(QueueItems) /\ P = worker.pending /\ blobDrops \in Nat
  BY <1>1, <1>5, TickShape DEF BlobInv, FlushType
<1>7. ItemOk(item)'
  BY <1>1, <1>2, <1>3, FlushAssumption DEF ItemOk
<1>8. \A i \in DOMAIN Q : ItemOk(Q[i])' /\ Q[i].snap # item.snap
  BY <1>1, <1>2, <1>4 DEF BlobInv, QueueOk, ItemOk
<1>9. \A i \in DOMAIN P : ItemOk(P[i])' /\ P[i].snap # item.snap
  BY <1>1, <1>2, <1>6 DEF BlobInv, QueueOk, ItemOk
<1>10. /\ \A i, j \in DOMAIN P : P[i].snap = P[j].snap => i = j
       /\ \A i \in DOMAIN Q, j \in DOMAIN P : Q[i].snap # P[j].snap
       /\ worker'.pc # "upload" => P = <<>>
  BY <1>1, <1>4, <1>6 DEF BlobInv, QueueOk
<1>11. /\ QueueOk'
       /\ blobDrops' >= blobDrops /\ blobDrops' \in Nat
       /\ \/ \E i \in DOMAIN blobQ' : blobQ'[i].snap = item.snap
          \/ blobDrops' > 0
       /\ \A i \in DOMAIN Q : \E j \in DOMAIN blobQ' : blobQ'[j].snap = Q[i].snap
  BY <1>1, <1>2, <1>4, <1>5, <1>6, <1>7, <1>8, <1>9, <1>10, EnqueueOk
<1>12. ASSUME NEW n \in Snaps PROVE BlobOk(n)'
  <2>1. BlobOk(n)
    BY DEF BlobInv
  <2>2. n # s => (Pending(n) => Pending(n)')
    BY <1>1, <1>4, <1>11 DEF Pending
  <2>3. Pending(s)' \/ blobDrops' > 0
    BY <1>2, <1>11 DEF Pending
  <2>4. blobDrops > 0 => blobDrops' > 0
    BY <1>6, <1>11
  <2> QED
    BY <1>1, <1>3, <2>1, <2>2, <2>3, <2>4, FlushAssumption DEF BlobOk
<1> QED
  BY <1>11, <1>12

LEMMA TickBlobsQueue ==
    ASSUME BlobInv, TickBlobs
    PROVE  QueueOk' /\ \A s \in Snaps : BlobOk(s)'
<1>1. /\ worker.pc = "blobs" /\ worker'.pc = "upload" /\ blobQ' = <<>>
      /\ worker'.pending = IF worker.transport THEN blobQ ELSE <<>>
      /\ worker'.uris = worker.uris /\ worker'.transport = worker.transport
      /\ UNCHANGED <<blobDrops, blobs, uri, tries, uploaded, lostBlobs>>
  BY TickShape DEF TickBlobs, BlobInv, uploads, losses
<1>2. worker.pending = <<>> /\ worker.transport \in BOOLEAN
  BY <1>1, TickShape DEF BlobInv, QueueOk
<1>3. QueueOk'
  BY <1>1 DEF BlobInv, QueueOk, ItemOk
<1>4. \A s \in Snaps : worker.transport => (Pending(s) => Pending(s)')
  BY <1>1, <1>2 DEF Pending
<1> QED
  BY <1>1, <1>2, <1>3, <1>4 DEF BlobInv, BlobOk

\* Taking the head of what is to be uploaded leaves the others and their order.
LEMMA HeadTaken ==
    ASSUME BlobInv, worker.pc = "upload", worker.pending # <<>>,
           worker'.pending = Tail(worker.pending)
    PROVE  /\ ItemOk(Head(worker.pending))
           /\ \A i \in DOMAIN worker'.pending :
                 \E j \in DOMAIN worker.pending : worker'.pending[i] = worker.pending[j]
           /\ \A i \in DOMAIN worker'.pending :
                 worker'.pending[i].snap # Head(worker.pending).snap
           /\ \A i, j \in DOMAIN worker'.pending :
                 worker'.pending[i].snap = worker'.pending[j].snap => i = j
           /\ \A j \in DOMAIN worker.pending :
                 worker.pending[j].snap # Head(worker.pending).snap =>
                    \E i \in DOMAIN worker'.pending : worker'.pending[i] = worker.pending[j]
           /\ \A i \in DOMAIN blobQ : blobQ[i].snap # Head(worker.pending).snap
<1>1. PICK q : q = worker.pending
  OBVIOUS
<1>2. PICK t : t = worker'.pending
  OBVIOUS
<1>3. /\ q \in Seq(QueueItems) /\ q # <<>> /\ t = Tail(q)
      /\ \A i, j \in DOMAIN q : q[i].snap = q[j].snap => i = j
      /\ \A i \in DOMAIN q : ItemOk(q[i])
      /\ \A i \in DOMAIN blobQ, j \in DOMAIN q : blobQ[i].snap # q[j].snap
  BY <1>1, <1>2, TickShape DEF BlobInv, QueueOk
<1>4. /\ 1 \in DOMAIN q /\ Head(q) = q[1]
      /\ \A i \in DOMAIN t : i + 1 \in DOMAIN q /\ i + 1 # 1 /\ i \in Nat /\ t[i] = q[i + 1]
      /\ \A j \in DOMAIN q \ {1} : j \in Nat /\ j - 1 \in DOMAIN t /\ (j - 1) + 1 = j
  BY <1>3, TailIndices
<1>5. ItemOk(Head(q)) /\ \A i \in DOMAIN blobQ : blobQ[i].snap # Head(q).snap
  BY <1>3, <1>4
<1>6. \A i \in DOMAIN t : \E j \in DOMAIN q : t[i] = q[j]
  BY <1>4
<1>7. \A i \in DOMAIN t : t[i].snap # Head(q).snap
  BY <1>3, <1>4
<1>8. \A i, j \in DOMAIN t : t[i].snap = t[j].snap => i = j
  <2> SUFFICES ASSUME NEW i \in DOMAIN t, NEW j \in DOMAIN t, t[i].snap = t[j].snap
               PROVE  i = j
    OBVIOUS
  <2>1. i + 1 = j + 1
    BY <1>3, <1>4
  <2> QED
    BY <1>4, <2>1
<1>9. \A j \in DOMAIN q : q[j].snap # Head(q).snap => \E i \in DOMAIN t : t[i] = q[j]
  <2> SUFFICES ASSUME NEW j \in DOMAIN q, q[j].snap # Head(q).snap
               PROVE  \E i \in DOMAIN t : t[i] = q[j]
    OBVIOUS
  <2>1. j \in DOMAIN q \ {1}
    BY <1>4
  <2>2. j - 1 \in DOMAIN t /\ t[j - 1] = q[j]
    BY <1>4, <2>1
  <2> QED
    BY <2>2
<1> QED
  BY <1>1, <1>2, <1>5, <1>6, <1>7, <1>8, <1>9

\* QueueOk of the queue and the items in hand after a step.
LEMMA QueueBy ==
    ASSUME NEW Q, NEW P, blobQ' = Q, worker'.pending = P, worker'.pc = "upload",
           \A i \in DOMAIN Q : ItemOk(Q[i])',
           \A i \in DOMAIN P : ItemOk(P[i])',
           \A i, j \in DOMAIN Q : Q[i].snap = Q[j].snap => i = j,
           \A i, j \in DOMAIN P : P[i].snap = P[j].snap => i = j,
           \A i \in DOMAIN Q, j \in DOMAIN P : Q[i].snap # P[j].snap
    PROVE  QueueOk'
<1>1. \A i \in DOMAIN blobQ' : ItemOk(blobQ[i])'
  BY DEF ItemOk
<1>2. \A i \in DOMAIN worker'.pending : ItemOk(worker.pending[i])'
  BY DEF ItemOk
<1> QED
  BY <1>1, <1>2 DEF QueueOk

LEMMA UploadFailsQueue ==
    ASSUME BlobInv, UploadFails
    PROVE  QueueOk' /\ \A s \in Snaps : BlobOk(s)'
<1> DEFINE item == Head(worker.pending)
<1>1. /\ worker.pc = "upload" /\ worker.pending # <<>> /\ worker'.pc = "upload"
      /\ worker'.pending = Tail(worker.pending)
      /\ worker'.uris = worker.uris /\ worker'.transport = worker.transport
      /\ tries' = [tries EXCEPT ![item.snap] = @ + 1]
      /\ UNCHANGED <<blobs, uri, uploaded, lostBlobs>>
  BY TickShape DEF UploadFails, BlobInv, losses
<1>2. HandleUploadFailure(item)
  BY DEF UploadFails
<1>3. PICK it : it = item
  OBVIOUS
<1>4. PICK Q : Q = blobQ
  OBVIOUS
<1>5. PICK P : P = worker'.pending
  OBVIOUS
<1>6. /\ ItemOk(it)
      /\ \A i \in DOMAIN P : P[i].snap # it.snap /\ ItemOk(P[i])
      /\ \A i, j \in DOMAIN P : P[i].snap = P[j].snap => i = j
      /\ \A j \in DOMAIN worker.pending : worker.pending[j].snap # it.snap =>
            \E i \in DOMAIN P : P[i] = worker.pending[j]
      /\ \A i \in DOMAIN Q : Q[i].snap # it.snap /\ ItemOk(Q[i])
      /\ \A i \in DOMAIN Q, j \in DOMAIN P : Q[i].snap # P[j].snap
      /\ \A i, j \in DOMAIN Q : Q[i].snap = Q[j].snap => i = j
  BY <1>1, <1>3, <1>4, <1>5, HeadTaken DEF BlobInv, QueueOk
<1>7. /\ tries \in [Snaps -> Nat] /\ it \in QueueItems /\ it.snap \in Snaps
      /\ it.attempts \in Nat /\ it.attempts = tries[it.snap] /\ it.attempts < MaxAttempts
      /\ it.snap \in blobs /\ it.snap \notin uploaded
      /\ MaxAttempts \in Nat /\ blobDrops \in Nat
      /\ P \in Seq(QueueItems)
  <2>1. P = Tail(worker.pending) /\ worker.pending \in Seq(QueueItems)
    BY <1>1, <1>5, TickShape DEF BlobInv
  <2> QED
    BY <1>1, <1>6, <2>1, HeadTailProperties, FlushAssumption
    DEF BlobInv, FlushType, ItemOk, QueueItems
<1>8. /\ tries'[it.snap] = it.attempts + 1
      /\ \A s \in Snaps : s # it.snap => tries'[s] = tries[s]
  BY <1>1, <1>3, <1>7
<1>9. /\ \A i \in DOMAIN P : ItemOk(P[i])' /\ P[i].snap # it.snap
      /\ \A i \in DOMAIN Q : ItemOk(Q[i])' /\ Q[i].snap # it.snap
  <2>1. ASSUME NEW x, ItemOk(x), x.snap # it.snap
        PROVE  ItemOk(x)'
    <3>1. x.snap \in Snaps /\ tries'[x.snap] = tries[x.snap]
      BY <1>8, <2>1 DEF ItemOk, QueueItems
    <3>2. blobs' = blobs /\ uploaded' = uploaded
      BY <1>1
    <3> QED
      BY <2>1, <3>1, <3>2 DEF ItemOk
  <2> QED
    BY <1>6, <2>1
<1>10. /\ QueueOk'
       /\ blobDrops' >= blobDrops /\ blobDrops' \in Nat
       /\ Pending(it.snap)' \/ blobDrops' > 0 \/ tries'[it.snap] = MaxAttempts
       /\ \A i \in DOMAIN Q : \E j \in DOMAIN blobQ' : blobQ'[j].snap = Q[i].snap
  <2>1. CASE it.attempts + 1 >= MaxAttempts
    <3>1. UNCHANGED queue
      BY <1>2, <1>3, <2>1 DEF HandleUploadFailure
    <3>2. blobQ' = Q /\ blobDrops' = blobDrops
      BY <1>4, <3>1 DEF queue
    <3>3. QueueOk'
      <4>1. blobQ' = Q /\ worker'.pending = P /\ worker'.pc = "upload"
        BY <1>1, <1>5, <3>2
      <4> QED
        BY <1>6, <1>9, <4>1, QueueBy
    <3>4. tries'[it.snap] = MaxAttempts
      BY <1>7, <1>8, <2>1
    <3> QED
      BY <1>7, <3>2, <3>3, <3>4
  <2>2. CASE ~ (it.attempts + 1 >= MaxAttempts)
    <3>1. PICK again : again = [it EXCEPT !.attempts = @ + 1]
      OBVIOUS
    <3>2. /\ it = [snap |-> it.snap, attempts |-> it.attempts]
          /\ it.snap \in Snaps /\ it.attempts \in 0..MaxAttempts
      BY <1>7 DEF QueueItems
    <3>3. it.attempts + 1 \in 0..MaxAttempts
      BY <1>7, <2>2
    <3>4. again = [snap |-> it.snap, attempts |-> it.attempts + 1]
      BY <3>1, <3>2
    <3>5. again \in QueueItems /\ again.snap = it.snap /\ again.attempts = it.attempts + 1
      BY <3>2, <3>3, <3>4 DEF QueueItems
    <3>6. Enqueue(again)
      BY <1>2, <1>3, <2>2, <3>1 DEF HandleUploadFailure
    <3>7. ItemOk(again)'
      BY <1>1, <1>7, <1>8, <2>2, <3>5 DEF ItemOk
    <3>8. /\ QueueOk'
          /\ blobDrops' >= blobDrops /\ blobDrops' \in Nat
          /\ \/ \E i \in DOMAIN blobQ' : blobQ'[i].snap = again.snap
             \/ blobDrops' > 0
          /\ \A i \in DOMAIN Q : \E j \in DOMAIN blobQ' : blobQ'[j].snap = Q[i].snap
      <4>1. /\ \A i \in DOMAIN Q : ItemOk(Q[i])' /\ Q[i].snap # again.snap
            /\ \A i \in DOMAIN P : ItemOk(P[i])' /\ P[i].snap # again.snap
        BY <1>9, <3>5
      <4>2. /\ \A i, j \in DOMAIN P : P[i].snap = P[j].snap => i = j
            /\ \A i \in DOMAIN Q, j \in DOMAIN P : Q[i].snap # P[j].snap
        BY <1>6
      <4>3. P \in Seq(QueueItems) /\ (worker'.pc # "upload" => P = <<>>)
        BY <1>1, <1>7
      <4>4. again \in QueueItems
        BY <3>5
      <4> QED
        BY <1>4, <1>5, <3>6, <3>7, <4>1, <4>2, <4>3, <4>4, EnqueueOk
    <3> QED
      BY <3>5, <3>8 DEF Pending
  <2> QED
    BY <2>1, <2>2
<1>11. ASSUME NEW s \in Snaps PROVE BlobOk(s)'
  <2>1. BlobOk(s)
    BY DEF BlobInv
  <2>2. s # it.snap => (Pending(s) => Pending(s)')
    <3> SUFFICES ASSUME s # it.snap, Pending(s) PROVE Pending(s)'
      OBVIOUS
    <3>1. CASE \E i \in DOMAIN Q : Q[i].snap = s
      BY <1>10, <3>1 DEF Pending
    <3>2. CASE \E i \in DOMAIN worker.pending : worker.pending[i].snap = s
      BY <1>5, <1>6, <3>2 DEF Pending
    <3> QED
      BY <1>4, <3>1, <3>2 DEF Pending
  <2>3. blobDrops > 0 => blobDrops' > 0
    BY <1>7, <1>10
  <2> QED
    BY <1>1, <1>7, <1>8, <1>10, <2>1, <2>2, <2>3 DEF BlobOk
<1> QED
  BY <1>10, <1>11

LEMMA UploadSucceedsQueue ==
    ASSUME BlobInv, UploadSucceeds
    PROVE  QueueOk' /\ \A s \in Snaps : BlobOk(s)'
<1> DEFINE item == Head(worker.pending)
<1>1. /\ worker.pc = "upload" /\ worker.pending # <<>> /\ worker'.pc = "upload"
      /\ worker'.pending = Tail(worker.pending)
      /\ worker'.uris = worker.uris \cup {item.snap}
      /\ worker'.transport = worker.transport
      /\ tries' = [tries EXCEPT ![item.snap] = @ + 1]
      /\ uploaded' = uploaded \cup {item.snap}
      /\ UNCHANGED <<blobQ, blobDrops, blobs, uri, lostBlobs>>
  BY TickShape DEF UploadSucceeds, BlobInv, losses, queue
<1>2. PICK it : it = item
  OBVIOUS
<1>3. PICK Q : Q = blobQ
  OBVIOUS
<1>4. PICK P : P = worker'.pending
  OBVIOUS
<1>5. /\ ItemOk(it)
      /\ \A i \in DOMAIN P : P[i].snap # it.snap /\ ItemOk(P[i])
      /\ \A i, j \in DOMAIN P : P[i].snap = P[j].snap => i = j
      /\ \A j \in DOMAIN worker.pending : worker.pending[j].snap # it.snap =>
            \E i \in DOMAIN P : P[i] = worker.pending[j]
      /\ \A i \in DOMAIN Q : Q[i].snap # it.snap /\ ItemOk(Q[i])
      /\ \A i \in DOMAIN Q, j \in DOMAIN P : Q[i].snap # P[j].snap
      /\ \A i, j \in DOMAIN Q : Q[i].snap = Q[j].snap => i = j
  BY <1>1, <1>2, <1>3, <1>4, HeadTaken DEF BlobInv, QueueOk
<1>6. /\ tries \in [Snaps -> Nat] /\ it \in QueueItems /\ it.snap \in Snaps
      /\ it.attempts = tries[it.snap] /\ it.attempts < MaxAttempts
      /\ it.snap \in blobs /\ MaxAttempts \in Nat
  BY <1>5, FlushAssumption DEF BlobInv, FlushType, ItemOk, QueueItems
<1>7. /\ tries'[it.snap] = tries[it.snap] + 1
      /\ \A s \in Snaps : s # it.snap => tries'[s] = tries[s]
  BY <1>1, <1>2, <1>6
<1>8. /\ \A i \in DOMAIN P : ItemOk(P[i])'
      /\ \A i \in DOMAIN Q : ItemOk(Q[i])'
  <2>1. ASSUME NEW x, ItemOk(x), x.snap # it.snap
        PROVE  ItemOk(x)'
    <3>1. x.snap \in Snaps /\ tries'[x.snap] = tries[x.snap]
      BY <1>7, <2>1 DEF ItemOk, QueueItems
    <3>2. blobs' = blobs /\ x.snap \notin uploaded'
      BY <1>1, <1>2, <2>1 DEF ItemOk
    <3> QED
      BY <2>1, <3>1, <3>2 DEF ItemOk
  <2> QED
    BY <1>5, <2>1
<1>9. QueueOk'
  <2>1. blobQ' = Q /\ worker'.pending = P /\ worker'.pc = "upload"
    BY <1>1, <1>3, <1>4
  <2> QED
    BY <1>5, <1>8, <2>1, QueueBy
<1>10. ASSUME NEW s \in Snaps PROVE BlobOk(s)'
  <2>1. BlobOk(s)
    BY DEF BlobInv
  <2>2. s # it.snap => (Pending(s) => Pending(s)')
    BY <1>1, <1>4, <1>5 DEF Pending
  <2> QED
    BY <1>1, <1>2, <1>6, <1>7, <2>1, <2>2 DEF BlobOk
<1> QED
  BY <1>9, <1>10

LEMMA ApplyUrisQueue ==
    ASSUME BlobInv, ApplyUris
    PROVE  QueueOk' /\ \A s \in Snaps : BlobOk(s)'
<1>1. /\ worker.pending = <<>> /\ worker'.pending = <<>> /\ worker'.uris = {}
      /\ worker'.transport = worker.transport
      /\ uri' = [s \in Snaps |-> IF s \in worker.hand \cap worker.uris THEN "remote"
                                 ELSE uri[s]]
      /\ UNCHANGED <<blobQ, blobDrops, blobs, tries, uploaded, lostBlobs>>
  BY TickShape DEF ApplyUris, BlobInv, losses, queue, uploads
<1>2. QueueOk'
  BY <1>1 DEF BlobInv, QueueOk, ItemOk
<1>3. \A s \in Snaps : Pending(s)' <=> Pending(s)
  BY <1>1 DEF Pending
<1> QED
  BY <1>1, <1>2, <1>3 DEF BlobInv, BlobOk

LEMMA WorkerDiesQueue ==
    ASSUME BlobInv, WorkerDies
    PROVE  QueueOk' /\ \A s \in Snaps : BlobOk(s)'
<1>1. /\ worker'.pending = <<>> /\ worker'.uris = {}
      /\ worker'.transport \in {worker.transport, FALSE}
      /\ lostBlobs' = lostBlobs \cup {worker.pending[i].snap : i \in DOMAIN worker.pending}
      /\ UNCHANGED <<blobQ, blobDrops, blobs, uri, tries, uploaded>>
  BY DEF WorkerDies, NoTick, queue, uploads
<1>2. QueueOk'
  BY <1>1 DEF BlobInv, QueueOk, ItemOk
<1>3. \A s \in Snaps : Pending(s) => Pending(s)' \/ s \in lostBlobs'
  BY <1>1 DEF Pending
<1> QED
  BY <1>1, <1>2, <1>3 DEF BlobInv, BlobOk

LEMMA BlobInit == Init => BlobInv
<1> SUFFICES ASSUME Init PROVE BlobInv
  OBVIOUS
<1>1. /\ blobQ = <<>> /\ worker.pending = <<>> /\ worker.uris = {}
  BY DEF Init, NoTick
<1> QED
  BY <1>1, FlushTypeInit, FlushAssumption DEF Init, BlobInv, QueueOk, BlobOk

LEMMA BlobStep == BlobInv /\ [Next]_vars => BlobInv'
<1> SUFFICES ASSUME BlobInv, [Next]_vars PROVE QueueOk' /\ \A s \in Snaps : BlobOk(s)'
  BY FlushTypeStep DEF BlobInv
<1>1. CASE WorkerStep
  <2>1. CASE TickBlobs \/ UploadFails \/ UploadSucceeds \/ ApplyUris
    BY <2>1, TickBlobsQueue, UploadFailsQueue, UploadSucceedsQueue, ApplyUrisQueue
  <2>2. CASE TickSpans \/ TickSnaps
    <3>1. /\ worker'.pending = worker.pending /\ worker'.uris = worker.uris
          /\ worker'.transport = worker.transport /\ worker.pc # "upload"
          /\ UNCHANGED <<blobQ, blobDrops, blobs, uri, tries, uploaded, lostBlobs>>
      BY <2>2, TickShape DEF BlobInv, TickSpans, TickSnaps, queue, uploads, losses
    <3> QED
      BY <3>1, BlobQuiet DEF BlobInv, QueueOk
  <2>3. CASE TickTrace \/ TickSink
    <3>1. /\ worker'.pending = worker.pending /\ worker'.uris = worker.uris
          /\ worker'.transport = worker.transport /\ worker.pc # "upload"
          /\ UNCHANGED <<blobQ, blobDrops, blobs, uri, tries, uploaded, lostBlobs>>
      BY <2>3, TickShape DEF BlobInv, TickTrace, TickSink, queue, uploads, losses
    <3> QED
      BY <3>1, BlobQuiet DEF BlobInv, QueueOk
  <2>4. CASE TickSend \/ WorkerExits
    <3>1. /\ worker'.pending = worker.pending /\ worker'.uris = worker.uris
          /\ worker'.transport = worker.transport /\ worker.pc # "upload"
          /\ UNCHANGED <<blobQ, blobDrops, blobs, uri, tries, uploaded, lostBlobs>>
      BY <2>4, TickShape DEF BlobInv, TickSend, WorkerExits, queue, uploads, losses
    <3> QED
      BY <3>1, BlobQuiet DEF BlobInv, QueueOk
  <2> QED
    BY <1>1, <2>1, <2>2, <2>3, <2>4 DEF WorkerStep
<1>2. CASE WorkerDies
  BY <1>2, WorkerDiesQueue
<1>3. CASE Produce
  <2>1. setup.snaps \subseteq Snaps
    BY DEF BlobInv, FlushType, Circumstances
  <2>2. ASSUME NEW s, CloseSpan(s) \/ CaptureRecord(s)
        PROVE  UNCHANGED <<blobQ, blobDrops, blobs, uri, tries, uploaded, lostBlobs, worker>>
    BY <2>2 DEF CloseSpan, CaptureRecord, queue, uploads, losses
  <2> QED
    BY <1>3, <2>1, <2>2, BlobQuiet, CaptureBlobQueue DEF Produce, BlobInv, QueueOk
<1>4. ASSUME NEW c \in setup.callers, CallBegin(c) \/ CallerStep(c)
      PROVE  QueueOk' /\ \A s \in Snaps : BlobOk(s)'
  <2>1. UNCHANGED <<blobQ, blobDrops, blobs, uri, tries, uploaded, lostBlobs, worker>>
    BY <1>4 DEF CallBegin, CallerStep, CallSpans, CallSnaps, CallTrace, CallSink, CallStop,
                CallJoin, queue, uploads, losses
  <2> QED
    BY <2>1, BlobQuiet DEF BlobInv, QueueOk
<1>5. CASE UNCHANGED vars
  <2>1. UNCHANGED <<blobQ, blobDrops, blobs, uri, tries, uploaded, lostBlobs, worker>>
    BY <1>5 DEF vars
  <2> QED
    BY <2>1, BlobQuiet DEF BlobInv, QueueOk
<1> QED
  BY <1>1, <1>2, <1>3, <1>4, <1>5 DEF Next

\* A blob is uploaded at most once and tried at most MAX_BLOB_ATTEMPTS times; until then it
\* is pending, or what became of it is on record; a remote URI points at an uploaded blob.
THEOREM BlobsAccounted == Spec => []BlobAccounted
<1>1. BlobInv => BlobAccounted
  <2> SUFFICES ASSUME BlobInv, NEW s \in Snaps
               PROVE  /\ uri[s] = "remote" => s \in uploaded
                      /\ tries[s] <= MaxAttempts
                      /\ s \in uploaded => ~ Pending(s)
                      /\ s \in blobs /\ ~ Pending(s) =>
                            \/ s \in uploaded
                            \/ tries[s] = MaxAttempts
                            \/ blobDrops > 0 \/ s \in lostBlobs \/ ~ worker.transport
    BY DEF BlobAccounted
  <2>1. s \in uploaded => ~ Pending(s)
    BY DEF BlobInv, QueueOk, ItemOk, Pending
  <2> QED
    BY <2>1 DEF BlobInv, BlobOk
<1> QED
  BY <1>1, BlobInit, BlobStep, PTL DEF Spec
================================================================================
