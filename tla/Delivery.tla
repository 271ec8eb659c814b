------------------------------- MODULE Delivery -------------------------------
(***************************************************************************)
(* A flush worker between the marks and spans of a thread and the platform: *)
(* FlushThread._tick_body builds a batch, adds it to the trace buffer and  *)
(* posts it, with its retries, before the next tick drains anything.  What *)
(* post_batch returns is not acted on.                                     *)
(***************************************************************************)
EXTENDS TraceBuffer, IngestClient

VARIABLE ticks    \* batches built

vars == <<bufferVars, clientVars, ticks>>

Init == BufferInit /\ ClientInit /\ ticks = 0

Produce == Producer /\ UNCHANGED <<clientVars, ticks>>

\* A tick with nothing in it builds no batch.
Drain ==
    /\ post = NoPost /\ ticks + 1 \in Batches
    /\ DrainSpans \/ DrainMarks
    /\ UNCHANGED <<clientVars, ticks>>

Send ==
    /\ post = NoPost /\ ticks + 1 \in Batches
    /\ AddBatch
    /\ PostBatch(ticks + 1)
    /\ ticks' = ticks + 1

Post == ClientStep /\ UNCHANGED <<bufferVars, ticks>>

Next == Produce \/ Drain \/ Send \/ Post

Spec == Init /\ [][Next]_vars /\ WF_vars(Drain \/ Send) /\ WF_vars(Post)

\* Whatever the platform answers, post_batch returns and the flush thread gets back
\* to draining: what the thread has closed reaches the buffer while batches are left.
TicksGoOn == (closed # <<>> /\ Batches # {}) ~> (closed = <<>> \/ ticks + 1 \notin Batches)

\* The platform holds the flush thread up for a bounded time only.
WorkerNotHeld == []HeldForBoundedTime /\ TicksGoOn
==============================================================================
