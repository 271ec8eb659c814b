----------------------------- MODULE TraceBuffer -----------------------------
(***************************************************************************)
(* core/mark.py and core/trace_buffer.py: a thread opens and closes spans  *)
(* and marks the innermost one; marks go through a ring per thread, spans  *)
(* through the deque of ScopeStack, which is not bounded here; a tick      *)
(* drains the spans first, then the marks, and adds both to the buffer     *)
(* that ci.trace() reads, under caps on spans and on marks per span.       *)
(***************************************************************************)
EXTENDS Naturals, Sequences, FiniteSets, SequencesExt

CONSTANTS Spans,       \* 1..n, opened in this order
          Fallback,    \* the span of a mark outside of every scope: the session root
          RingCap,     \* capacity of the MarkBuffer
          MaxSpans,    \* trace_buffer_max_spans
          MaxMarks,    \* max_marks_per_span
          MarkLimit    \* bound: marks in a behaviour

ASSUME BufferAssumption ==
    /\ RingCap \in Nat \ {0} /\ MaxSpans \in Nat \ {0} /\ MaxMarks \in Nat \ {0}
    /\ MarkLimit \in Nat /\ Fallback \notin Spans

VARIABLES
    open,       \* the scopes on the thread's stack
    opened,     \* how many spans were opened
    closed,     \* the deque of closed spans
    marking,    \* the ci.mark() in progress, after its test of the ring: at most one
    ring,       \* the deque of marks
    dropCount,  \* drop_count of the ring
    tick,       \* what the tick has drained
    spans,      \* _TraceBuffer._spans
    rows,       \* _TraceBuffer._marks: per span id, {} when there is no row
    made,       \* history: marks made so far
    added,      \* history: the marks of every batch, in order
    evicted     \* history: spans that aged out

bufferVars == <<open, opened, closed, marking, ring, dropCount, tick, spans, rows, made, added, evicted>>

Ids  == Spans \cup {Fallback}
Idle == [pc |-> "idle", spans |-> <<>>, marks |-> <<>>]

BufferInit ==
    /\ open = <<>> /\ opened = 0 /\ closed = <<>>
    /\ marking = <<>> /\ ring = <<>> /\ dropCount = 0
    /\ tick = Idle
    /\ spans = <<>> /\ rows = [s \in Ids |-> {}]
    /\ made = 0 /\ added = <<>> /\ evicted = {}

-------------------------------------------------------------------------------
(* The thread *)

Open ==
    /\ marking = <<>> /\ opened + 1 \in Spans
    /\ opened' = opened + 1
    /\ open' = Append(open, opened + 1)
    /\ UNCHANGED <<closed, marking, ring, dropCount, tick, spans, rows, made, added, evicted>>

Close ==
    /\ marking = <<>> /\ open # <<>>
    /\ open' = Front(open)
    /\ closed' = Append(closed, Last(open))
    /\ UNCHANGED <<opened, marking, ring, dropCount, tick, spans, rows, made, added, evicted>>

\* ci.mark(): the span id and the test of the ring, then the append.
Mark(kind) ==
    /\ marking = <<>> /\ made < MarkLimit
    /\ made' = made + 1
    /\ marking' = <<[n |-> made + 1, kind |-> kind,
                     span |-> IF open = <<>> THEN Fallback ELSE Last(open)]>>
    /\ dropCount' = IF Len(ring) = RingCap THEN dropCount + 1 ELSE dropCount
    /\ UNCHANGED <<open, opened, closed, ring, tick, spans, rows, added, evicted>>

MarkAppend ==
    /\ marking # <<>>
    /\ ring' = LET q == ring \o marking
               IN  IF Len(q) > RingCap THEN Tail(q) ELSE q
    /\ marking' = <<>>
    /\ UNCHANGED <<open, opened, closed, dropCount, tick, spans, rows, made, added, evicted>>

-------------------------------------------------------------------------------
(* The tick *)

\* _tick_body: the spans first, then the marks.
DrainSpans ==
    /\ tick.pc = "idle" /\ (closed # <<>> \/ ring # <<>>)
    /\ tick' = [tick EXCEPT !.pc = "spans", !.spans = closed]
    /\ closed' = <<>>
    /\ UNCHANGED <<open, opened, marking, ring, dropCount, spans, rows, made, added, evicted>>

\* MarkBuffer.drain_all: popleft until the ring is empty.
DrainMarks ==
    /\ tick.pc = "spans"
    /\ tick' = [tick EXCEPT !.pc = "built", !.marks = ring]
    /\ ring' = <<>>
    /\ UNCHANGED <<open, opened, closed, marking, dropCount, spans, rows, made, added, evicted>>

Newest(q, n) == IF Len(q) <= n THEN q ELSE SubSeq(q, Len(q) - n + 1, Len(q))

NewerPoints(m, bucket) == {p \in bucket : p.kind = "point" /\ p.n > m.n}

\* Faulty: counts the summaries against the cap.
CapAll(bucket) == {m \in bucket : Cardinality({p \in bucket : p.n > m.n}) < MaxMarks}

\* _cap_marks_locked: every summary, then the newest points.
CapMarks(bucket) ==
    {m \in bucket : m.kind = "summary" \/ Cardinality(NewerPoints(m, bucket)) < MaxMarks}

MarksOf(q, s) == {m \in ToSet(q) : m.span = s}

\* The rows after the marks of a batch are added to them.  The code caps a row after
\* each mark; the marks come in order, so that what one cap at the end keeps is the same.
Joined(batch) == [s \in Ids |-> CapMarks(rows[s] \cup MarksOf(batch.marks, s))]

\* Faulty: leaves the rows of the spans that age out.
AddBatchKeepingRows ==
    /\ tick.pc = "built"
    /\ spans' = Newest(spans \o tick.spans, MaxSpans)
    /\ evicted' = evicted \cup (ToSet(spans \o tick.spans) \ ToSet(spans'))
    /\ rows' = Joined(tick)
    /\ added' = added \o tick.marks
    /\ tick' = Idle
    /\ UNCHANGED <<open, opened, closed, marking, ring, dropCount, made>>

\* add_batch: spans, then marks, then the eviction of the oldest spans with their rows.
AddBatch ==
    /\ tick.pc = "built"
    /\ spans' = Newest(spans \o tick.spans, MaxSpans)
    /\ evicted' = evicted \cup (ToSet(spans \o tick.spans) \ ToSet(spans'))
    /\ rows' = [s \in Ids |-> IF s \in evicted' \ evicted THEN {} ELSE Joined(tick)[s]]
    /\ added' = added \o tick.marks
    /\ tick' = Idle
    /\ UNCHANGED <<open, opened, closed, marking, ring, dropCount, made>>

Producer == Open \/ Close \/ MarkAppend \/ \E kind \in {"point", "summary"} : Mark(kind)

-------------------------------------------------------------------------------
(* Properties *)

\* What ci.trace() joins to a span that it returns, or that is still open: every
\* summary that was drained for it and the newest points, none of another span.
RowsAreNewestMarks ==
    \A s \in Ids \ evicted :
        LET q == MarksOf(added, s) IN
        /\ rows[s] \subseteq q
        /\ \A m \in q : m \in rows[s] <=>
              m.kind = "summary" \/ Cardinality(NewerPoints(m, q)) < MaxMarks

\* A span that has aged out has no row, so rows cannot pile up: the marks of a span
\* are drained with it or before it.
RowsAgeOutWithSpans == \A s \in evicted : rows[s] = {}

\* A mark that reached no batch and is in neither the ring nor a tick was dropped,
\* and the drop was counted, also when a drain runs between the test and the append.
DropsCounted ==
    made - Len(added) - Len(tick.marks) - Len(ring) - Len(marking) <= dropCount

\* A mark is where a reader of the trace finds it, or was dropped and counted.
MarksAccounted == RowsAreNewestMarks /\ DropsCounted
==============================================================================
