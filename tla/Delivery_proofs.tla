---------------------------- MODULE Delivery_proofs ----------------------------
(***************************************************************************)
(* Proofs about Delivery.  A batch is posted safely, however requests and  *)
(* answers are lost and attempts repeated, for any number of batches and   *)
(* retries; and the buffer that ci.trace() reads holds what it should, for *)
(* any number of spans and marks and any capacities.                       *)
(***************************************************************************)
EXTENDS Delivery, FiniteSetTheorems, SequenceTheorems, TLAPS

Outcomes == {"none", "ok", "refused", "retryable"}

\* The call in progress is for a batch that has no outcome yet.
PostOk ==
    /\ post = [batch |-> post.batch, attempt |-> post.attempt, sleep |-> post.sleep]
    /\ post.batch \in Batches \cup {0}
    /\ post.batch # 0 => result[post.batch] = "none"

\* The platform has ingested a batch exactly if it remembers the key of its attempts,
\* and it remembers the key of a batch that the client takes for delivered.
PlatformOk ==
    /\ ingested \in [Batches -> Nat]
    /\ \A b \in Batches : ingested[b] = IF <<b, 0>> \in seen THEN 1 ELSE 0
    /\ \A b \in Batches : result[b] = "ok" => <<b, 0>> \in seen

\* A refusal is an outcome.
RefusedOk == \A b \in refused : b \in Batches /\ result[b] = "refused"

PostInv == /\ result \in [Batches -> Outcomes]
           /\ PostOk /\ PlatformOk /\ RefusedOk

-------------------------------------------------------------------------------
(* The initial state *)

LEMMA InitPost == ClientInit => PostInv
  BY ClientAssumption DEF ClientInit, PostInv, PostOk, PlatformOk, RefusedOk, NoPost, Outcomes

-------------------------------------------------------------------------------
(* Steps of the client *)

\* A post begins with a batch that has no outcome.
LEMMA PostBatchStep ==
  ASSUME PostInv, NEW b \in Batches, PostBatch(b)
  PROVE  PostInv'
  BY DEF PostInv, PostOk, PlatformOk, RefusedOk, PostBatch, Outcomes

\* A request that reaches the platform keeps its books, whatever it answers.
LEMMA ReachesStep ==
  ASSUME PostInv, Attempting, NEW status, Reaches(status)
  PROVE  /\ ingested' \in [Batches -> Nat]
         /\ \A b \in Batches : ingested'[b] = IF <<b, 0>> \in seen' THEN 1 ELSE 0
         /\ \A b \in Batches : <<b, 0>> \in seen => <<b, 0>> \in seen'
         /\ status = 200 => <<post.batch, 0>> \in seen'
<1>1. post.batch \in Batches
  BY DEF PostInv, PostOk, Attempting
<1> QED
  BY <1>1 DEF PostInv, PlatformOk, Reaches, KeyOf

\* A call that finishes leaves the client free.
LEMMA FinishStep ==
  ASSUME PostInv, Attempting, NEW outcome \in Outcomes, Finish(outcome)
  PROVE  /\ result' \in [Batches -> Outcomes] /\ PostOk'
         /\ post.batch \in Batches /\ result'[post.batch] = outcome
         /\ \A b \in Batches : b # post.batch => result'[b] = result[b]
  BY DEF PostInv, PostOk, Attempting, Finish, NoPost

\* A call that goes on keeps its batch.
LEMMA RetryStep ==
  ASSUME PostInv, Attempting, NEW wait, RetryOrGiveUp(wait)
  PROVE  /\ result' \in [Batches -> Outcomes] /\ PostOk'
         /\ \A b \in Batches : result'[b] # "ok" \/ result'[b] = result[b]
         /\ \A b \in Batches : result[b] = "refused" => result'[b] = "refused"
<1>1. CASE Finish("retryable")
  <2>1. "retryable" \in Outcomes
    BY DEF Outcomes
  <2>2. result[post.batch] = "none"
    BY DEF PostInv, PostOk, Attempting
  <2> QED
    BY <1>1, <2>1, <2>2, FinishStep
<1>2. CASE post' = [post EXCEPT !.sleep = wait, !.attempt = @ + 1] /\ UNCHANGED result
  BY <1>2 DEF PostInv, PostOk
<1> QED
  BY <1>1, <1>2 DEF RetryOrGiveUp

\* The batches that were refused stay so when an attempt has another outcome.
LEMMA RefusedStays ==
  ASSUME PostInv, UNCHANGED refused,
         \A b \in Batches : result[b] = "refused" => result'[b] = "refused"
  PROVE  RefusedOk'
  BY DEF PostInv, RefusedOk

LEMMA AttemptLostStep ==
  ASSUME PostInv, NEW delivered \in BOOLEAN, AttemptLost(delivered)
  PROVE  PostInv'
<1>1. Attempting /\ RetryOrGiveUp(Backoff(post.attempt)) /\ UNCHANGED refused
  BY DEF AttemptLost
<1>2. /\ result' \in [Batches -> Outcomes] /\ PostOk'
      /\ \A b \in Batches : result'[b] # "ok" \/ result'[b] = result[b]
      /\ \A b \in Batches : result[b] = "refused" => result'[b] = "refused"
  BY <1>1, RetryStep
<1>3. /\ ingested' \in [Batches -> Nat]
      /\ \A b \in Batches : ingested'[b] = IF <<b, 0>> \in seen' THEN 1 ELSE 0
      /\ \A b \in Batches : <<b, 0>> \in seen => <<b, 0>> \in seen'
  <2>1. CASE Reaches(200)
    BY <1>1, <2>1, ReachesStep
  <2>2. CASE UNCHANGED <<seen, ingested>>
    BY <2>2 DEF PostInv, PlatformOk
  <2> QED
    BY <2>1, <2>2 DEF AttemptLost
<1>4. PlatformOk'
  BY <1>2, <1>3 DEF PostInv, PlatformOk
<1>5. RefusedOk'
  BY <1>1, <1>2, RefusedStays
<1> QED
  BY <1>2, <1>4, <1>5 DEF PostInv

LEMMA Attempt200Step ==
  ASSUME PostInv, Attempt200
  PROVE  PostInv'
<1>1. Attempting /\ Reaches(200) /\ Finish("ok") /\ UNCHANGED refused
  BY DEF Attempt200
<1>2. /\ ingested' \in [Batches -> Nat]
      /\ \A b \in Batches : ingested'[b] = IF <<b, 0>> \in seen' THEN 1 ELSE 0
      /\ \A b \in Batches : <<b, 0>> \in seen => <<b, 0>> \in seen'
      /\ <<post.batch, 0>> \in seen'
  BY <1>1, ReachesStep
<1>3. "ok" \in Outcomes
  BY DEF Outcomes
<1>4. /\ result' \in [Batches -> Outcomes] /\ PostOk'
      /\ post.batch \in Batches /\ result'[post.batch] = "ok"
      /\ \A b \in Batches : b # post.batch => result'[b] = result[b]
  BY <1>1, <1>3, FinishStep
<1>5. PlatformOk'
  BY <1>2, <1>4 DEF PostInv, PlatformOk
<1>6. result[post.batch] = "none"
  BY <1>1 DEF PostInv, PostOk, Attempting
<1>7. RefusedOk'
  BY <1>1, <1>4, <1>6, RefusedStays
<1> QED
  BY <1>4, <1>5, <1>7 DEF PostInv

LEMMA AttemptRefusedStep ==
  ASSUME PostInv, NEW status \in {304, 400, 401}, AttemptRefused(status)
  PROVE  PostInv'
<1>1. /\ Attempting /\ Reaches(status) /\ Finish("refused")
      /\ refused' = refused \cup {post.batch}
  BY DEF AttemptRefused
<1>2. /\ ingested' \in [Batches -> Nat]
      /\ \A b \in Batches : ingested'[b] = IF <<b, 0>> \in seen' THEN 1 ELSE 0
      /\ \A b \in Batches : <<b, 0>> \in seen => <<b, 0>> \in seen'
  BY <1>1, ReachesStep
<1>3. "refused" \in Outcomes
  BY DEF Outcomes
<1>4. /\ result' \in [Batches -> Outcomes] /\ PostOk'
      /\ post.batch \in Batches /\ result'[post.batch] = "refused"
      /\ \A b \in Batches : b # post.batch => result'[b] = result[b]
  BY <1>1, <1>3, FinishStep
<1>5. PlatformOk'
  BY <1>2, <1>4 DEF PostInv, PlatformOk
<1>6. RefusedOk'
  BY <1>1, <1>4 DEF PostInv, RefusedOk
<1> QED
  BY <1>4, <1>5, <1>6 DEF PostInv

LEMMA AttemptUnavailableStep ==
  ASSUME PostInv, NEW status \in {429, 500}, AttemptUnavailable(status)
  PROVE  PostInv'
<1>1. PICK wait : Attempting /\ Reaches(status) /\ RetryOrGiveUp(wait) /\ UNCHANGED refused
  BY DEF AttemptUnavailable
<1>2. /\ result' \in [Batches -> Outcomes] /\ PostOk'
      /\ \A b \in Batches : result'[b] # "ok" \/ result'[b] = result[b]
      /\ \A b \in Batches : result[b] = "refused" => result'[b] = "refused"
  BY <1>1, RetryStep
<1>3. /\ ingested' \in [Batches -> Nat]
      /\ \A b \in Batches : ingested'[b] = IF <<b, 0>> \in seen' THEN 1 ELSE 0
      /\ \A b \in Batches : <<b, 0>> \in seen => <<b, 0>> \in seen'
  BY <1>1, ReachesStep
<1>4. PlatformOk'
  BY <1>2, <1>3 DEF PostInv, PlatformOk
<1>5. RefusedOk'
  BY <1>1, <1>2, RefusedStays
<1> QED
  BY <1>2, <1>4, <1>5 DEF PostInv

LEMMA SleepStep ==
  ASSUME PostInv, Sleep
  PROVE  PostInv'
  BY DEF PostInv, PostOk, PlatformOk, RefusedOk, Sleep

LEMMA StutterStep ==
  ASSUME PostInv, UNCHANGED clientVars
  PROVE  PostInv'
  BY DEF PostInv, PostOk, PlatformOk, RefusedOk, clientVars

LEMMA NextStep ==
  ASSUME PostInv, [Next]_vars
  PROVE  PostInv'
<1>1. CASE Produce
  BY <1>1, StutterStep DEF Produce
<1>2. CASE Drain
  BY <1>2, StutterStep DEF Drain
<1>3. CASE Send
  BY <1>3, PostBatchStep DEF Send
<1>4. CASE Post
  <2>1. CASE \E delivered \in BOOLEAN : AttemptLost(delivered)
    BY <2>1, AttemptLostStep
  <2>2. CASE Attempt200
    BY <2>2, Attempt200Step
  <2>3. CASE \E status \in {304, 400, 401} : AttemptRefused(status)
    BY <2>3, AttemptRefusedStep
  <2>4. CASE \E status \in {429, 500} : AttemptUnavailable(status)
    BY <2>4, AttemptUnavailableStep
  <2>5. CASE Sleep
    BY <2>5, SleepStep
  <2> QED
    BY <1>4, <2>1, <2>2, <2>3, <2>4, <2>5 DEF Post, ClientStep, Attempt
<1>5. CASE UNCHANGED vars
  BY <1>5, StutterStep DEF vars
<1> QED
  BY <1>1, <1>2, <1>3, <1>4, <1>5 DEF Next

-------------------------------------------------------------------------------
(* Theorems *)

LEMMA InvSafe ==
  ASSUME PostInv
  PROVE  RetriesSafe
<1>1. ASSUME NEW b \in Batches
      PROVE  ingested[b] <= 1 /\ (result[b] = "ok" => ingested[b] = 1)
  <2>1. ingested[b] = IF <<b, 0>> \in seen THEN 1 ELSE 0
    BY DEF PostInv, PlatformOk
  <2>2. result[b] = "ok" => <<b, 0>> \in seen
    BY DEF PostInv, PlatformOk
  <2> QED
    BY <2>1, <2>2
<1>2. RefusalIsFinal
  BY ClientAssumption DEF PostInv, PostOk, RefusedOk, RefusalIsFinal
<1> QED
  BY <1>1, <1>2 DEF RetriesSafe, IngestedOnce

\* IngestClient.post_batch tries again under one batch id: whatever is lost, the platform
\* ingests a batch once at most, has what the client takes for delivered, and is not
\* asked again for what it has refused.
THEOREM PostsSafely == Spec => []RetriesSafe
<1>1. Init => PostInv
  BY InitPost DEF Init
<1>2. PostInv /\ [Next]_vars => PostInv'
  BY NextStep
<1>3. PostInv => RetriesSafe
  BY InvSafe
<1> QED
  BY <1>1, <1>2, <1>3, PTL DEF Spec

-------------------------------------------------------------------------------
(* Sequences as sets *)

LEMMA ToSetEmpty == ToSet(<<>>) = {}
  BY DEF ToSet

LEMMA ToSetOf ==
  ASSUME NEW S, NEW q \in Seq(S)
  PROVE  ToSet(q) = {q[i] : i \in 1..Len(q)} /\ ToSet(q) \subseteq S
  BY DEF ToSet

LEMMA ToSetConcat ==
  ASSUME NEW S, NEW q \in Seq(S), NEW r \in Seq(S)
  PROVE  q \o r \in Seq(S) /\ ToSet(q \o r) = ToSet(q) \cup ToSet(r)
<1> DEFINE c == q \o r
<1>1. /\ c \in Seq(S) /\ Len(c) = Len(q) + Len(r) /\ Len(q) \in Nat /\ Len(r) \in Nat
      /\ \A i \in 1..(Len(q) + Len(r)) : c[i] = IF i <= Len(q) THEN q[i] ELSE r[i - Len(q)]
  BY ConcatProperties
<1> HIDE DEF c
<1>2. ASSUME NEW i \in 1..Len(c)
      PROVE  c[i] \in ToSet(q) \cup ToSet(r)
  <2>1. CASE i <= Len(q)
    <3>1. i \in 1..Len(q) /\ c[i] = q[i]
      BY <1>1, <2>1
    <3> QED
      BY <3>1, ToSetOf
  <2>2. CASE ~(i <= Len(q))
    <3>1. i - Len(q) \in 1..Len(r) /\ c[i] = r[i - Len(q)]
      BY <1>1, <2>2
    <3> QED
      BY <3>1, ToSetOf
  <2> QED
    BY <2>1, <2>2
<1>3. \A i \in 1..Len(q) : i \in 1..Len(c) /\ c[i] = q[i]
  BY <1>1
<1>4. ASSUME NEW i \in 1..Len(r)
      PROVE  i + Len(q) \in 1..Len(c) /\ c[i + Len(q)] = r[i]
  <2>1. /\ i + Len(q) \in 1..(Len(q) + Len(r)) /\ ~(i + Len(q) <= Len(q))
        /\ (i + Len(q)) - Len(q) = i
    BY <1>1
  <2> QED
    BY <1>1, <2>1
<1>5. ToSet(c) = {c[i] : i \in 1..Len(c)}
  BY <1>1, ToSetOf
<1>6. ToSet(q) \subseteq ToSet(c)
  BY <1>3, <1>5, ToSetOf
<1>7. ToSet(r) \subseteq ToSet(c)
  BY <1>4, <1>5, ToSetOf
<1> QED
  BY <1>1, <1>2, <1>5, <1>6, <1>7 DEF c

LEMMA ToSetAppend ==
  ASSUME NEW S, NEW q \in Seq(S), NEW x \in S
  PROVE  /\ Append(q, x) \in Seq(S) /\ ToSet(Append(q, x)) = ToSet(q) \cup {x}
         /\ Len(Append(q, x)) = Len(q) + 1 /\ Append(q, x)[Len(q) + 1] = x /\ Len(q) \in Nat
         /\ \A i \in 1..Len(q) : Append(q, x)[i] = q[i]
<1> DEFINE r == Append(q, x)
<1>1. /\ r \in Seq(S) /\ Len(r) = Len(q) + 1 /\ Len(q) \in Nat /\ r[Len(q) + 1] = x
      /\ \A i \in 1..Len(q) : r[i] = q[i]
  BY AppendProperties
<1> HIDE DEF r
<1>2. 1..Len(r) = 1..Len(q) \cup {Len(q) + 1}
  BY <1>1
<1>3. ToSet(r) = {r[i] : i \in 1..Len(r)} /\ ToSet(q) = {q[i] : i \in 1..Len(q)}
  BY <1>1, ToSetOf
<1>4. ToSet(r) = ToSet(q) \cup {x}
  BY <1>1, <1>2, <1>3
<1> QED
  BY <1>1, <1>4 DEF r

LEMMA ToSetOne ==
  ASSUME NEW S, NEW x \in S
  PROVE  <<x>> \in Seq(S) /\ Len(<<x>>) = 1 /\ ToSet(<<x>>) = {x}
<1> DEFINE q == <<x>>
<1>1. q \in Seq(S) /\ Len(q) = 1 /\ q[1] = x
  OBVIOUS
<1> HIDE DEF q
<1>2. ToSet(q) = {q[i] : i \in 1..1}
  BY <1>1, ToSetOf
<1> QED
  BY <1>1, <1>2 DEF q

\* A part of a sequence holds elements of it only.
LEMMA ToSetPart ==
  ASSUME NEW S, NEW q \in Seq(S), NEW a \in Nat, NEW b \in Nat, 1 <= a, b <= Len(q), a <= b + 1
  PROVE  /\ SubSeq(q, a, b) \in Seq(S) /\ Len(SubSeq(q, a, b)) = b + 1 - a
         /\ ToSet(SubSeq(q, a, b)) \subseteq ToSet(q)
<1> DEFINE p == SubSeq(q, a, b)
<1>1. /\ p \in Seq(S) /\ Len(p) = b + 1 - a
      /\ \A i \in 1..(b + 1 - a) : p[i] = q[a + i - 1]
  BY SubSeqProperties
<1> HIDE DEF p
<1>2. ASSUME NEW i \in 1..Len(p)
      PROVE  p[i] \in ToSet(q)
  <2>1. Len(q) \in Nat /\ a + i - 1 \in 1..Len(q) /\ p[i] = q[a + i - 1]
    BY <1>1
  <2> QED
    BY <2>1, ToSetOf
<1>3. ToSet(p) = {p[i] : i \in 1..Len(p)}
  BY <1>1, ToSetOf
<1> QED
  BY <1>1, <1>2, <1>3 DEF p

LEMMA ToSetTail ==
  ASSUME NEW S, NEW q \in Seq(S), q # <<>>
  PROVE  Tail(q) \in Seq(S) /\ Len(Tail(q)) = Len(q) - 1 /\ ToSet(Tail(q)) \subseteq ToSet(q)
<1>1. /\ Tail(q) \in Seq(S) /\ Len(Tail(q)) = Len(q) - 1 /\ Len(q) \in Nat
      /\ \A i \in 1..Len(Tail(q)) : Tail(q)[i] = q[i + 1]
  BY HeadTailProperties
<1> DEFINE r == Tail(q)
<1> HIDE DEF r
<1>2. ASSUME NEW i \in 1..Len(r)
      PROVE  r[i] \in ToSet(q)
  <2>1. i + 1 \in 1..Len(q) /\ r[i] = q[i + 1]
    BY <1>1 DEF r
  <2> QED
    BY <2>1, ToSetOf
<1>3. ToSet(r) = {r[i] : i \in 1..Len(r)}
  BY <1>1, ToSetOf DEF r
<1> QED
  BY <1>1, <1>2, <1>3 DEF r

LEMMA ToSetFinite ==
  ASSUME NEW S, NEW q \in Seq(S)
  PROVE  IsFiniteSet(ToSet(q))
<1> DEFINE f == [i \in 1..Len(q) |-> q[i]]
<1>1. Len(q) \in Nat /\ ToSet(q) = {q[i] : i \in 1..Len(q)}
  BY ToSetOf
<1>2. f \in Surjection(1..Len(q), ToSet(q))
  BY <1>1 DEF Surjection
<1>3. IsFiniteSet(1..Len(q))
  BY <1>1, FS_Interval
<1> HIDE DEF f
<1> QED
  BY <1>2, <1>3, FS_Surjection

\* Newest keeps a part of the sequence.
LEMMA NewestPart ==
  ASSUME NEW S, NEW q \in Seq(S), NEW n \in Nat
  PROVE  Newest(q, n) \in Seq(S) /\ ToSet(Newest(q, n)) \subseteq ToSet(q)
<1>1. Len(q) \in Nat
  OBVIOUS
<1>2. CASE Len(q) <= n
  BY <1>2 DEF Newest
<1>3. CASE ~(Len(q) <= n)
  <2>1. /\ Len(q) - n + 1 \in Nat /\ 1 <= Len(q) - n + 1
        /\ Len(q) <= Len(q) /\ Len(q) - n + 1 <= Len(q) + 1
    BY <1>1, <1>3
  <2>2. Newest(q, n) = SubSeq(q, Len(q) - n + 1, Len(q))
    BY <1>3 DEF Newest
  <2> QED
    BY <1>1, <2>1, <2>2, ToSetPart
<1> QED
  BY <1>2, <1>3

-------------------------------------------------------------------------------
(* The buffer *)

Marks == [n : Nat, kind : {"point", "summary"}, span : Ids]

BufferType ==
    /\ open \in Seq(Spans) /\ opened \in Nat /\ closed \in Seq(Spans)
    /\ marking \in Seq(Marks) /\ Len(marking) <= 1
    /\ ring \in Seq(Marks) /\ Len(ring) <= RingCap /\ dropCount \in Nat
    /\ tick \in [pc : {"idle", "spans", "built"}, spans : Seq(Spans), marks : Seq(Marks)]
    /\ tick.pc = "idle" => tick.spans = <<>>
    /\ tick.pc # "built" => tick.marks = <<>>
    /\ spans \in Seq(Spans) /\ rows \in [Ids -> SUBSET Marks]
    /\ made \in Nat /\ added \in Seq(Marks) /\ evicted \subseteq Spans

\* A full ring at an append in progress was full at its test.
DropsOk ==
    /\ DropsCounted
    /\ marking # <<>> /\ Len(ring) = RingCap =>
          made - Len(added) - Len(tick.marks) - Len(ring) - Len(marking) < dropCount

LEMMA InitBuffer == BufferInit => BufferType /\ DropsOk
<1> SUFFICES ASSUME BufferInit PROVE BufferType /\ DropsOk
  OBVIOUS
<1>1. \A S : <<>> \in Seq(S)
  OBVIOUS
<1>2. Len(<<>>) = 0
  OBVIOUS
<1>3. BufferType
  BY <1>1, <1>2, BufferAssumption DEF BufferInit, BufferType, Idle
<1>4. DropsOk
  BY <1>2, BufferAssumption DEF BufferInit, DropsOk, DropsCounted, Idle
<1> QED
  BY <1>3, <1>4

\* The newest span is the last of the stack.
LEMMA LastOpen ==
  ASSUME BufferType, open # <<>>
  PROVE  /\ Last(open) \in Spans /\ Last(open) \in ToSet(open)
         /\ Front(open) \in Seq(Spans) /\ ToSet(Front(open)) \subseteq ToSet(open)
         /\ Len(open) \in Nat /\ Len(open) >= 1 /\ Len(Front(open)) = Len(open) - 1
         /\ \A i \in 1..Len(Front(open)) : Front(open)[i] = open[i]
<1>1. open \in Seq(Spans) /\ Len(open) \in Nat /\ Len(open) >= 1
  BY DEF BufferType
<1>2. Last(open) = open[Len(open)] /\ Front(open) = SubSeq(open, 1, Len(open) - 1)
  BY DEF Last, Front
<1>3. Last(open) \in Spans /\ Last(open) \in ToSet(open)
  <2>1. Len(open) \in 1..Len(open)
    BY <1>1
  <2> QED
    BY <1>1, <1>2, <2>1, ToSetOf
<1>4. /\ Front(open) \in Seq(Spans) /\ Len(Front(open)) = Len(open) - 1
      /\ ToSet(Front(open)) \subseteq ToSet(open)
  <2>1. 1 \in Nat /\ Len(open) - 1 \in Nat /\ Len(open) - 1 <= Len(open) /\ 1 <= 1
        /\ 1 <= (Len(open) - 1) + 1 /\ (Len(open) - 1) + 1 - 1 = Len(open) - 1
    BY <1>1
  <2>2. PICK b : b = Len(open) - 1
    OBVIOUS
  <2> QED
    BY <1>1, <1>2, <2>1, <2>2, ToSetPart
<1>5. \A i \in 1..Len(Front(open)) : Front(open)[i] = open[i]
  BY <1>1, <1>2, <1>4
<1> QED
  BY <1>1, <1>3, <1>4, <1>5

LEMMA OpenType ==
  ASSUME BufferType, DropsOk, Open
  PROVE  BufferType' /\ DropsOk'
<1>1. open' \in Seq(Spans)
  BY DEF BufferType, Open
<1> QED
  BY <1>1 DEF BufferType, DropsOk, DropsCounted, Open

LEMMA CloseType ==
  ASSUME BufferType, DropsOk, Close
  PROVE  BufferType' /\ DropsOk'
<1>1. open' \in Seq(Spans) /\ Last(open) \in Spans
  BY LastOpen DEF Close
<1>2. closed' \in Seq(Spans)
  BY <1>1 DEF BufferType, Close
<1> QED
  BY <1>1, <1>2 DEF BufferType, DropsOk, DropsCounted, Close

LEMMA MarkType ==
  ASSUME BufferType, DropsOk, NEW kind \in {"point", "summary"}, Mark(kind)
  PROVE  BufferType' /\ DropsOk'
<1> DEFINE s == IF open = <<>> THEN Fallback ELSE Last(open)
           m == [n |-> made + 1, kind |-> kind, span |-> s]
<1>1. s \in Ids
  BY LastOpen DEF Ids
<1>2. marking' = <<m>>
  BY DEF Mark
<1> HIDE DEF s
<1>3. m \in Marks
  BY <1>1 DEF Marks, BufferType
<1> HIDE DEF m
<1>4. marking' \in Seq(Marks) /\ Len(marking') = 1
  BY <1>2, <1>3, ToSetOne
<1>5. Len(marking) = 0 /\ marking = <<>>
  BY DEF Mark
<1>6. dropCount' = IF Len(ring) = RingCap THEN dropCount + 1 ELSE dropCount
  BY DEF Mark
<1>7. UNCHANGED <<open, opened, closed, ring, tick, spans, rows, added, evicted>> /\ made' = made + 1
  BY DEF Mark
<1>8. BufferType'
  <2>1. dropCount' \in Nat
    BY <1>6 DEF BufferType
  <2> QED
    BY <1>4, <1>7, <2>1 DEF BufferType
<1>9. DropsOk'
  <2>1. PICK a \in Nat, k \in Nat, r \in Nat :
           a = Len(added) /\ k = Len(tick.marks) /\ r = Len(ring)
    BY DEF BufferType
  <2>2. made \in Nat /\ dropCount \in Nat /\ Len(marking) = 0
    BY <1>5 DEF BufferType
  <2>3. made - a - k - r <= dropCount
    <3>1. made - Len(added) - Len(tick.marks) - Len(ring) - Len(marking) <= dropCount
      BY DEF DropsOk, DropsCounted
    <3>2. made - a - k - r - 0 <= dropCount
      BY ONLY <2>1, <2>2, <3>1
    <3>3. made \in Nat /\ dropCount \in Nat
      BY ONLY <2>2
    <3> QED
      BY ONLY <3>2, <3>3
  <2>4. /\ made' = made + 1 /\ Len(added') = a /\ Len(tick'.marks) = k /\ Len(ring') = r
        /\ Len(marking') = 1
    BY <1>4, <1>7, <2>1
  <2>5. made' - a - k - r - 1 <= dropCount' /\ (r = RingCap => made' - a - k - r - 1 < dropCount')
    <3>1. RingCap \in Nat /\ made \in Nat /\ dropCount \in Nat
      BY <2>2, BufferAssumption
    <3>2. dropCount' = (IF r = RingCap THEN dropCount + 1 ELSE dropCount) /\ made' = made + 1
      BY <1>6, <2>1, <2>4
    <3> QED
      BY ONLY <2>3, <3>1, <3>2
  <2> QED
    BY <2>4, <2>5 DEF DropsOk, DropsCounted
<1> QED
  BY <1>8, <1>9

\* What an append does to the ring.
LEMMA Appended ==
  ASSUME BufferType, MarkAppend
  PROVE  /\ ring' \in Seq(Marks) /\ ToSet(ring') \subseteq ToSet(ring) \cup ToSet(marking)
         /\ Len(ring') = IF Len(ring) = RingCap THEN RingCap ELSE Len(ring) + 1
         /\ Len(marking) = 1 /\ marking' = <<>>
<1> DEFINE q == ring \o marking
<1>1. ring \in Seq(Marks) /\ marking \in Seq(Marks) /\ Len(marking) = 1 /\ Len(ring) \in Nat
      /\ Len(ring) <= RingCap /\ RingCap \in Nat
  <2>1. /\ ring \in Seq(Marks) /\ marking \in Seq(Marks) /\ Len(ring) <= RingCap
        /\ Len(marking) <= 1 /\ marking # <<>>
    BY DEF BufferType, MarkAppend
  <2>2. Len(marking) \in Nat /\ Len(marking) # 0
    BY <2>1, EmptySeq
  <2>3. Len(marking) = 1 /\ Len(ring) \in Nat
    BY ONLY <2>1, <2>2
  <2> QED
    BY <2>1, <2>3, BufferAssumption
<1>2. q \in Seq(Marks) /\ Len(q) = Len(ring) + 1 /\ ToSet(q) = ToSet(ring) \cup ToSet(marking)
  <2>1. Len(q) = Len(ring) + Len(marking)
    BY <1>1, ConcatProperties
  <2> QED
    BY <1>1, <2>1, ToSetConcat
<1>3. ring' = (IF Len(q) > RingCap THEN Tail(q) ELSE q) /\ marking' = <<>>
  BY DEF MarkAppend
<1> HIDE DEF q
<1>4. CASE Len(ring) = RingCap
  <2>1. ring' = Tail(q) /\ q # <<>> /\ Len(q) - 1 = RingCap
    BY <1>1, <1>2, <1>3, <1>4
  <2> QED
    BY <1>1, <1>2, <1>3, <1>4, <2>1, ToSetTail
<1>5. CASE Len(ring) # RingCap
  <2>1. ring' = q
    BY <1>1, <1>2, <1>3, <1>5
  <2> QED
    BY <1>1, <1>2, <1>3, <1>5, <2>1
<1> QED
  BY <1>4, <1>5

LEMMA MarkAppendType ==
  ASSUME BufferType, DropsOk, MarkAppend
  PROVE  BufferType' /\ DropsOk'
<1>1. /\ ring' \in Seq(Marks) /\ Len(marking) = 1 /\ marking' = <<>> /\ marking # <<>>
      /\ Len(ring') = IF Len(ring) = RingCap THEN RingCap ELSE Len(ring) + 1
  BY Appended DEF MarkAppend
<1>2. UNCHANGED <<open, opened, closed, dropCount, tick, spans, rows, made, added, evicted>>
  BY DEF MarkAppend
<1>3. /\ Len(added) \in Nat /\ Len(tick.marks) \in Nat /\ Len(ring) \in Nat /\ made \in Nat
      /\ dropCount \in Nat /\ Len(ring) <= RingCap /\ RingCap \in Nat
  BY BufferAssumption DEF BufferType
<1>4. marking' \in Seq(Marks) /\ Len(marking') = 0
  BY <1>1
<1>5. BufferType'
  BY <1>1, <1>2, <1>3, <1>4 DEF BufferType
<1>6. DropsOk'
  <2>1. PICK a \in Nat, k \in Nat, r \in Nat :
           a = Len(added) /\ k = Len(tick.marks) /\ r = Len(ring)
    BY <1>3
  <2>2. /\ made - a - k - r - 1 <= dropCount
        /\ r = RingCap => made - a - k - r - 1 < dropCount
    BY <1>1, <2>1 DEF DropsOk, DropsCounted
  <2>3. /\ made' = made /\ dropCount' = dropCount /\ Len(added') = a /\ Len(tick'.marks) = k
        /\ Len(ring') = (IF r = RingCap THEN RingCap ELSE r + 1) /\ Len(marking') = 0
    BY <1>1, <1>2, <1>4, <2>1
  <2>4. PICK x \in Nat : x = Len(ring')
    BY <1>3, <2>1, <2>3
  <2>5. made - a - k - x - 0 <= dropCount
    <3>1. made \in Nat /\ dropCount \in Nat /\ RingCap \in Nat
      BY <1>3
    <3> QED
      BY ONLY <2>2, <2>3, <2>4, <3>1
  <2> QED
    BY <1>1, <2>3, <2>4, <2>5 DEF DropsOk, DropsCounted
<1> QED
  BY <1>5, <1>6

LEMMA DrainSpansType ==
  ASSUME BufferType, DropsOk, DrainSpans
  PROVE  BufferType' /\ DropsOk'
<1>1. tick'.pc = "spans" /\ tick'.spans = closed /\ tick'.marks = tick.marks /\ tick.marks = <<>>
      /\ tick' \in [pc : {"idle", "spans", "built"}, spans : Seq(Spans), marks : Seq(Marks)]
  BY DEF BufferType, DrainSpans
<1>2. closed' \in Seq(Spans)
  BY DEF DrainSpans
<1>3. UNCHANGED <<open, opened, marking, ring, dropCount, spans, rows, made, added, evicted>>
  BY DEF DrainSpans
<1>4. BufferType'
  BY <1>1, <1>2, <1>3 DEF BufferType
<1>5. DropsOk'
  BY <1>1, <1>3 DEF DropsOk, DropsCounted
<1> QED
  BY <1>4, <1>5

LEMMA DrainMarksType ==
  ASSUME BufferType, DropsOk, DrainMarks
  PROVE  BufferType' /\ DropsOk'
<1>1. /\ tick'.pc = "built" /\ tick'.spans = tick.spans /\ tick'.marks = ring /\ tick.marks = <<>>
      /\ tick' \in [pc : {"idle", "spans", "built"}, spans : Seq(Spans), marks : Seq(Marks)]
  BY DEF BufferType, DrainMarks
<1>2. ring' = <<>> /\ ring' \in Seq(Marks) /\ Len(ring') = 0
  BY DEF DrainMarks
<1>3. UNCHANGED <<open, opened, closed, marking, dropCount, spans, rows, made, added, evicted>>
  BY DEF DrainMarks
<1>4. BufferType'
  BY <1>1, <1>2, <1>3, BufferAssumption DEF BufferType
<1>5. Len(tick.marks) = 0 /\ Len(ring) \in Nat /\ Len(added) \in Nat /\ made \in Nat /\ Len(marking) \in Nat
      /\ dropCount \in Nat /\ RingCap \in Nat /\ RingCap # 0
  BY <1>1, BufferAssumption DEF BufferType
<1>6. DropsOk'
  BY <1>1, <1>2, <1>3, <1>5 DEF DropsOk, DropsCounted
<1> QED
  BY <1>4, <1>6

LEMMA CapPart ==
  ASSUME NEW bucket
  PROVE  CapMarks(bucket) \subseteq bucket
  BY DEF CapMarks

\* What add_batch does to the buffer.
LEMMA Batched ==
  ASSUME BufferType, AddBatch
  PROVE  /\ spans' \in Seq(Spans) /\ ToSet(spans') \subseteq ToSet(spans) \cup ToSet(tick.spans)
         /\ evicted' = evicted \cup ((ToSet(spans) \cup ToSet(tick.spans)) \ ToSet(spans'))
         /\ ToSet(spans) \cup ToSet(tick.spans) \subseteq Spans
         /\ added' = added \o tick.marks /\ added' \in Seq(Marks)
         /\ ToSet(added') = ToSet(added) \cup ToSet(tick.marks)
         /\ rows' \in [Ids -> SUBSET Marks]
         /\ \A s \in Ids : rows'[s] = IF s \in evicted' \ evicted THEN {}
                                      ELSE CapMarks(rows[s] \cup MarksOf(tick.marks, s))
         /\ tick' = Idle /\ tick.pc = "built"
<1> DEFINE q == spans \o tick.spans
<1>1. /\ spans \in Seq(Spans) /\ tick.spans \in Seq(Spans) /\ tick.marks \in Seq(Marks)
      /\ added \in Seq(Marks) /\ rows \in [Ids -> SUBSET Marks] /\ MaxSpans \in Nat
  BY BufferAssumption DEF BufferType
<1>2. q \in Seq(Spans) /\ ToSet(q) = ToSet(spans) \cup ToSet(tick.spans) /\ ToSet(q) \subseteq Spans
  BY <1>1, ToSetConcat, ToSetOf
<1>3. /\ spans' = Newest(q, MaxSpans)
      /\ evicted' = evicted \cup (ToSet(q) \ ToSet(spans'))
      /\ rows' = [s \in Ids |-> IF s \in evicted' \ evicted THEN {} ELSE Joined(tick)[s]]
      /\ added' = added \o tick.marks /\ tick' = Idle /\ tick.pc = "built"
  BY DEF AddBatch
<1> HIDE DEF q
<1>4. spans' \in Seq(Spans) /\ ToSet(spans') \subseteq ToSet(q)
  BY <1>1, <1>2, <1>3, NewestPart
<1>5. added' \in Seq(Marks) /\ ToSet(added') = ToSet(added) \cup ToSet(tick.marks)
  BY <1>1, <1>3, ToSetConcat
<1>6. ASSUME NEW s \in Ids
      PROVE  /\ rows'[s] = IF s \in evicted' \ evicted THEN {}
                           ELSE CapMarks(rows[s] \cup MarksOf(tick.marks, s))
             /\ rows'[s] \subseteq Marks
  <2>1. MarksOf(tick.marks, s) \subseteq Marks /\ rows[s] \subseteq Marks
    BY <1>1, ToSetOf DEF MarksOf
  <2>2. CapMarks(rows[s] \cup MarksOf(tick.marks, s)) \subseteq Marks
    BY <2>1, CapPart
  <2>3. rows'[s] = IF s \in evicted' \ evicted THEN {}
                   ELSE CapMarks(rows[s] \cup MarksOf(tick.marks, s))
    BY <1>3 DEF Joined
  <2> QED
    BY <2>2, <2>3
<1>7. rows' \in [Ids -> SUBSET Marks]
  BY <1>3, <1>6
<1> QED
  BY <1>2, <1>3, <1>4, <1>5, <1>6, <1>7

LEMMA AddBatchType ==
  ASSUME BufferType, DropsOk, AddBatch
  PROVE  BufferType' /\ DropsOk'
<1>1. /\ spans' \in Seq(Spans) /\ added' = added \o tick.marks /\ added' \in Seq(Marks)
      /\ rows' \in [Ids -> SUBSET Marks] /\ tick' = Idle /\ evicted' \subseteq Spans
  <2>1. evicted \subseteq Spans
    BY DEF BufferType
  <2> QED
    BY <2>1, Batched
<1>2. UNCHANGED <<open, opened, closed, marking, ring, dropCount, made>>
  BY DEF AddBatch
<1>3. /\ tick'.pc = "idle" /\ tick'.spans = <<>> /\ tick'.marks = <<>> /\ Len(tick'.marks) = 0
      /\ tick' \in [pc : {"idle", "spans", "built"}, spans : Seq(Spans), marks : Seq(Marks)]
  <2>1. \A S : <<>> \in Seq(S)
    OBVIOUS
  <2> QED
    BY <1>1, <2>1 DEF Idle
<1>4. BufferType'
  BY <1>1, <1>2, <1>3 DEF BufferType
<1>5. DropsOk'
  <2>1. added \in Seq(Marks) /\ tick.marks \in Seq(Marks)
    BY DEF BufferType
  <2>2. Len(added') = Len(added) + Len(tick.marks)
    BY <1>1, <2>1, ConcatProperties
  <2>3. PICK a \in Nat, k \in Nat, r \in Nat, g \in Nat :
           a = Len(added) /\ k = Len(tick.marks) /\ r = Len(ring) /\ g = Len(marking)
    BY DEF BufferType
  <2>4. made \in Nat /\ dropCount \in Nat
    BY DEF BufferType
  <2>5. /\ made - a - k - r - g <= dropCount
        /\ marking # <<>> /\ r = RingCap => made - a - k - r - g < dropCount
    BY <2>3 DEF DropsOk, DropsCounted
  <2>6. made - (a + k) - 0 - r - g = made - a - k - r - g
    BY ONLY <2>4
  <2>7. /\ made' = made /\ dropCount' = dropCount /\ Len(added') = a + k /\ Len(tick'.marks) = 0
        /\ Len(ring') = r /\ Len(marking') = g /\ marking' = marking
    BY <1>2, <1>3, <2>2, <2>3
  <2> QED
    BY <2>5, <2>6, <2>7 DEF DropsOk, DropsCounted
<1> QED
  BY <1>4, <1>5

-------------------------------------------------------------------------------
(* Where the marks and the spans are *)

\* Marks reach the buffer in the order in which they were made: no drain, and no mark
\* that waits while one runs, gets ahead of another.
Ordered ==
    /\ \A m \in ToSet(added) \cup ToSet(tick.marks) \cup ToSet(ring) \cup ToSet(marking) : m.n <= made
    /\ \A m \in ToSet(added), p \in ToSet(tick.marks) \cup ToSet(ring) \cup ToSet(marking) : m.n < p.n
    /\ \A m \in ToSet(tick.marks), p \in ToSet(ring) \cup ToSet(marking) : m.n < p.n
    /\ \A m \in ToSet(ring), p \in ToSet(marking) : m.n < p.n

Distinct(q) == \A i, j \in 1..Len(q) : i < j => q[i] # q[j]

\* A span is open, or closed and not drained, or drained, or in the buffer or past it.
SpansApart ==
    /\ Distinct(open)
    /\ \A s \in ToSet(open) \cup ToSet(closed) \cup ToSet(tick.spans) \cup ToSet(spans) \cup evicted :
          s \in Nat /\ s <= opened
    /\ ToSet(open) \cap ToSet(closed) = {}
    /\ (ToSet(open) \cup ToSet(closed)) \cap (ToSet(tick.spans) \cup ToSet(spans) \cup evicted) = {}
    /\ (ToSet(tick.spans) \cup ToSet(spans)) \cap evicted = {}

\* A mark is never behind the span that it belongs to.
MarksAhead ==
    /\ \A m \in ToSet(marking) : m.span = Fallback \/ m.span \in ToSet(open)
    /\ \A m \in ToSet(ring) : \/ m.span = Fallback \/ m.span \in ToSet(open) \cup ToSet(closed)
                              \/ tick.pc = "spans" /\ m.span \in ToSet(tick.spans)
    /\ \A m \in ToSet(tick.marks) :
          m.span = Fallback \/ m.span \in ToSet(open) \cup ToSet(closed) \cup ToSet(tick.spans)

RowsOk ==
    /\ RowsAgeOutWithSpans
    /\ \A s \in Ids \ evicted : rows[s] = CapMarks(MarksOf(added, s))

BufferInv == BufferType /\ DropsOk /\ Ordered /\ SpansApart /\ MarksAhead /\ RowsOk

LEMMA CapNothing == CapMarks({}) = {}
  BY CapPart

LEMMA InitHomes == BufferInit => Ordered /\ SpansApart /\ MarksAhead /\ RowsOk
<1> SUFFICES ASSUME BufferInit PROVE Ordered /\ SpansApart /\ MarksAhead /\ RowsOk
  OBVIOUS
<1>1. /\ ToSet(open) = {} /\ ToSet(closed) = {} /\ ToSet(marking) = {} /\ ToSet(ring) = {}
      /\ ToSet(tick.spans) = {} /\ ToSet(tick.marks) = {} /\ ToSet(spans) = {} /\ ToSet(added) = {}
      /\ evicted = {}
  BY ToSetEmpty DEF BufferInit, Idle
<1>2. Len(open) = 0
  BY DEF BufferInit
<1>3. Ordered /\ MarksAhead
  BY <1>1 DEF Ordered, MarksAhead
<1>4. SpansApart
  BY <1>1, <1>2 DEF SpansApart, Distinct
<1>5. \A s \in Ids : MarksOf(added, s) = {} /\ rows[s] = {}
  BY <1>1 DEF MarksOf, BufferInit
<1>6. RowsOk
  BY <1>1, <1>5, CapNothing DEF RowsOk, RowsAgeOutWithSpans
<1> QED
  BY <1>3, <1>4, <1>6

LEMMA OpenHomes ==
  ASSUME BufferInv, Open
  PROVE  Ordered' /\ SpansApart' /\ MarksAhead' /\ RowsOk'
<1> DEFINE s == opened + 1
<1>1. open \in Seq(Spans) /\ s \in Spans /\ opened \in Nat
  BY DEF BufferInv, BufferType, Open
<1>2. /\ open' = Append(open, s) /\ opened' = s
      /\ UNCHANGED <<closed, marking, ring, tick, spans, rows, made, added, evicted>>
  BY DEF Open
<1>3. s \in Nat /\ ~(s <= opened) /\ \A x \in Nat : x <= opened => x <= s
  BY <1>1
<1> HIDE DEF s
<1>4. /\ ToSet(open') = ToSet(open) \cup {s}
      /\ Len(open') = Len(open) + 1 /\ open'[Len(open) + 1] = s /\ Len(open) \in Nat
      /\ \A i \in 1..Len(open) : open'[i] = open[i] /\ open[i] \in ToSet(open)
  BY <1>1, <1>2, ToSetAppend, ToSetOf
<1>5. Ordered' /\ RowsOk'
  BY <1>2 DEF BufferInv, Ordered, RowsOk, RowsAgeOutWithSpans, MarksOf, CapMarks, NewerPoints
<1>6. MarksAhead'
  BY <1>2, <1>4 DEF BufferInv, MarksAhead
<1>7. \A x \in ToSet(open) \cup ToSet(closed) \cup ToSet(tick.spans) \cup ToSet(spans) \cup evicted :
         x \in Nat /\ x <= s /\ x # s
  BY <1>3 DEF BufferInv, SpansApart
<1>8. Distinct(open')
  <2> SUFFICES ASSUME NEW i \in 1..Len(open'), NEW j \in 1..Len(open'), i < j
               PROVE  open'[i] # open'[j]
    BY DEF Distinct
  <2>1. i \in 1..Len(open) /\ (j \in 1..Len(open) \/ j = Len(open) + 1)
    BY <1>4
  <2>2. CASE j \in 1..Len(open)
    BY <1>4, <2>1, <2>2 DEF BufferInv, SpansApart, Distinct
  <2>3. CASE j = Len(open) + 1
    BY <1>4, <1>7, <2>1, <2>3
  <2> QED
    BY <2>1, <2>2, <2>3
<1>9. SpansApart'
  <2>1. s <= s
    BY <1>3
  <2> QED
    BY <1>2, <1>3, <1>4, <1>7, <1>8, <2>1 DEF BufferInv, SpansApart
<1> QED
  BY <1>5, <1>6, <1>9

LEMMA CloseHomes ==
  ASSUME BufferInv, Close
  PROVE  Ordered' /\ SpansApart' /\ MarksAhead' /\ RowsOk'
<1>1. BufferType /\ SpansApart /\ Distinct(open) /\ open # <<>> /\ closed \in Seq(Spans)
  BY DEF BufferInv, BufferType, Close, SpansApart
<1>2. PICK s : s = Last(open)
  OBVIOUS
<1>3. /\ s \in Spans /\ s \in ToSet(open) /\ ToSet(Front(open)) \subseteq ToSet(open)
      /\ Front(open) \in Seq(Spans)
      /\ Len(open) \in Nat /\ Len(open) >= 1 /\ Len(Front(open)) = Len(open) - 1
      /\ \A i \in 1..Len(Front(open)) : Front(open)[i] = open[i]
  BY <1>1, <1>2, LastOpen
<1>4. /\ open' = Front(open) /\ closed' = Append(closed, s) /\ marking = <<>>
      /\ UNCHANGED <<opened, marking, ring, tick, spans, rows, made, added, evicted>>
  BY <1>2 DEF Close
<1>5. ToSet(closed') = ToSet(closed) \cup {s}
  BY <1>1, <1>3, <1>4, ToSetAppend
<1>6. s \notin ToSet(open') /\ Distinct(open')
  <2>1. \A i \in 1..Len(open') : i \in 1..Len(open) /\ open'[i] = open[i] /\ i < Len(open)
    BY <1>3, <1>4
  <2>2. s = open[Len(open)] /\ Len(open) \in 1..Len(open)
    BY <1>2, <1>3 DEF Last
  <2>3. \A i \in 1..Len(open') : open'[i] # s
    BY <1>1, <2>1, <2>2 DEF Distinct
  <2>4. ToSet(open') = {open'[i] : i \in 1..Len(open')}
    BY <1>3, <1>4, ToSetOf
  <2> QED
    BY <1>1, <2>1, <2>3, <2>4 DEF Distinct
<1>7. ToSet(open) = ToSet(open') \cup {s}
  <2>1. ASSUME NEW i \in 1..Len(open)
        PROVE  open[i] \in ToSet(open') \cup {s}
    <3>1. CASE i = Len(open)
      BY <1>2, <3>1 DEF Last
    <3>2. CASE i # Len(open)
      <4>1. i \in 1..Len(Front(open)) /\ Front(open)[i] = open[i]
        BY <1>3, <3>2
      <4> QED
        BY <1>3, <1>4, <4>1, ToSetOf
    <3> QED
      BY <3>1, <3>2
  <2>2. ToSet(open) = {open[i] : i \in 1..Len(open)}
    BY <1>1, ToSetOf DEF BufferType
  <2> QED
    BY <1>3, <1>4, <2>1, <2>2
<1>8. Ordered' /\ RowsOk'
  BY <1>4 DEF BufferInv, Ordered, RowsOk, RowsAgeOutWithSpans, MarksOf, CapMarks, NewerPoints
<1>9. MarksAhead'
  BY <1>4, <1>5, <1>7, ToSetEmpty DEF BufferInv, MarksAhead
<1>10. SpansApart'
  <2>1. ToSet(open') \cup ToSet(closed') = ToSet(open) \cup ToSet(closed)
    BY <1>5, <1>7
  <2>2. ToSet(open') \cap ToSet(closed') = {}
    BY <1>1, <1>5, <1>6, <1>7 DEF SpansApart
  <2> QED
    BY <1>1, <1>4, <1>6, <2>1, <2>2 DEF SpansApart
<1> QED
  BY <1>8, <1>9, <1>10

LEMMA MarkHomes ==
  ASSUME BufferInv, NEW kind \in {"point", "summary"}, Mark(kind)
  PROVE  Ordered' /\ SpansApart' /\ MarksAhead' /\ RowsOk'
<1> DEFINE s == IF open = <<>> THEN Fallback ELSE Last(open)
           m == [n |-> made + 1, kind |-> kind, span |-> s]
<1>1. s = Fallback \/ s \in ToSet(open)
  BY LastOpen DEF BufferInv
<1>2. s \in Ids
  BY LastOpen DEF BufferInv, Ids
<1>3. /\ marking' = <<m>> /\ made' = made + 1 /\ made \in Nat
      /\ UNCHANGED <<open, opened, closed, ring, tick, spans, rows, added, evicted>>
  BY DEF Mark, BufferInv, BufferType
<1> HIDE DEF s
<1>4. m \in Marks /\ m.n = made + 1 /\ m.span = s
  BY <1>2, <1>3 DEF Marks
<1> HIDE DEF m
<1>5. ToSet(marking') = {m}
  BY <1>3, <1>4, ToSetOne
<1>6. /\ ToSet(added) \subseteq Marks /\ ToSet(tick.marks) \subseteq Marks
      /\ ToSet(ring) \subseteq Marks
  BY ToSetOf DEF BufferInv, BufferType
<1>7. ASSUME NEW p \in ToSet(added) \cup ToSet(tick.marks) \cup ToSet(ring)
      PROVE  p.n < m.n /\ p.n <= made'
  <2>1. p.n \in Nat /\ p.n <= made
    BY <1>6 DEF BufferInv, Ordered, Marks
  <2> QED
    BY <1>3, <1>4, <2>1
<1>8. m.n <= made'
  BY <1>3, <1>4
<1>9. Ordered'
  BY <1>3, <1>5, <1>7, <1>8 DEF BufferInv, Ordered
<1>10. MarksAhead'
  BY <1>1, <1>3, <1>4, <1>5 DEF BufferInv, MarksAhead
<1>11. SpansApart' /\ RowsOk'
  BY <1>3 DEF BufferInv, SpansApart, Distinct, RowsOk, RowsAgeOutWithSpans, MarksOf, CapMarks,
              NewerPoints
<1> QED
  BY <1>9, <1>10, <1>11

LEMMA MarkAppendHomes ==
  ASSUME BufferInv, MarkAppend
  PROVE  Ordered' /\ SpansApart' /\ MarksAhead' /\ RowsOk'
<1>1. ToSet(ring') \subseteq ToSet(ring) \cup ToSet(marking) /\ ToSet(marking') = {}
  BY Appended, ToSetEmpty DEF BufferInv
<1>2. UNCHANGED <<open, opened, closed, tick, spans, rows, made, added, evicted>>
  BY DEF MarkAppend
<1>3. Ordered'
  BY <1>1, <1>2 DEF BufferInv, Ordered
<1>4. MarksAhead'
  BY <1>1, <1>2 DEF BufferInv, MarksAhead
<1>5. SpansApart' /\ RowsOk'
  BY <1>2 DEF BufferInv, SpansApart, Distinct, RowsOk, RowsAgeOutWithSpans, MarksOf, CapMarks,
              NewerPoints
<1> QED
  BY <1>3, <1>4, <1>5

LEMMA DrainSpansHomes ==
  ASSUME BufferInv, DrainSpans
  PROVE  Ordered' /\ SpansApart' /\ MarksAhead' /\ RowsOk'
<1>1. /\ tick.pc = "idle" /\ tick'.pc = "spans" /\ tick'.spans = closed /\ tick'.marks = tick.marks
      /\ tick.spans = <<>> /\ closed' = <<>>
  BY DEF BufferInv, BufferType, DrainSpans
<1>2. UNCHANGED <<open, opened, marking, ring, spans, rows, made, added, evicted>>
  BY DEF DrainSpans
<1>3. ToSet(tick.spans) = {} /\ ToSet(closed') = {} /\ ToSet(tick'.spans) = ToSet(closed)
  BY <1>1, ToSetEmpty
<1>4. Ordered' /\ RowsOk'
  BY <1>1, <1>2 DEF BufferInv, Ordered, RowsOk, RowsAgeOutWithSpans, MarksOf, CapMarks, NewerPoints
<1>5. SpansApart'
  BY <1>2, <1>3 DEF BufferInv, SpansApart, Distinct
<1>6. MarksAhead'
  BY <1>1, <1>2, <1>3 DEF BufferInv, MarksAhead
<1> QED
  BY <1>4, <1>5, <1>6

LEMMA DrainMarksHomes ==
  ASSUME BufferInv, DrainMarks
  PROVE  Ordered' /\ SpansApart' /\ MarksAhead' /\ RowsOk'
<1>1. /\ tick.pc = "spans" /\ tick'.pc = "built" /\ tick'.spans = tick.spans /\ tick'.marks = ring
      /\ tick.marks = <<>> /\ ring' = <<>>
  BY DEF BufferInv, BufferType, DrainMarks
<1>2. UNCHANGED <<open, opened, closed, marking, spans, rows, made, added, evicted>>
  BY DEF DrainMarks
<1>3. ToSet(tick.marks) = {} /\ ToSet(ring') = {} /\ ToSet(tick'.marks) = ToSet(ring)
  BY <1>1, ToSetEmpty
<1>4. Ordered'
  BY <1>2, <1>3 DEF BufferInv, Ordered
<1>5. SpansApart' /\ RowsOk'
  BY <1>1, <1>2 DEF BufferInv, SpansApart, Distinct, RowsOk, RowsAgeOutWithSpans, MarksOf, CapMarks,
                    NewerPoints
<1>6. MarksAhead'
  BY <1>1, <1>2, <1>3 DEF BufferInv, MarksAhead
<1> QED
  BY <1>4, <1>5, <1>6

\* A row that is capped loses nothing that it would keep later: capping what is left of
\* A together with newer marks is capping all of them.
LEMMA CapTwice ==
  ASSUME NEW A, NEW B, A \subseteq Marks, B \subseteq Marks, IsFiniteSet(A), IsFiniteSet(B),
         \A a \in A, b \in B : a.n < b.n
  PROVE  CapMarks(CapMarks(A) \cup B) = CapMarks(A \cup B)
<1> DEFINE R == CapMarks(A)
<1>1. R \subseteq A /\ MaxMarks \in Nat
  BY CapPart, BufferAssumption
<1>2. \A m \in A : m \in R <=> m.kind = "summary" \/ Cardinality(NewerPoints(m, A)) < MaxMarks
  BY DEF CapMarks
<1> HIDE DEF R
<1>3. \A m \in A \cup B : m.n \in Nat
  BY DEF Marks
<1>4. ASSUME NEW S, S \subseteq A \cup B, NEW m
      PROVE  /\ NewerPoints(m, S) \subseteq A \cup B /\ IsFiniteSet(NewerPoints(m, S))
             /\ Cardinality(NewerPoints(m, S)) \in Nat
  <2>1. IsFiniteSet(A \cup B) /\ NewerPoints(m, S) \subseteq A \cup B
    BY <1>4, FS_Union DEF NewerPoints
  <2>2. IsFiniteSet(NewerPoints(m, S))
    BY <2>1, FS_Subset
  <2> QED
    BY <2>1, <2>2, FS_CardinalityType
<1>5. ASSUME NEW m \in B
      PROVE  NewerPoints(m, R \cup B) = NewerPoints(m, A \cup B)
  <2>1. \A p \in A : ~(p.n > m.n)
    BY <1>3
  <2> QED
    BY <1>1, <2>1 DEF NewerPoints
<1>6. ASSUME NEW m \in A, m.kind # "summary", m \in R
      PROVE  NewerPoints(m, R \cup B) = NewerPoints(m, A \cup B)
  <2>1. ASSUME NEW p \in A, p.kind = "point", p.n > m.n
        PROVE  p \in R
    <3>1. NewerPoints(p, A) \subseteq NewerPoints(m, A)
      <4>1. \A x \in A : x.n > p.n => x.n > m.n
        BY <1>3, <2>1
      <4> QED
        BY <4>1 DEF NewerPoints
    <3>2. IsFiniteSet(NewerPoints(m, A)) /\ Cardinality(NewerPoints(m, A)) \in Nat
      BY <1>4
    <3>3. Cardinality(NewerPoints(p, A)) <= Cardinality(NewerPoints(m, A))
      BY <3>1, <3>2, FS_Subset
    <3>4. Cardinality(NewerPoints(p, A)) \in Nat
      BY <1>4
    <3>5. Cardinality(NewerPoints(m, A)) < MaxMarks
      BY <1>2, <1>6
    <3> QED
      BY <1>1, <1>2, <3>2, <3>3, <3>4, <3>5
  <2> QED
    BY <1>1, <2>1 DEF NewerPoints
<1>7. ASSUME NEW m \in A, m \notin R
      PROVE  m \notin CapMarks(A \cup B)
  <2>1. m.kind # "summary" /\ ~(Cardinality(NewerPoints(m, A)) < MaxMarks)
    BY <1>2, <1>7
  <2>2. NewerPoints(m, A) \subseteq NewerPoints(m, A \cup B)
    BY DEF NewerPoints
  <2>3. IsFiniteSet(NewerPoints(m, A \cup B)) /\ Cardinality(NewerPoints(m, A \cup B)) \in Nat
        /\ Cardinality(NewerPoints(m, A)) \in Nat
    BY <1>4
  <2>4. Cardinality(NewerPoints(m, A)) <= Cardinality(NewerPoints(m, A \cup B))
    BY <2>2, <2>3, FS_Subset
  <2>5. ~(Cardinality(NewerPoints(m, A \cup B)) < MaxMarks)
    BY <1>1, <2>1, <2>3, <2>4
  <2> QED
    BY <2>1, <2>5 DEF CapMarks
<1>8. ASSUME NEW m \in R \cup B
      PROVE  m \in CapMarks(R \cup B) <=> m \in CapMarks(A \cup B)
  <2>1. CASE m.kind = "summary"
    BY <1>1, <2>1 DEF CapMarks
  <2>2. CASE m.kind # "summary"
    <3>1. NewerPoints(m, R \cup B) = NewerPoints(m, A \cup B)
      BY <1>1, <1>5, <1>6, <2>2
    <3> QED
      BY <1>1, <3>1 DEF CapMarks
  <2> QED
    BY <2>1, <2>2
<1>9. CapMarks(R \cup B) \subseteq R \cup B /\ CapMarks(A \cup B) \subseteq A \cup B
  BY CapPart
<1> QED
  BY <1>7, <1>8, <1>9 DEF R

\* What add_batch does to the rows of a span that does not age out.
LEMMA BatchedRow ==
  ASSUME BufferInv, AddBatch, NEW s \in Ids \ evicted'
  PROVE  rows'[s] = CapMarks(MarksOf(added', s))
<1> DEFINE A == MarksOf(added, s)
           B == MarksOf(tick.marks, s)
<1>1. added \in Seq(Marks) /\ tick.marks \in Seq(Marks) /\ BufferType
  BY DEF BufferInv, BufferType
<1>2. A \subseteq Marks /\ B \subseteq Marks /\ IsFiniteSet(A) /\ IsFiniteSet(B)
  <2>1. A \subseteq ToSet(added) /\ B \subseteq ToSet(tick.marks)
    BY DEF MarksOf
  <2>2. IsFiniteSet(ToSet(added)) /\ IsFiniteSet(ToSet(tick.marks))
    BY <1>1, ToSetFinite
  <2>3. ToSet(added) \subseteq Marks /\ ToSet(tick.marks) \subseteq Marks
    BY <1>1, ToSetOf
  <2> QED
    BY <2>1, <2>2, <2>3, FS_Subset
<1>3. \A a \in A, b \in B : a.n < b.n
  BY DEF BufferInv, Ordered, MarksOf
<1>4. MarksOf(added', s) = A \cup B
  BY <1>1, Batched DEF MarksOf
<1>5. s \notin evicted /\ rows[s] = CapMarks(A)
  BY <1>1, Batched DEF BufferInv, RowsOk
<1>6. rows'[s] = CapMarks(rows[s] \cup B)
  BY <1>1, <1>5, Batched
<1> HIDE DEF A, B
<1> QED
  BY <1>2, <1>3, <1>4, <1>5, <1>6, CapTwice

LEMMA AddBatchHomes ==
  ASSUME BufferInv, AddBatch
  PROVE  Ordered' /\ SpansApart' /\ MarksAhead' /\ RowsOk'
<1>1. /\ ToSet(spans') \subseteq ToSet(spans) \cup ToSet(tick.spans)
      /\ evicted' = evicted \cup ((ToSet(spans) \cup ToSet(tick.spans)) \ ToSet(spans'))
      /\ ToSet(added') = ToSet(added) \cup ToSet(tick.marks)
      /\ \A s \in Ids : rows'[s] = IF s \in evicted' \ evicted THEN {}
                                   ELSE CapMarks(rows[s] \cup MarksOf(tick.marks, s))
      /\ tick' = Idle /\ tick.pc = "built"
  BY Batched DEF BufferInv
<1>2. UNCHANGED <<open, opened, closed, marking, ring, dropCount, made>>
  BY DEF AddBatch
<1>3. tick'.pc = "idle" /\ ToSet(tick'.spans) = {} /\ ToSet(tick'.marks) = {}
  BY <1>1, ToSetEmpty DEF Idle
<1>4. Ordered'
  BY <1>1, <1>2, <1>3 DEF BufferInv, Ordered
<1>5. MarksAhead'
  BY <1>1, <1>2, <1>3 DEF BufferInv, MarksAhead
<1>6. SpansApart'
  <2>1. /\ Distinct(open') /\ ToSet(open') \cap ToSet(closed') = {}
    BY <1>2 DEF BufferInv, SpansApart
  <2>2. /\ ToSet(spans') \cup evicted' \subseteq ToSet(tick.spans) \cup ToSet(spans) \cup evicted
        /\ ToSet(spans') \cap evicted' = {}
    BY <1>1 DEF BufferInv, SpansApart
  <2> QED
    BY <1>2, <1>3, <2>1, <2>2 DEF BufferInv, SpansApart
<1>7. RowsAgeOutWithSpans'
  <2> SUFFICES ASSUME NEW s \in evicted' PROVE rows'[s] = {}
    BY DEF RowsAgeOutWithSpans
  <2>1. s \in Ids /\ s # Fallback
    <3>1. evicted' \subseteq Spans
      BY AddBatchType DEF BufferInv, BufferType
    <3> QED
      BY <3>1, BufferAssumption DEF Ids
  <2>2. CASE s \notin evicted
    BY <1>1, <2>1, <2>2
  <2>3. CASE s \in evicted
    <3>1. rows[s] = {}
      BY <2>3 DEF BufferInv, RowsOk, RowsAgeOutWithSpans
    <3>2. s \notin ToSet(open) \cup ToSet(closed) \cup ToSet(tick.spans)
      BY <2>3 DEF BufferInv, SpansApart
    <3>3. MarksOf(tick.marks, s) = {}
      BY <2>1, <3>2 DEF BufferInv, MarksAhead, MarksOf
    <3>4. rows'[s] = CapMarks({})
      BY <1>1, <2>1, <2>3, <3>1, <3>3
    <3> QED
      BY <3>4, CapNothing
  <2> QED
    BY <2>2, <2>3
<1>8. RowsOk'
  BY <1>7, BatchedRow DEF RowsOk
<1> QED
  BY <1>4, <1>5, <1>6, <1>8

LEMMA BufferStill ==
  ASSUME BufferInv, UNCHANGED bufferVars
  PROVE  BufferInv'
<1>1. UNCHANGED <<open, opened, closed, marking, ring, dropCount, tick, spans, rows, made, added,
                  evicted>>
  BY DEF bufferVars
<1>2. BufferType' /\ DropsOk'
  BY <1>1 DEF BufferInv, BufferType, DropsOk, DropsCounted
<1>3. Ordered' /\ MarksAhead'
  BY <1>1 DEF BufferInv, Ordered, MarksAhead
<1>4. SpansApart' /\ RowsOk'
  BY <1>1 DEF BufferInv, SpansApart, Distinct, RowsOk, RowsAgeOutWithSpans, MarksOf, CapMarks,
              NewerPoints
<1> QED
  BY <1>2, <1>3, <1>4 DEF BufferInv

LEMMA BufferStep ==
  ASSUME BufferInv, [Next]_vars
  PROVE  BufferInv'
<1>1. CASE Open
  BY <1>1, OpenType, OpenHomes DEF BufferInv
<1>2. CASE Close
  BY <1>2, CloseType, CloseHomes DEF BufferInv
<1>3. CASE MarkAppend
  BY <1>3, MarkAppendType, MarkAppendHomes DEF BufferInv
<1>4. ASSUME NEW kind \in {"point", "summary"}, Mark(kind)
      PROVE  BufferInv'
  BY <1>4, MarkType, MarkHomes DEF BufferInv
<1>5. CASE DrainSpans
  BY <1>5, DrainSpansType, DrainSpansHomes DEF BufferInv
<1>6. CASE DrainMarks
  BY <1>6, DrainMarksType, DrainMarksHomes DEF BufferInv
<1>7. CASE AddBatch
  BY <1>7, AddBatchType, AddBatchHomes DEF BufferInv
<1>8. CASE UNCHANGED bufferVars
  BY <1>8, BufferStill
<1>9. CASE Produce
  BY <1>1, <1>2, <1>3, <1>4, <1>9 DEF Produce, Producer
<1>10. CASE Drain
  BY <1>5, <1>6, <1>10 DEF Drain
<1>11. CASE Send
  BY <1>7, <1>11 DEF Send
<1>12. CASE Post
  BY <1>8, <1>12 DEF Post, bufferVars
<1>13. CASE UNCHANGED vars
  BY <1>8, <1>13 DEF vars, bufferVars
<1> QED
  BY <1>9, <1>10, <1>11, <1>12, <1>13 DEF Next

LEMMA BufferAlways == Spec => []BufferInv
<1>1. Init => BufferInv
  BY InitBuffer, InitHomes DEF Init, BufferInv
<1>2. BufferInv /\ [Next]_vars => BufferInv'
  BY BufferStep
<1> QED
  BY <1>1, <1>2, PTL DEF Spec

\* TraceBuffer.Mark and MarkAppend (mark.py), DrainMarks and AddBatch (add_batch with
\* _cap_marks_locked): for any capacities and any number of spans and marks, a row holds
\* every summary and exactly the newest points that were drained for its span, and a mark
\* that got lost on the way was counted, also when a drain runs inside an append.
THEOREM MarksAccountedFor == Spec => []MarksAccounted
<1>1. BufferInv => MarksAccounted
  <2> SUFFICES ASSUME BufferInv PROVE RowsAreNewestMarks /\ DropsCounted
    BY DEF MarksAccounted
  <2>1. ASSUME NEW s \in Ids \ evicted
        PROVE  LET q == MarksOf(added, s) IN
               /\ rows[s] \subseteq q
               /\ \A m \in q : m \in rows[s] <=>
                     m.kind = "summary" \/ Cardinality(NewerPoints(m, q)) < MaxMarks
    <3>1. rows[s] = CapMarks(MarksOf(added, s))
      BY DEF BufferInv, RowsOk
    <3> QED
      BY <3>1 DEF CapMarks
  <2> QED
    BY <2>1 DEF RowsAreNewestMarks, BufferInv, DropsOk
<1> QED
  BY <1>1, BufferAlways, PTL

\* TraceBuffer.AddBatch (add_batch, _evict_locked): a span that aged out has no row, and
\* no mark that is still on its way can bring one back.
THEOREM RowsAgeOut == Spec => []RowsAgeOutWithSpans
<1>1. BufferInv => RowsAgeOutWithSpans
  BY DEF BufferInv, RowsOk
<1> QED
  BY <1>1, BufferAlways, PTL
===============================================================================
