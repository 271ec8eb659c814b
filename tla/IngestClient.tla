----------------------------- MODULE IngestClient -----------------------------
(***************************************************************************)
(* core/ingest.py and HttpTransport: one batch after another is posted to  *)
(* the platform, over a network that may lose the request or the answer,   *)
(* with retries under one batch id.  The platform is external: it answers  *)
(* with any status, and ingests a batch id once.                           *)
(***************************************************************************)
EXTENDS Integers, FiniteSets

CONSTANTS Batches,         \* batch ids, 1..n, posted in this order
          MaxRetries,      \* max_retries
          BackoffCap,      \* MAX_BACKOFF_SEC
          RetryAfterCap,   \* MAX_RETRY_AFTER_SEC
          RetryAfters      \* values of a Retry-After header, -1 for none that parses

ASSUME ClientAssumption ==
    /\ Batches \subseteq Nat \ {0}
    /\ MaxRetries \in Nat /\ BackoffCap \in Nat /\ RetryAfterCap \in Nat /\ BackoffCap <= RetryAfterCap

VARIABLES
    post,      \* the call in progress: the batch, the attempt, and whether it sleeps
    result,    \* per batch: what post_batch returned
    waited,    \* the seconds slept in the call in progress
    seen,      \* the platform: the keys it has ingested
    ingested,  \* the platform: how often each batch was ingested
    refused    \* the platform: the batches it has refused for good

clientVars == <<post, result, waited, seen, ingested, refused>>

NoPost == [batch |-> 0, attempt |-> 0, sleep |-> 0]

ClientInit ==
    /\ post = NoPost
    /\ result = [b \in Batches |-> "none"]
    /\ waited = 0
    /\ seen = {}
    /\ ingested = [b \in Batches |-> 0]
    /\ refused = {}

Least(a, b) == IF a < b THEN a ELSE b

\* _backoff, its jitter rounded up.
Backoff(attempt) == Least(2 ^ attempt + 1, BackoffCap)

\* The wait after a 429: Retry-After if there is one that parses.
RetryWait(attempt, retryAfter) ==
    IF retryAfter = -1 THEN Backoff(attempt) ELSE Least(retryAfter, RetryAfterCap)

\* Faulty: every attempt has a key of its own.
KeyPerAttempt(batch, attempt) == <<batch, attempt>>

\* BATCH_ID_HEADER: the key the platform goes by.
KeyOf(batch, attempt) == <<batch, 0>>

PostBatch(b) ==
    /\ post = NoPost /\ result[b] = "none"
    /\ post' = [batch |-> b, attempt |-> 0, sleep |-> 0]
    /\ waited' = 0
    /\ UNCHANGED <<result, seen, ingested, refused>>

\* The platform gets the request, and ingests it if it likes it and has not yet.
Reaches(status) ==
    LET key == KeyOf(post.batch, post.attempt) IN
    /\ seen' = IF status = 200 THEN seen \cup {key} ELSE seen
    /\ ingested' = IF status = 200 /\ key \notin seen
                   THEN [ingested EXCEPT ![post.batch] = @ + 1] ELSE ingested

\* Faulty: notes the outcome and goes on posting.
FinishGoingOn(outcome) ==
    /\ result' = [result EXCEPT ![post.batch] = outcome]
    /\ post' = [post EXCEPT !.sleep = 0]

Finish(outcome) ==
    /\ result' = [result EXCEPT ![post.batch] = outcome]
    /\ post' = NoPost

\* What follows an attempt that may be tried again.
RetryOrGiveUp(wait) ==
    IF post.attempt >= MaxRetries THEN Finish("retryable")
    ELSE /\ post' = [post EXCEPT !.sleep = wait, !.attempt = @ + 1]
         /\ UNCHANGED result

Attempting == post.batch # 0 /\ post.sleep = 0

\* The request, or the answer to it, is lost: the client cannot tell which.
AttemptLost(delivered) ==
    /\ Attempting
    /\ IF delivered THEN Reaches(200) ELSE UNCHANGED <<seen, ingested>>
    /\ RetryOrGiveUp(Backoff(post.attempt))
    /\ UNCHANGED <<waited, refused>>

Attempt200 ==
    /\ Attempting
    /\ Reaches(200) /\ Finish("ok")
    /\ UNCHANGED <<waited, refused>>

\* 400, 413, 401, 403 or a status nobody expects: not again.
AttemptRefused(status) ==
    /\ Attempting
    /\ Reaches(status) /\ Finish("refused")
    /\ refused' = refused \cup {post.batch}
    /\ UNCHANGED waited

AttemptUnavailable(status) ==
    /\ Attempting
    /\ Reaches(status)
    /\ \E ra \in RetryAfters :
           RetryOrGiveUp(IF status = 429 THEN RetryWait(post.attempt, ra) ELSE Backoff(post.attempt))
    /\ UNCHANGED <<waited, refused>>

\* A Retry-After of zero is no sleep at all.
Sleep ==
    /\ post.sleep > 0
    /\ waited' = waited + post.sleep
    /\ post' = [post EXCEPT !.sleep = 0]
    /\ UNCHANGED <<result, seen, ingested, refused>>

Attempt ==
    \/ \E delivered \in BOOLEAN : AttemptLost(delivered)
    \/ Attempt200
    \/ \E status \in {304, 400, 401} : AttemptRefused(status)
    \/ \E status \in {429, 500} : AttemptUnavailable(status)

ClientStep == Attempt \/ Sleep

-------------------------------------------------------------------------------
(* Properties *)

\* Whatever is lost on the way and tried again, the platform ingests a batch once
\* at most, and has it when the client says so.
IngestedOnce ==
    \A b \in Batches : ingested[b] <= 1 /\ (result[b] = "ok" => ingested[b] = 1)

\* The flush thread is in a post for no longer than the attempts and their capped
\* waits allow, whatever the platform asks for.
HeldForBoundedTime ==
    /\ post.attempt <= MaxRetries
    /\ waited <= MaxRetries * RetryAfterCap

\* A batch that the platform has refused is not posted again.
RefusalIsFinal == post.batch \notin refused

\* Retries are safe: nothing is ingested twice, nothing refused is posted again.
RetriesSafe == IngestedOnce /\ RefusalIsFinal
==============================================================================
