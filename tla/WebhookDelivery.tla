--------------------------- MODULE WebhookDelivery ---------------------------
(***************************************************************************)
(* Webhook jobs and the endpoint they report to: the webhook worker        *)
(* (apps/worker/src/index.ts), recordWebhookDelivery and markWebhookResult *)
(* (packages/database/src/repositories/webhooks.ts), the test and          *)
(* redeliver routes, the retry of a dead letter, and tenant offboarding.   *)
(*                                                                         *)
(* All jobs here are for one endpoint: endpoints share nothing but the     *)
(* tenant's offboarding.  Every await is a step; any await may reject; a   *)
(* worker may die between two steps, after which BullMQ runs the job       *)
(* again.  Jobs have no jobId, so an add always makes a new job: a retry   *)
(* of a dead letter is modelled as the job starting over (its add and the  *)
(* removal of the letter in one step: TelemetryPipeline takes them apart). *)
(*                                                                         *)
(* Abstractions: Key[j] is the idempotencyId of job j, equal for the       *)
(* "recommendation.created" events of one recommendation; the payload and  *)
(* the secret captured at enqueue are left out.  BullMQ is external.       *)
(***************************************************************************)
EXTENDS Naturals, FiniteSets

CONSTANTS
  Jobs,           \* webhook jobs of the endpoint
  EventJobs,      \* those the telemetry worker enqueues after listActiveWebhooks;
                  \* the others come from the test and redeliver routes
  Keys,           \* idempotencyIds
  Key,            \* Key[j]: the idempotencyId of job j
  attempts,       \* opts.attempts of a webhook job (5)
  disableAfter,   \* failures in a row that disable the endpoint (10)
  maxStalledCount,  \* BullMQ's default (1): stalls a job survives
  MaxFaults,      \* bound of the model: crashes and rejected database writes
  MaxRetries      \* bound of the model: retries of dead letter

ASSUME WebhookAssumption ==
  /\ EventJobs \subseteq Jobs
  /\ Key \in [Jobs -> Keys]
  /\ attempts \in Nat \ {0}
  /\ disableAfter \in Nat \ {0}
  /\ {maxStalledCount, MaxFaults, MaxRetries} \subseteq Nat

VARIABLES
  state,         \* state[j]: the BullMQ job; "listed" between listActiveWebhooks
                 \* (or getWebhook) and the add
  attemptsMade,  \* attemptsMade[j]
  stalledCount,  \* stalledCount[j]
  pc,            \* pc[j]: where the processor of job j is
  letter,        \* letter[j]: the dead letter of job j; "sending" until the
                 \* unawaited enqueueDeadLetter is acknowledged
  status,        \* status column of the endpoint
  failureCount,  \* failureCount column of the endpoint
  row,           \* row[k]: status of the webhookDelivery row of key k
  offboarded,    \* offboardTenant has committed
  received,      \* history: keys the endpoint has answered 2xx for
  reached,       \* history: some failure brought failureCount to disableAfter
  slipped,       \* history: a job due to disable the endpoint did not get to
  faults, retries

jobVarsButPc == <<state, attemptsMade, stalledCount, letter>>
jobVars == <<jobVarsButPc, pc>>
endpointVars == <<status, failureCount, offboarded>>
historyVars == <<received, reached, slipped>>
vars == <<jobVars, endpointVars, row, historyVars, faults, retries>>

TypeOK ==
  /\ state \in [Jobs -> {"new", "listed", "waiting", "active", "delayed",
                         "completed", "failed"}]
  /\ attemptsMade \in [Jobs -> 0..attempts]
  /\ stalledCount \in [Jobs -> 0..maxStalledCount + 1]
  /\ pc \in [Jobs -> {"idle", "deliver", "recordDelivered", "markSuccess",
                      "recordFailed", "markFailure", "disable"}]
  /\ letter \in [Jobs -> {"none", "sending", "stored", "lost"}]
  /\ status \in {"ACTIVE", "FAILING", "DISABLED"}
  /\ failureCount \in Nat
  /\ row \in [Keys -> {"none", "delivered", "failed"}]
  /\ offboarded \in BOOLEAN
  /\ received \subseteq Keys
  /\ reached \in BOOLEAN
  /\ slipped \in BOOLEAN
  /\ faults \in 0..MaxFaults /\ retries \in 0..MaxRetries

Init ==
  /\ state = [j \in Jobs |-> "new"]
  /\ attemptsMade = [j \in Jobs |-> 0]
  /\ stalledCount = [j \in Jobs |-> 0]
  /\ pc = [j \in Jobs |-> "idle"]
  /\ letter = [j \in Jobs |-> "none"]
  /\ status = "ACTIVE" /\ failureCount = 0
  /\ row = [k \in Keys |-> "none"]
  /\ offboarded = FALSE
  /\ received = {} /\ reached = FALSE /\ slipped = FALSE
  /\ faults = 0 /\ retries = 0
-----------------------------------------------------------------------------
(***************************************************************************)
(* Enqueueing                                                              *)
(***************************************************************************)
\* listActiveWebhooks returns only ACTIVE and FAILING endpoints; getWebhook
\* and getWebhookDelivery do not look at the status.
Listable(j) == j \in EventJobs => status \in {"ACTIVE", "FAILING"}

\* The endpoint's URL and secret are read.
List(j) ==
  /\ state[j] = "new"
  /\ Listable(j)
  /\ state' = [state EXCEPT ![j] = "listed"]
  /\ UNCHANGED <<attemptsMade, stalledCount, pc, letter, endpointVars, row,
                 historyVars, faults, retries>>

\* enqueueWebhookDelivery, with what was read before.
Enqueue(j) ==
  /\ state[j] = "listed"
  /\ state' = [state EXCEPT ![j] = "waiting"]
  /\ UNCHANGED <<attemptsMade, stalledCount, pc, letter, endpointVars, row,
                 historyVars, faults, retries>>

\* retryDeadLetter: a fresh job with the letter's payload, the letter removed.
Retry(j) ==
  /\ letter[j] = "stored"
  /\ retries < MaxRetries
  /\ retries' = retries + 1
  /\ letter' = [letter EXCEPT ![j] = "none"]
  /\ state' = [state EXCEPT ![j] = "waiting"]
  /\ attemptsMade' = [attemptsMade EXCEPT ![j] = 0]
  /\ stalledCount' = [stalledCount EXCEPT ![j] = 0]
  /\ UNCHANGED <<pc, endpointVars, row, historyVars, faults>>
-----------------------------------------------------------------------------
(***************************************************************************)
(* The processor                                                           *)
(***************************************************************************)
Goto(j, where) == pc' = [pc EXCEPT ![j] = where]

Fault ==
  /\ faults < MaxFaults
  /\ faults' = faults + 1

\* Mutant: the handler writes a letter only past the last attempt.
ExhaustedOneLate(n) == n > attempts
\* The failed handler's test.
Exhausted(n) == n >= attempts

\* Mutant: the first attempt is not counted.
RetryLeftAfterFirst(n) == n <= attempts
\* moveToFailed schedules another attempt.
RetryLeft(n) == n < attempts

\* The processor throws: another attempt, or the job has failed and the
\* failed handler starts to send its letter.
Throw(j) ==
  LET n == attemptsMade[j] + 1 IN
  /\ Goto(j, "idle")
  /\ attemptsMade' = [attemptsMade EXCEPT ![j] = n]
  /\ state' = [state EXCEPT ![j] = IF RetryLeft(n) THEN "delayed" ELSE "failed"]
  /\ letter' = IF Exhausted(n) THEN [letter EXCEPT ![j] = "sending"] ELSE letter
  /\ UNCHANGED stalledCount

\* A worker fetches the job; the endpoint's status is not read again.
Start(j) ==
  /\ state[j] = "waiting"
  /\ state' = [state EXCEPT ![j] = "active"]
  /\ Goto(j, "deliver")
  /\ UNCHANGED <<attemptsMade, stalledCount, letter, endpointVars, row,
                 historyVars, faults, retries>>

\* The exponential backoff elapses.
Promote(j) ==
  /\ state[j] = "delayed"
  /\ state' = [state EXCEPT ![j] = "waiting"]
  /\ UNCHANGED <<attemptsMade, stalledCount, pc, letter, endpointVars, row,
                 historyVars, faults, retries>>

\* deliverWebhookPayload: a 2xx answer.
Deliver(j) ==
  /\ pc[j] = "deliver"
  /\ received' = received \cup {Key[j]}
  /\ Goto(j, "recordDelivered")
  /\ UNCHANGED <<jobVarsButPc, endpointVars,
                 row, reached, slipped, faults, retries>>

\* Mutant: the status of the answer is not looked at.
AnswerIgnored(j) ==
  /\ pc[j] = "deliver"
  /\ Goto(j, "recordDelivered")
  /\ UNCHANGED <<jobVarsButPc, endpointVars, row, historyVars, faults, retries>>

\* deliverWebhookPayload: another answer, a timeout, or no connection.
DeliverFails(j) ==
  /\ pc[j] = "deliver"
  /\ Goto(j, "recordFailed")
  /\ UNCHANGED <<jobVarsButPc, endpointVars,
                 row, historyVars, faults, retries>>

\* recordWebhookDelivery(status: "delivered"), an upsert by key.
RecordDelivered(j) ==
  /\ pc[j] = "recordDelivered"
  /\ row' = [row EXCEPT ![Key[j]] = "delivered"]
  /\ Goto(j, "markSuccess")
  /\ UNCHANGED <<jobVarsButPc, endpointVars,
                 historyVars, faults, retries>>

\* failureCount after a success.
AfterSuccess(n) == 0

\* markWebhookResult(endpointId, true); the job completes.
MarkSuccess(j) ==
  /\ pc[j] = "markSuccess"
  /\ status' = "ACTIVE"
  /\ failureCount' = AfterSuccess(failureCount)
  /\ Goto(j, "idle")
  /\ state' = [state EXCEPT ![j] = "completed"]
  /\ UNCHANGED <<attemptsMade, stalledCount, letter, row, offboarded,
                 historyVars, faults, retries>>

\* A database write of the try block rejects: the catch block treats it as a
\* failed delivery.
SuccessNotStored(j) ==
  /\ pc[j] \in {"recordDelivered", "markSuccess"}
  /\ Fault
  /\ Goto(j, "recordFailed")
  /\ UNCHANGED <<jobVarsButPc, endpointVars,
                 row, historyVars, retries>>

\* recordWebhookDelivery(status: "failed").
RecordFailed(j) ==
  /\ pc[j] = "recordFailed"
  /\ row' = [row EXCEPT ![Key[j]] = "failed"]
  /\ Goto(j, "markFailure")
  /\ UNCHANGED <<jobVarsButPc, endpointVars,
                 historyVars, faults, retries>>

\* Mutants: only the failure that reaches the limit disables; the limit is
\* compared with the count before the increment is stored.
LimitEqual(n) == n = disableAfter
LimitEarly(n) == n + 1 >= disableAfter
\* row.failureCount >= 10
Limit(n) == n >= disableAfter

\* markWebhookResult(endpointId, false), its first statement; below the limit
\* the job then rethrows.
MarkFailure(j) ==
  LET n == failureCount + 1 IN
  /\ pc[j] = "markFailure"
  /\ failureCount' = n
  /\ status' = "FAILING"
  /\ reached' = (reached \/ n >= disableAfter)
  /\ IF Limit(n)
     THEN Goto(j, "disable") /\ UNCHANGED jobVarsButPc
     ELSE Throw(j)
  /\ UNCHANGED <<row, offboarded, received, slipped, faults, retries>>

\* The second statement of markWebhookResult(endpointId, false).
Disable(j) ==
  /\ pc[j] = "disable"
  /\ status' = "DISABLED"
  /\ Throw(j)
  /\ UNCHANGED <<failureCount, offboarded, row, historyVars, faults, retries>>

\* A database write of the catch block rejects; the job throws that error.
FailureNotStored(j) ==
  /\ pc[j] \in {"recordFailed", "markFailure", "disable"}
  /\ Fault
  /\ Throw(j)
  /\ slipped' = (slipped \/ pc[j] = "disable")
  /\ UNCHANGED <<endpointVars, row, received, reached, retries>>

\* The job stalled too often: it is failed below its number of attempts.
StalledOut(j) == stalledCount[j] > maxStalledCount

(***************************************************************************)
(* The worker dies.  The stalled job runs again from the start, or fails   *)
(* if it has stalled too often: the failed handler finds attempts left and *)
(* writes no letter.                                                       *)
(***************************************************************************)
Crash(j) ==
  /\ pc[j] # "idle"
  /\ Fault
  /\ Goto(j, "idle")
  /\ stalledCount' = [stalledCount EXCEPT ![j] = @ + 1]
  /\ state' = [state EXCEPT ![j] = IF StalledOut(j)' THEN "failed" ELSE "waiting"]
  /\ slipped' = (slipped \/ pc[j] = "disable")
  /\ UNCHANGED <<attemptsMade, letter, endpointVars, row, received, reached,
                 retries>>

\* The letter arrives, or its process dies or Redis refuses it.
LetterArrives(j) ==
  /\ letter[j] = "sending"
  /\ letter' = [letter EXCEPT ![j] = "stored"]
  /\ UNCHANGED <<state, attemptsMade, stalledCount, pc, endpointVars, row,
                 historyVars, faults, retries>>
LetterLost(j) ==
  /\ letter[j] = "sending"
  /\ Fault
  /\ letter' = [letter EXCEPT ![j] = "lost"]
  /\ UNCHANGED <<state, attemptsMade, stalledCount, pc, endpointVars, row,
                 historyVars, retries>>

\* offboardTenant's transaction.
Offboard ==
  /\ ~offboarded
  /\ offboarded' = TRUE
  /\ status' = "DISABLED"
  /\ UNCHANGED <<jobVars, failureCount, row, historyVars, faults, retries>>

Step(j) ==
  \/ Deliver(j)
  \/ DeliverFails(j)
  \/ RecordDelivered(j)
  \/ MarkSuccess(j)
  \/ SuccessNotStored(j)
  \/ RecordFailed(j)
  \/ MarkFailure(j)
  \/ Disable(j)
  \/ FailureNotStored(j)

Next ==
  \/ \E j \in Jobs :
       List(j) \/ Enqueue(j) \/ Retry(j) \/ Start(j) \/ Promote(j) \/ Step(j)
         \/ Crash(j) \/ LetterArrives(j) \/ LetterLost(j)
  \/ Offboard

Spec == Init /\ [][Next]_vars

(***************************************************************************)
(* Workers fetch and go on, backoffs elapse, the enqueuing loop goes on.   *)
(* An endpoint is not obliged to answer, nor an administrator to retry.    *)
(***************************************************************************)
Fairness ==
  \A j \in Jobs :
    /\ WF_vars(Enqueue(j)) /\ WF_vars(Start(j)) /\ WF_vars(Promote(j))
    /\ WF_vars(Step(j)) /\ WF_vars(LetterArrives(j))

FairSpec == Spec /\ Fairness
-----------------------------------------------------------------------------
(***************************************************************************)
(* A delivery recorded as delivered was accepted by the endpoint, whatever *)
(* retries, crashes and other jobs of the same key do.                     *)
(***************************************************************************)
DeliveredWasReceived ==
  \A k \in Keys : row[k] = "delivered" => k \in received

(***************************************************************************)
(* The limit does not leak: once failureCount is at the limit, either the  *)
(* endpoint is disabled or a job is about to disable it, however failures  *)
(* of concurrent jobs interleave; the exception is a job that was due to   *)
(* and whose process died or whose write was rejected.                     *)
(***************************************************************************)
LimitDisables ==
  failureCount >= disableAfter =>
    \/ status = "DISABLED"
    \/ \E j \in Jobs : pc[j] = "disable"
    \/ slipped

(***************************************************************************)
(* An endpoint is never disabled short of the limit: only offboarding does *)
(* that.                                                                   *)
(***************************************************************************)
NotDisabledEarly == status = "DISABLED" => offboarded \/ reached

(***************************************************************************)
(* The deliveries keep the promise of WorkLedger: a delivery that is done  *)
(* stays done, one that is given up is with an administrator, who may have *)
(* it started over, and it is lost only if its letter was or if it stalled *)
(* out.  (That none stays pending is DeliveredOrDeadLettered.)             *)
(***************************************************************************)
Fate(j) ==
  CASE state[j] \in {"new", "listed"} -> "unknown"
    [] state[j] \in {"waiting", "active", "delayed"} -> "pending"
    [] state[j] = "completed" -> "processed"
    [] OTHER -> IF letter[j] \in {"sending", "stored"} THEN "held" ELSE "lost"

AtRisk == {j \in Jobs : letter[j] = "lost" \/ StalledOut(j)}

Ledger == INSTANCE WorkLedger
            WITH Items <- Jobs, fate <- [j \in Jobs |-> Fate(j)], risky <- AtRisk

KeepsLedger == Ledger!SafeSpec

(***************************************************************************)
(* A job that gave up is not forgotten: its letter is stored or on its way *)
(* to the dead-letter queue, unless the letter itself was lost or the job  *)
(* stalled too often to get one.                                           *)
(***************************************************************************)
GivenUpHasLetter ==
  \A j \in Jobs :
    state[j] = "failed" => letter[j] # "none" \/ StalledOut(j)

(***************************************************************************)
(* The service level of the runbook, without its percentage: a delivery    *)
(* that was decided on ends up accepted by the endpoint or in the dead-    *)
(* letter queue, with the same two exceptions.                             *)
(***************************************************************************)
DeliveredOrDeadLettered ==
  \A j \in Jobs :
    state[j] = "listed"
      ~> \/ Key[j] \in received
         \/ letter[j] \in {"stored", "lost"}
         \/ StalledOut(j)

(***************************************************************************)
(* What the offboarding documents say: the tenant's webhooks are disabled, *)
(* and stay so.                                                            *)
(***************************************************************************)
OffboardedIsDisabled == offboarded => status = "DISABLED"
=============================================================================
