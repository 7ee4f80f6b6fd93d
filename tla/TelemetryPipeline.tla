-------------------------- MODULE TelemetryPipeline --------------------------
(***************************************************************************)
(* The path of a telemetry message from enqueueTelemetry to its effects:   *)
(* the BullMQ queue telemetry-ingest, the telemetry worker, the dead-      *)
(* letter and poison-quarantine queues, and the administrator's retry and  *)
(* purge (packages/queue/src/index.ts, apps/worker/src/index.ts, the       *)
(* queue routes of apps/api/src/server.ts).                                *)
(*                                                                         *)
(* Every await of the job is a step of its own.  A worker process may      *)
(* crash between any two steps, and may lose the lock of its job (an       *)
(* event loop blocked for longer than the lock lives) and carry on as a    *)
(* second, stale processor of the message.                                 *)
(*                                                                         *)
(* Abstractions: one slot per worker process (the in-process gate is       *)
(* module FairnessGate); the analysis of an installation's telemetry       *)
(* yields the same Recommendations for every message (a skill that throws  *)
(* is logged and skipped by the orchestrator: the constant is what is      *)
(* left); the endpoints subscribed to them are Endpoints (their status is  *)
(* module WebhookDelivery); identities are not provisioned automatically   *)
(* (ZOLT_AUTO_PROVISION_IDENTITIES is not "true").  BullMQ and Redis are   *)
(* external: their operators below say how the code uses them.             *)
(***************************************************************************)
EXTENDS Naturals, FiniteSets

CONSTANTS
  Messages,          \* telemetry messages, by tenant~product~installation~messageId
  Workers,           \* worker processes
  Admins,            \* administrators who retry dead letters
  Recommendations,   \* what analyse returns
  Endpoints,         \* what listActiveWebhooks returns
  None,              \* no worker, no message, no letter
  attempts,          \* opts.attempts of a telemetry job (5)
  maxStalledCount,   \* BullMQ's default (1): stalls a job survives
  Budgets            \* bound of the model: how many crashes, lock losses and
                     \* trims a behaviour may have (triples of naturals)

ASSUME PipelineAssumption ==
  /\ attempts \in Nat \ {0}
  /\ maxStalledCount \in Nat
  /\ Budgets \subseteq Nat \X Nat \X Nat
  /\ None \notin Messages \cup Workers

VARIABLES
  \* the BullMQ job of each message ("none": Redis holds no job with its id)
  state, attemptsMade, stalledCount, lock,
  aged,       \* messages whose job is older than MAX_QUEUE_AGE_MS
  \* the job a worker is running
  pc, cur,
  todo,       \* recommendations whose audit event is not written yet
  targets,    \* <<recommendation, endpoint>> listed and not enqueued yet
  \* dead letters
  flight,     \* letters whose "void enqueueDeadLetter" is not acknowledged
  letters,    \* letters stored in the two dead-letter queues
  issued,     \* issued[m]: letters made for m so far (their number in BullMQ)
  admin,      \* admin[a]: where administrator a is inside retryDeadLetter
  \* the database and the webhook queue
  identity,   \* the installation: not provisioned yet, active, archived
  rows,       \* telemetryMessage rows
  recRows,    \* recommendation rows
  audited,    \* <<message, recommendation>> RECOMMENDATION_CREATED written
  hooks,      \* <<message, recommendation, endpoint>> webhook job enqueued
  \* history
  accepted,   \* messages enqueueTelemetry returned for
  exposed,    \* messages that went through a step that can lose them
  crashes, lockLosses, trims

jobVars == <<state, attemptsMade, stalledCount, lock, aged>>
workVars == <<pc, cur, todo, targets>>
letterVars == <<flight, letters, issued>>
effectVars == <<rows, recRows, audited, hooks>>
faultVars == <<crashes, lockLosses, trims>>
vars == <<jobVars, workVars, letterVars, admin, identity, effectVars,
          accepted, exposed, faultVars>>

JobStates == {"none", "waiting", "active", "delayed", "completed", "failed"}
DeadQueues == {"dead-letter", "poison-quarantine"}
Letters == [msg : Messages, number : Nat, queue : DeadQueues]
Flights == [letter : Letters, by : Workers]

TypeOK ==
  /\ state \in [Messages -> JobStates]
  /\ attemptsMade \in [Messages -> 0..attempts]
  /\ stalledCount \in [Messages -> 0..maxStalledCount + 1]
  /\ lock \in [Messages -> Workers \cup {None}]
  /\ aged \subseteq Messages
  /\ pc \in [Workers -> {"idle", "check", "save", "quarantine", "analyse",
                         "publish", "complete"}]
  /\ cur \in [Workers -> Messages \cup {None}]
  /\ todo \in [Workers -> SUBSET Recommendations]
  /\ targets \in [Workers -> SUBSET (Recommendations \X Endpoints)]
  /\ flight \subseteq Flights
  /\ letters \subseteq Letters
  /\ issued \in [Messages -> Nat]
  /\ admin \in [Admins -> [pc : {"idle", "add", "remove"},
                           letter : Letters \cup {None}, added : BOOLEAN]]
  /\ identity \in {"absent", "active", "archived"}
  /\ rows \subseteq Messages
  /\ recRows \subseteq Recommendations
  /\ audited \subseteq Messages \X Recommendations
  /\ hooks \subseteq Messages \X Recommendations \X Endpoints
  /\ accepted \subseteq Messages
  /\ exposed \subseteq Messages
  /\ crashes \in Nat /\ lockLosses \in Nat /\ trims \in Nat

WithinBudget(c, l, t) ==
  \E b \in Budgets : c <= b[1] /\ l <= b[2] /\ t <= b[3]

IdleAdmin == [pc |-> "idle", letter |-> None, added |-> FALSE]

Init ==
  /\ state = [m \in Messages |-> "none"]
  /\ attemptsMade = [m \in Messages |-> 0]
  /\ stalledCount = [m \in Messages |-> 0]
  /\ lock = [m \in Messages |-> None]
  /\ aged = {}
  /\ pc = [w \in Workers |-> "idle"]
  /\ cur = [w \in Workers |-> None]
  /\ todo = [w \in Workers |-> {}]
  /\ targets = [w \in Workers |-> {}]
  /\ flight = {} /\ letters = {} /\ issued = [m \in Messages |-> 0]
  /\ admin = [a \in Admins |-> IdleAdmin]
  /\ identity \in {"absent", "active"}
  /\ rows = {} /\ recRows = {} /\ audited = {} /\ hooks = {}
  /\ accepted = {} /\ exposed = {}
  /\ crashes = 0 /\ lockLosses = 0 /\ trims = 0
-----------------------------------------------------------------------------
(***************************************************************************)
(* Entering the queue                                                      *)
(***************************************************************************)
\* Mutant: the job has no deterministic jobId, an add always makes a job.
NeverKnown(m) == FALSE

\* Redis holds a job with this jobId: waiting, running or retained.
Known(m) == state[m] # "none"

\* telemetryQueue().add with a jobId: a known id makes it a no-op.
Add(m) ==
  IF Known(m) THEN UNCHANGED jobVars
  ELSE /\ state' = [state EXCEPT ![m] = "waiting"]
       /\ attemptsMade' = [attemptsMade EXCEPT ![m] = 0]
       /\ stalledCount' = [stalledCount EXCEPT ![m] = 0]
       /\ lock' = [lock EXCEPT ![m] = None]
       /\ aged' = aged \ {m}

\* enqueueTelemetry called by the API's or the gateway's ingest route, for a
\* new message or for one a device sends again.
Enqueue(m) ==
  /\ Add(m)
  /\ accepted' = accepted \cup {m}
  /\ UNCHANGED <<workVars, letterVars, admin, identity, effectVars, exposed,
                 faultVars>>

\* A retained job is dropped once 1000 newer ones are retained
\* (removeOnComplete, removeOnFail): other traffic decides when.
Trim(m) ==
  /\ state[m] \in {"completed", "failed"}
  /\ WithinBudget(crashes, lockLosses, trims + 1)
  /\ trims' = trims + 1
  /\ state' = [state EXCEPT ![m] = "none"]
  /\ UNCHANGED <<attemptsMade, stalledCount, lock, aged, workVars, letterVars,
                 admin, identity, effectVars, accepted, exposed, crashes,
                 lockLosses>>
-----------------------------------------------------------------------------
(***************************************************************************)
(* The telemetry worker                                                    *)
(***************************************************************************)
\* BullMQ hands a waiting job to a free worker, which locks it.
Take(w, m) ==
  /\ pc[w] = "idle"
  /\ state[m] = "waiting"
  /\ state' = [state EXCEPT ![m] = "active"]
  /\ lock' = [lock EXCEPT ![m] = w]
  /\ pc' = [pc EXCEPT ![w] = "check"]
  /\ cur' = [cur EXCEPT ![w] = m]
  /\ UNCHANGED <<attemptsMade, stalledCount, aged, todo, targets, letterVars,
                 admin, identity, effectVars, accepted, exposed, faultVars>>

Goto(w, where) == pc' = [pc EXCEPT ![w] = where]

\* The slot is free again.
Settle(w) ==
  /\ pc' = [pc EXCEPT ![w] = "idle"]
  /\ cur' = [cur EXCEPT ![w] = None]
  /\ todo' = [todo EXCEPT ![w] = {}]
  /\ targets' = [targets EXCEPT ![w] = {}]

NewLetter(m, queue) ==
  [msg |-> m, number |-> issued[m] + 1, queue |-> queue]

\* Mutant: the handler expects one attempt more than the options allow.
ExhaustedOneLate(made) == made > attempts
\* The failed handler's test.
Exhausted(made) == made >= attempts

\* Mutant: the first attempt is not counted.
RetryLeftAfterFirst(made) == made <= attempts
\* moveToFailed schedules another attempt.
RetryLeft(made) == made < attempts

(***************************************************************************)
(* The job threw: BullMQ's moveToFailed schedules another attempt or fails *)
(* the job for good, and the "failed" handler then starts an enqueueDead-  *)
(* Letter nobody awaits.  A worker that no longer holds the lock changes   *)
(* nothing.                                                                *)
(***************************************************************************)
Throw(w) ==
  LET m == cur[w]
      made == attemptsMade[m] + 1
  IN
  /\ Settle(w)
  /\ UNCHANGED <<letters, stalledCount, aged>>
  /\ IF lock[m] # w
     THEN UNCHANGED <<state, attemptsMade, lock, flight, issued>>
     ELSE /\ lock' = [lock EXCEPT ![m] = None]
          /\ attemptsMade' = [attemptsMade EXCEPT ![m] = made]
          /\ state' = [state EXCEPT ![m] = IF RetryLeft(made) THEN "delayed"
                                           ELSE "failed"]
          /\ IF Exhausted(made)
             THEN /\ flight' = flight \cup
                       {[letter |-> NewLetter(m, "dead-letter"), by |-> w]}
                  /\ issued' = [issued EXCEPT ![m] = @ + 1]
             ELSE UNCHANGED <<flight, issued>>

\* Mutant: a job past the age limit is put back instead of failed.
CheckAgePostpones(w) ==
  /\ pc[w] = "check"
  /\ IF cur[w] \in aged
     THEN /\ Settle(w)
          /\ state' = [state EXCEPT ![cur[w]] = "delayed"]
          /\ lock' = [lock EXCEPT ![cur[w]] = None]
          /\ UNCHANGED <<attemptsMade, stalledCount, aged, letterVars>>
     ELSE /\ Goto(w, "save")
          /\ UNCHANGED <<jobVars, cur, todo, targets, letterVars>>
  /\ UNCHANGED <<admin, identity, effectVars, accepted, exposed, faultVars>>

\* Date.now() - job.timestamp > MAX_QUEUE_AGE_MS
CheckAge(w) ==
  /\ pc[w] = "check"
  /\ IF cur[w] \in aged
     THEN Throw(w)
     ELSE /\ Goto(w, "save")
          /\ UNCHANGED <<jobVars, cur, todo, targets, letterVars>>
  /\ UNCHANGED <<admin, identity, effectVars, accepted, exposed, faultVars>>

\* saveTelemetryEnvelope returned.  An archived installation may still be in
\* this process's identity cache for 30 s.
Save(w) ==
  /\ pc[w] = "save"
  /\ identity # "absent"
  /\ rows' = rows \cup {cur[w]}
  /\ Goto(w, "analyse")
  /\ UNCHANGED <<jobVars, cur, todo, targets, letterVars, admin, identity,
                 recRows, audited, hooks, accepted, exposed, faultVars>>

\* saveTelemetryEnvelope threw INSTALLATION_IDENTITY_NOT_FOUND.
SavePoisoned(w) ==
  /\ pc[w] = "save"
  /\ identity # "active"
  /\ Goto(w, "quarantine")
  /\ UNCHANGED <<jobVars, cur, todo, targets, letterVars, admin, identity,
                 effectVars, accepted, exposed, faultVars>>

\* await enqueueDeadLetter with a "poison:" reason; the job then returns.
Quarantine(w) ==
  /\ pc[w] = "quarantine"
  /\ letters' = letters \cup {NewLetter(cur[w], "poison-quarantine")}
  /\ issued' = [issued EXCEPT ![cur[w]] = @ + 1]
  /\ Goto(w, "complete")
  /\ UNCHANGED <<jobVars, cur, todo, targets, flight, admin, identity,
                 effectVars, accepted, exposed, faultVars>>

\* Mutant: saveRecommendations is not awaited and rejects.
AnalyseUnsaved(w) ==
  /\ pc[w] = "analyse"
  /\ todo' = [todo EXCEPT ![w] = Recommendations]
  /\ Goto(w, "publish")
  /\ UNCHANGED <<jobVars, cur, targets, letterVars, admin, identity,
                 effectVars, accepted, exposed, faultVars>>

\* listTelemetryForInstallation, analyse and saveRecommendations returned.
Analyse(w) ==
  /\ pc[w] = "analyse"
  /\ recRows' = Recommendations
  /\ todo' = [todo EXCEPT ![w] = Recommendations]
  /\ Goto(w, "publish")
  /\ UNCHANGED <<jobVars, cur, targets, letterVars, admin, identity, rows,
                 audited, hooks, accepted, exposed, faultVars>>

\* saveRecommendations threw after some of its upserts.
AnalyseFails(w) ==
  /\ pc[w] = "analyse"
  /\ \E saved \in SUBSET Recommendations : recRows' = recRows \cup saved
  /\ Throw(w)
  /\ UNCHANGED <<admin, identity, rows, audited, hooks, accepted, exposed,
                 faultVars>>

\* The loop body up to listActiveWebhooks, for the next recommendation.
Audit(w) ==
  /\ pc[w] = "publish"
  /\ targets[w] = {}
  /\ \E r \in todo[w] :
       /\ todo' = [todo EXCEPT ![w] = @ \ {r}]
       /\ audited' = audited \cup {<<cur[w], r>>}
       /\ targets' = [targets EXCEPT ![w] = {r} \X Endpoints]
  /\ UNCHANGED <<jobVars, pc, cur, letterVars, admin, identity, rows, recRows,
                 hooks, accepted, exposed, faultVars>>

\* The loop over the endpoints: one enqueueWebhookDelivery.
Notify(w) ==
  /\ pc[w] = "publish"
  /\ \E target \in targets[w] :
       /\ targets' = [targets EXCEPT ![w] = @ \ {target}]
       /\ hooks' = hooks \cup {<<cur[w], target[1], target[2]>>}
  /\ UNCHANGED <<jobVars, pc, cur, todo, letterVars, admin, identity, rows,
                 recRows, audited, accepted, exposed, faultVars>>

\* Mutant: the loops are started and not awaited.
NotAwaited(w) == TRUE
\* Both loops are done.
Published(w) == todo[w] = {} /\ targets[w] = {}

PublishDone(w) ==
  /\ pc[w] = "publish"
  /\ Published(w)
  /\ Goto(w, "complete")
  /\ UNCHANGED <<jobVars, cur, todo, targets, letterVars, admin, identity,
                 effectVars, accepted, exposed, faultVars>>

\* An await of the job rejects: the database or Redis is unavailable.
StepFails(w) ==
  /\ pc[w] \in {"save", "quarantine", "publish"}
  /\ Throw(w)
  /\ UNCHANGED <<admin, identity, effectVars, accepted, exposed, faultVars>>

\* The job returned: BullMQ's moveToCompleted, refused without the lock.
Complete(w) ==
  LET m == cur[w] IN
  /\ pc[w] = "complete"
  /\ Settle(w)
  /\ IF lock[m] = w
     THEN /\ state' = [state EXCEPT ![m] = "completed"]
          /\ lock' = [lock EXCEPT ![m] = None]
     ELSE UNCHANGED <<state, lock>>
  /\ UNCHANGED <<attemptsMade, stalledCount, aged, letterVars, admin, identity,
                 effectVars, accepted, exposed, faultVars>>

Step(w) ==
  \/ CheckAge(w)
  \/ Save(w)
  \/ SavePoisoned(w)
  \/ Quarantine(w)
  \/ Analyse(w)
  \/ AnalyseFails(w)
  \/ Audit(w)
  \/ Notify(w)
  \/ PublishDone(w)
  \/ StepFails(w)
  \/ Complete(w)
-----------------------------------------------------------------------------
(***************************************************************************)
(* What happens to jobs meanwhile                                          *)
(***************************************************************************)
\* The exponential backoff of a delayed job elapses.
Promote(m) ==
  /\ state[m] = "delayed"
  /\ state' = [state EXCEPT ![m] = "waiting"]
  /\ UNCHANGED <<attemptsMade, stalledCount, lock, aged, workVars, letterVars,
                 admin, identity, effectVars, accepted, exposed, faultVars>>

\* job.timestamp falls more than 15 minutes behind.
Age(m) ==
  /\ state[m] \in {"waiting", "active", "delayed"}
  /\ aged' = aged \cup {m}
  /\ UNCHANGED <<state, attemptsMade, stalledCount, lock, workVars, letterVars,
                 admin, identity, effectVars, accepted, exposed, faultVars>>

\* The Redis round trip of the unawaited enqueueDeadLetter ends.
Land(f) ==
  /\ flight' = flight \ {f}
  /\ letters' = letters \cup {f.letter}
  /\ UNCHANGED <<jobVars, workVars, issued, admin, identity, effectVars,
                 accepted, exposed, faultVars>>

(***************************************************************************)
(* The worker process dies.  Its job stays active until the lock expires;  *)
(* letters it was still sending are gone.                                  *)
(***************************************************************************)
Crash(w) ==
  LET sending == {f \in flight : f.by = w} IN
  /\ WithinBudget(crashes + 1, lockLosses, trims)
  /\ pc[w] # "idle" \/ sending # {}
  /\ crashes' = crashes + 1
  /\ Settle(w)
  /\ lock' = [m \in Messages |-> IF lock[m] = w THEN None ELSE lock[m]]
  /\ flight' = flight \ sending
  /\ exposed' = exposed \cup {f.letter.msg : f \in sending}
  /\ UNCHANGED <<state, attemptsMade, stalledCount, aged, letters, issued,
                 admin, identity, effectVars, accepted, lockLosses, trims>>

\* The lock of a running job expires; its worker does not notice.
LoseLock(w) ==
  /\ WithinBudget(crashes, lockLosses + 1, trims)
  /\ cur[w] # None
  /\ lock[cur[w]] = w
  /\ lockLosses' = lockLosses + 1
  /\ lock' = [lock EXCEPT ![cur[w]] = None]
  /\ UNCHANGED <<state, attemptsMade, stalledCount, aged, workVars, letterVars,
                 admin, identity, effectVars, accepted, exposed, crashes, trims>>

(***************************************************************************)
(* BullMQ's stalled-job check finds an active job without a lock.  Past    *)
(* maxStalledCount the job fails with attemptsMade still below attempts,   *)
(* so the "failed" handler does not write a dead letter.                   *)
(***************************************************************************)
RecoverStalled(m) ==
  LET out == stalledCount[m] + 1 > maxStalledCount IN
  /\ state[m] = "active"
  /\ lock[m] = None
  /\ stalledCount' = [stalledCount EXCEPT ![m] = @ + 1]
  /\ state' = [state EXCEPT ![m] = IF out THEN "failed" ELSE "waiting"]
  /\ exposed' = IF out THEN exposed \cup {m} ELSE exposed
  /\ UNCHANGED <<attemptsMade, lock, aged, workVars, letterVars, admin,
                 identity, effectVars, accepted, faultVars>>
-----------------------------------------------------------------------------
(***************************************************************************)
(* The administrator                                                       *)
(***************************************************************************)
\* The installation is created, by the seed or by a process that provisions identities,
\* or archived by offboarding.
Provision ==
  /\ identity = "absent"
  /\ identity' = "active"
  /\ UNCHANGED <<jobVars, workVars, letterVars, admin, effectVars, accepted,
                 exposed, faultVars>>
Archive ==
  /\ identity = "active"
  /\ identity' = "archived"
  /\ UNCHANGED <<jobVars, workVars, letterVars, admin, effectVars, accepted,
                 exposed, faultVars>>

\* retryDeadLetter: source.getJob(jobId) found the letter.
RetryRead(a, l) ==
  /\ admin[a].pc = "idle"
  /\ admin' = [admin EXCEPT ![a] = [pc |-> "add", letter |-> l, added |-> FALSE]]
  /\ UNCHANGED <<jobVars, workVars, letterVars, identity, effectVars, accepted,
                 exposed, faultVars>>

\* retryDeadLetter: enqueueTelemetry with the letter's payload.
RetryAdd(a) ==
  LET m == admin[a].letter.msg IN
  /\ admin[a].pc = "add"
  /\ Add(m)
  /\ admin' = [admin EXCEPT ![a] = [pc |-> "remove", letter |-> admin[a].letter,
                                    added |-> ~Known(m)]]
  /\ UNCHANGED <<workVars, letterVars, identity, effectVars, accepted, exposed,
                 faultVars>>

\* retryDeadLetter: job.remove(), and the route answers {retried: true}.
RetryRemove(a) ==
  LET l == admin[a].letter IN
  /\ admin[a].pc = "remove"
  /\ letters' = letters \ {l}
  /\ exposed' = IF admin[a].added THEN exposed ELSE exposed \cup {l.msg}
  /\ admin' = [admin EXCEPT ![a] = IdleAdmin]
  /\ UNCHANGED <<jobVars, workVars, flight, issued, identity, effectVars,
                 accepted, faultVars>>

\* The API process dies inside retryDeadLetter.
RetryAborted(a) ==
  /\ admin[a].pc # "idle"
  /\ admin' = [admin EXCEPT ![a] = IdleAdmin]
  /\ UNCHANGED <<jobVars, workVars, letterVars, identity, effectVars, accepted,
                 exposed, faultVars>>

\* purgeDeadLetters empties one of the two queues.
Purge(queue) ==
  LET gone == {l \in letters : l.queue = queue} IN
  /\ gone # {}
  /\ letters' = letters \ gone
  /\ exposed' = exposed \cup {l.msg : l \in gone}
  /\ UNCHANGED <<jobVars, workVars, flight, issued, admin, identity, effectVars,
                 accepted, faultVars>>

Next ==
  \/ \E m \in Messages :
       Enqueue(m) \/ Trim(m) \/ Promote(m) \/ Age(m) \/ RecoverStalled(m)
  \/ \E w \in Workers, m \in Messages : Take(w, m)
  \/ \E w \in Workers : Step(w) \/ Crash(w) \/ LoseLock(w)
  \/ \E f \in flight : Land(f)
  \/ Provision \/ Archive
  \/ \E a \in Admins, l \in letters : RetryRead(a, l)
  \/ \E a \in Admins : RetryAdd(a) \/ RetryRemove(a) \/ RetryAborted(a)
  \/ \E queue \in DeadQueues : Purge(queue)

Spec == Init /\ [][Next]_vars

(***************************************************************************)
(* A running worker goes on (its awaits settle), BullMQ hands out waiting  *)
(* jobs, promotes delayed ones and checks for stalled ones on its timers.  *)
(* Arrivals, faults and administrators are not obliged to do anything.     *)
(***************************************************************************)
Fairness ==
  /\ \A w \in Workers : WF_vars(Step(w))
  /\ \A m \in Messages :
       /\ WF_vars(\E w \in Workers : Take(w, m))
       /\ WF_vars(Promote(m))
       /\ WF_vars(RecoverStalled(m))

FairSpec == Spec /\ Fairness
-----------------------------------------------------------------------------
Live(m) == state[m] \in {"waiting", "active", "delayed"}

Processed(m) ==
  /\ m \in rows
  /\ \A r \in Recommendations :
       /\ <<m, r>> \in audited
       /\ \A e \in Endpoints : <<m, r, e>> \in hooks

Held(m) ==
  \/ \E l \in letters : l.msg = m
  \/ \E f \in flight : f.letter.msg = m

(***************************************************************************)
(* Nothing is lost silently: a message enqueueTelemetry accepted is still  *)
(* a live job, or has had all its effects, or is held in (or on its way    *)
(* to) a dead-letter queue; the exceptions are messages that went through  *)
(* one of the four steps that can lose one: a crash with an unacknowledged *)
(* dead letter, a stall too many, a retry that added nothing, a purge.     *)
(***************************************************************************)
NothingLost ==
  \A m \in accepted : Live(m) \/ Processed(m) \/ Held(m) \/ m \in exposed

(***************************************************************************)
(* A subscriber is never told of a recommendation that is not stored, nor  *)
(* of one whose creation the audit trail does not show, nor on behalf of a *)
(* message without a row, whatever the retries and stale workers do.       *)
(***************************************************************************)
NotifiedIsStored ==
  \A h \in hooks :
    /\ h[1] \in rows
    /\ h[2] \in recRows
    /\ <<h[1], h[2]>> \in audited

(***************************************************************************)
(* Duplicate-job protection: as long as no worker loses its lock, two      *)
(* workers never process the same message, through duplicate sends,        *)
(* retries of dead letters, crashes and stalled-job recovery.              *)
(***************************************************************************)
OneProcessor ==
  lockLosses = 0 =>
    \A v, w \in Workers : v # w /\ cur[v] # None => cur[v] # cur[w]

(***************************************************************************)
(* Every job settles: it is completed, or fails for good, after finitely   *)
(* many attempts, backoffs, crashes and stalls.                            *)
(***************************************************************************)
EveryJobSettles == \A m \in Messages : Live(m) ~> ~Live(m)

(***************************************************************************)
(* The pipeline keeps the promise of WorkLedger for every message.         *)
(***************************************************************************)
Fate(m) ==
  CASE Processed(m) -> "processed"
    [] ~Processed(m) /\ Live(m) -> "pending"
    [] ~Processed(m) /\ ~Live(m) /\ Held(m) -> "held"
    [] ~Processed(m) /\ ~Live(m) /\ ~Held(m) /\ m \in accepted -> "lost"
    [] OTHER -> "unknown"

Ledger == INSTANCE WorkLedger
            WITH Items <- Messages, fate <- [m \in Messages |-> Fate(m)], risky <- exposed

KeepsLedger == Ledger!Spec

(***************************************************************************)
(* What the recovery runbook says of the retry route: it puts the message  *)
(* of a dead letter back into processing once the cause is remedied.  When *)
(* a retry has removed the letter of an active installation's message, the *)
(* message is a live job, or processed, or held elsewhere.                 *)
(***************************************************************************)
RetryRequeues ==
  [][\A a \in Admins : \A l \in letters :
       /\ admin[a].pc = "remove" /\ admin'[a].pc = "idle"
       /\ admin[a].letter = l /\ l \notin letters' /\ identity = "active"
       => Live(l.msg)' \/ Processed(l.msg)' \/ Held(l.msg)']_vars
=============================================================================
