---------------------------- MODULE FairnessGate ----------------------------
(***************************************************************************)
(* TenantFairnessGate (packages/queue/src/index.ts): the in-process gate   *)
(* through which both BullMQ workers of apps/worker run every job.         *)
(*                                                                         *)
(* A "slot" is one unit of BullMQ concurrency of either worker; a slot     *)
(* that has fetched a job calls run(tenantId, operation) once and is busy  *)
(* until that call settles.  JavaScript runs to completion between awaits, *)
(* so run() has three atomic segments: its entry (up to the first await),  *)
(* the continuation of a waiter whose promise was resolved, and the        *)
(* finally block.  Resolving a waiter only schedules its continuation:     *)
(* anything already in the microtask queue, a new entry included, may run  *)
(* in between, which is why a resolved waiter is a state of its own.       *)
(*                                                                         *)
(* The gate lives in memory: a restart of the worker is Init again.        *)
(***************************************************************************)
EXTENDS Integers, Sequences, FiniteSets

CONSTANTS
  Tenants,            \* tenants whose jobs the workers fetch
  Slots,              \* concurrency slots of the two workers together
  NoTenant,           \* "no job in this slot"
  maximumPerTenant    \* ZOLT_WORKER_CONCURRENCY_PER_TENANT (default 2)

(***************************************************************************)
(* The limit is at least 1.  The code does not check it: Number("") is 0,  *)
(* and a gate with limit 0 queues every call and never resolves one.       *)
(***************************************************************************)
ASSUME GateAssumption ==
  /\ maximumPerTenant \in Nat \ {0}
  /\ NoTenant \notin Tenants
  /\ IsFiniteSet(Slots)

VARIABLES
  active,    \* active[t]: the active map (0 where the map has no entry)
  waiters,   \* waiters[t]: slots whose resolve callback is queued, oldest first
  pc,        \* pc[s]: where slot s is inside run()
  tenant     \* tenant[s]: tenantId of the job in slot s

vars == <<active, waiters, pc, tenant>>

TypeOK ==
  /\ active \in [Tenants -> Nat]
  /\ waiters \in [Tenants -> Seq(Slots)]
  /\ pc \in [Slots -> {"idle", "waiting", "resolved", "running"}]
  /\ tenant \in [Slots -> Tenants \cup {NoTenant}]

Init ==
  /\ active = [t \in Tenants |-> 0]
  /\ waiters = [t \in Tenants |-> << >>]
  /\ pc = [s \in Slots |-> "idle"]
  /\ tenant = [s \in Slots |-> NoTenant]

\* Mutant: the entry counts itself before it compares, one too early.
AtLimitCountingSelf(t) == active[t] + 1 >= maximumPerTenant

\* The entry's test of the map against the limit.
AtLimit(t) == active[t] >= maximumPerTenant

(***************************************************************************)
(* Entry of run() below the limit: counted and the operation started in    *)
(* one synchronous segment.                                                *)
(***************************************************************************)
RunAdmitted(s, t) ==
  /\ pc[s] = "idle"
  /\ ~AtLimit(t)
  /\ active' = [active EXCEPT ![t] = @ + 1]
  /\ pc' = [pc EXCEPT ![s] = "running"]
  /\ tenant' = [tenant EXCEPT ![s] = t]
  /\ UNCHANGED waiters

(***************************************************************************)
(* Entry of run() at the limit: the call parks its resolve callback.       *)
(***************************************************************************)
RunQueued(s, t) ==
  /\ pc[s] = "idle"
  /\ AtLimit(t)
  /\ waiters' = [waiters EXCEPT ![t] = Append(@, s)]
  /\ pc' = [pc EXCEPT ![s] = "waiting"]
  /\ tenant' = [tenant EXCEPT ![s] = t]
  /\ UNCHANGED active

(***************************************************************************)
(* The continuation after "await new Promise": it does not look at the     *)
(* limit again.                                                            *)
(***************************************************************************)
Resume(s) ==
  /\ pc[s] = "resolved"
  /\ active' = [active EXCEPT ![tenant[s]] = @ + 1]
  /\ pc' = [pc EXCEPT ![s] = "running"]
  /\ UNCHANGED <<waiters, tenant>>

\* Math.max(0, n - 1); the entry is deleted at 0.
Decremented(n) == IF n = 0 THEN 0 ELSE n - 1

\* Mutant: the youngest waiter is popped instead of the oldest shifted.
PopYoungest(q) ==
  IF q = << >> THEN [woken |-> {}, rest |-> q]
  ELSE [woken |-> {q[Len(q)]}, rest |-> SubSeq(q, 1, Len(q) - 1)]

\* waiters.get(tenantId)?.shift()?.(): whom it wakes and what stays queued.
Shift(q) ==
  IF q = << >> THEN [woken |-> {}, rest |-> q]
  ELSE [woken |-> {Head(q)}, rest |-> Tail(q)]

(***************************************************************************)
(* The finally block, after the operation returned or threw.               *)
(***************************************************************************)
Finish(s) ==
  LET t == tenant[s]
      shifted == Shift(waiters[t])
  IN
  /\ pc[s] = "running"
  /\ active' = [active EXCEPT ![t] = Decremented(@)]
  /\ waiters' = [waiters EXCEPT ![t] = shifted.rest]
  /\ pc' = [x \in Slots |-> IF x \in shifted.woken THEN "resolved"
                            ELSE IF x = s THEN "idle" ELSE pc[x]]
  /\ tenant' = [tenant EXCEPT ![s] = NoTenant]

Next ==
  \/ \E s \in Slots, t \in Tenants : RunAdmitted(s, t) \/ RunQueued(s, t)
  \/ \E s \in Slots : Resume(s) \/ Finish(s)

Spec == Init /\ [][Next]_vars

(***************************************************************************)
(* The event loop drains its microtasks (Resume), and every operation      *)
(* settles: its awaits are database, Redis and HTTP calls with timeouts    *)
(* (Finish).  Nothing obliges jobs to arrive.                              *)
(***************************************************************************)
Fairness == \A s \in Slots : WF_vars(Resume(s)) /\ WF_vars(Finish(s))

FairSpec == Spec /\ Fairness
-----------------------------------------------------------------------------
InState(t, where) == {s \in Slots : tenant[s] = t /\ pc[s] = where}

(***************************************************************************)
(* The active map counts exactly the operations in progress: the clamp at  *)
(* 0 and the deletion of the entry never lose or invent one, although the  *)
(* increment and the decrement are made by different continuations.        *)
(***************************************************************************)
ActiveCountsRunning ==
  \A t \in Tenants : active[t] = Cardinality(InState(t, "running"))

(***************************************************************************)
(* Every parked call is in its tenant's queue exactly once: the queue      *)
(* lists distinct slots and all slots that wait for this tenant.           *)
(***************************************************************************)
QueueHoldsTheParked ==
  \A t \in Tenants :
    /\ {waiters[t][i] : i \in DOMAIN waiters[t]} = InState(t, "waiting")
    /\ \A i, j \in DOMAIN waiters[t] : waiters[t][i] = waiters[t][j] => i = j

(***************************************************************************)
(* No lost wake-up: while a tenant has parked calls, its running           *)
(* operations and the waiters already resolved fill the limit.  So a       *)
(* parked call always has a call ahead of it whose finally block will      *)
(* shift the queue, and the gate never holds a job back below the limit.   *)
(***************************************************************************)
WorkConserving ==
  \A t \in Tenants :
    waiters[t] # << >> =>
      active[t] + Cardinality(InState(t, "resolved")) >= maximumPerTenant

(***************************************************************************)
(* Every job that enters run() gets to run its operation, however many     *)
(* other jobs of its tenant keep arriving and barging past it.             *)
(***************************************************************************)
EveryCallRuns ==
  \A s \in Slots : pc[s] \in {"waiting", "resolved"} ~> pc[s] = "running"

(***************************************************************************)
(* What maximumPerTenant says: at most that many operations of one tenant  *)
(* at a time.                                                              *)
(***************************************************************************)
AtMostMaximumPerTenant ==
  \A t \in Tenants : Cardinality(InState(t, "running")) <= maximumPerTenant
=============================================================================
