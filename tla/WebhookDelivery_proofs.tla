------------------------ MODULE WebhookDelivery_proofs ------------------------
(***************************************************************************)
(* Proofs about WebhookDelivery for any jobs, keys, limits and numbers of  *)
(* faults and retries.                                                     *)
(*                                                                         *)
(* The invariant has three parts besides the types.  JobsFit says which    *)
(* counters and letters go with which BullMQ state: it bounds the attempts *)
(* and makes sure that a failed job got its letter or stalled out.         *)
(* Answered remembers why a job is about to write what it writes.  Limited *)
(* is the failure limit with the job that is due to enforce it.            *)
(***************************************************************************)
EXTENDS WebhookDelivery, TLAPS

Places == {"idle", "deliver", "recordDelivered", "markSuccess",
           "recordFailed", "markFailure", "disable"}

\* A job in the processor is active; short of failing it has an attempt left,
\* has not stalled out and has no letter; a failed one has one of the two.
JobFits(j) ==
  /\ pc[j] # "idle" => state[j] = "active"
  /\ state[j] # "failed" =>
       /\ attemptsMade[j] < attempts
       /\ stalledCount[j] <= maxStalledCount
       /\ letter[j] = "none"
  /\ state[j] = "failed" => letter[j] # "none" \/ StalledOut(j)
JobsFit == \A j \in Jobs : JobFits(j)

\* Only an accepted delivery is about to be recorded as one.
Answered ==
  \A j \in Jobs : pc[j] \in {"recordDelivered", "markSuccess"} => Key[j] \in received

\* Only a failure at the limit is about to disable the endpoint.
DueToDisable == \A j \in Jobs : pc[j] = "disable" => reached
Limited == DueToDisable /\ LimitDisables /\ NotDisabledEarly

IInv == TypeOK /\ JobsFit /\ Answered /\ DeliveredWasReceived /\ Limited

\* Another attempt is scheduled, or the attempts are exhausted.
LEMMA OneOrTheOther ==
  ASSUME NEW n \in Nat
  PROVE  Exhausted(n) <=> ~RetryLeft(n)
BY WebhookAssumption DEF Exhausted, RetryLeft

LEMMA InitInv == Init => IInv
<1> SUFFICES ASSUME Init PROVE IInv
  OBVIOUS
<1> USE WebhookAssumption DEF Init
<1>0. 0 \in 0..attempts /\ 0 \in 0..maxStalledCount + 1 /\ 0 \in 0..MaxFaults
      /\ 0 \in 0..MaxRetries
  OBVIOUS
<1>1. TypeOK
  BY <1>0 DEF TypeOK
<1>2. JobsFit
  BY DEF JobsFit, JobFits
<1>3. Answered /\ DeliveredWasReceived
  BY DEF Answered, DeliveredWasReceived
<1>4. Limited
  BY DEF Limited, DueToDisable, LimitDisables, NotDisabledEarly
<1> QED BY <1>1, <1>2, <1>3, <1>4 DEF IInv

(***************************************************************************)
(* A job that throws from the processor.                                   *)
(***************************************************************************)
LEMMA ThrowFits ==
  ASSUME TypeOK, JobsFit, NEW j \in Jobs, pc[j] # "idle", Throw(j)
  PROVE  /\ state' \in [Jobs -> {"new", "listed", "waiting", "active", "delayed",
                                 "completed", "failed"}]
         /\ attemptsMade' \in [Jobs -> 0..attempts]
         /\ stalledCount' = stalledCount
         /\ pc' = [pc EXCEPT ![j] = "idle"]
         /\ letter' \in [Jobs -> {"none", "sending", "stored", "lost"}]
         /\ JobsFit'
<1> DEFINE n == attemptsMade[j] + 1
<1>1. n \in Nat /\ n <= attempts /\ n > 0
  BY WebhookAssumption DEF TypeOK, JobsFit, JobFits
<1>2. Exhausted(n) <=> ~RetryLeft(n)
  BY <1>1, OneOrTheOther
<1>3. /\ pc' = [pc EXCEPT ![j] = "idle"]
      /\ attemptsMade' = [attemptsMade EXCEPT ![j] = n]
      /\ state' = [state EXCEPT ![j] = IF RetryLeft(n) THEN "delayed" ELSE "failed"]
      /\ letter' = IF Exhausted(n) THEN [letter EXCEPT ![j] = "sending"] ELSE letter
      /\ stalledCount' = stalledCount
  BY DEF Throw, Goto
<1>4. RetryLeft(n) => n < attempts
  BY DEF RetryLeft
<1> HIDE DEF n
<1>5. /\ state' \in [Jobs -> {"new", "listed", "waiting", "active", "delayed",
                              "completed", "failed"}]
      /\ attemptsMade' \in [Jobs -> 0..attempts]
      /\ letter' \in [Jobs -> {"none", "sending", "stored", "lost"}]
  BY <1>1, <1>3, WebhookAssumption DEF TypeOK
<1>6. ASSUME NEW k \in Jobs PROVE JobFits(k)'
  <2>1. CASE k # j
    BY <1>3, <2>1 DEF TypeOK, JobsFit, JobFits, StalledOut
  <2>2. CASE k = j
    BY <1>1, <1>2, <1>3, <1>4, <2>2, WebhookAssumption
       DEF TypeOK, JobsFit, JobFits, StalledOut
  <2> QED BY <2>1, <2>2
<1> QED BY <1>3, <1>5, <1>6 DEF JobsFit

(***************************************************************************)
(* The steps of a job outside the processor: endpoint and records stay.    *)
(***************************************************************************)
Outside(j) == List(j) \/ Enqueue(j) \/ Retry(j) \/ Start(j) \/ Promote(j)
              \/ LetterArrives(j) \/ LetterLost(j)

LEMMA OutsideInv ==
  ASSUME IInv, NEW j \in Jobs, Outside(j)
  PROVE  IInv'
<1> USE WebhookAssumption
<1>1. TypeOK /\ JobsFit /\ Answered /\ DeliveredWasReceived /\ Limited
  BY DEF IInv
<1>2. /\ UNCHANGED <<endpointVars, row, historyVars>>
      /\ pc' = pc \/ (pc' = [pc EXCEPT ![j] = "deliver"] /\ state[j] = "waiting")
  BY DEF Outside, List, Enqueue, Retry, Start, Promote, LetterArrives, LetterLost, Goto
<1>3. TypeOK' /\ JobsFit'
  <2>1. CASE List(j) \/ Enqueue(j) \/ Promote(j)
    BY <1>1, <2>1 DEF TypeOK, JobsFit, JobFits, StalledOut, List, Enqueue, Promote,
                      endpointVars, historyVars
  <2>2. CASE Start(j)
    BY <1>1, <2>2 DEF TypeOK, JobsFit, JobFits, StalledOut, Start, Goto,
                      endpointVars, historyVars
  <2>3. CASE Retry(j)
    BY <1>1, <2>3 DEF TypeOK, JobsFit, JobFits, StalledOut, Retry,
                      endpointVars, historyVars
  <2>4. CASE LetterArrives(j) \/ LetterLost(j)
    BY <1>1, <2>4 DEF TypeOK, JobsFit, JobFits, StalledOut, LetterArrives, LetterLost,
                      Fault, endpointVars, historyVars
  <2> QED BY <2>1, <2>2, <2>3, <2>4 DEF Outside
<1>4. \A k \in Jobs : pc'[k] = pc[k] \/ pc'[k] = "deliver"
  BY <1>1, <1>2 DEF TypeOK
<1>5. pc[j] # "disable" \/ pc' = pc
  BY <1>1, <1>2 DEF JobsFit, JobFits
<1>6. Answered' /\ DeliveredWasReceived'
  BY <1>1, <1>2, <1>4 DEF Answered, DeliveredWasReceived, historyVars
<1>7. Limited'
  <2>1. \A k \in Jobs : pc[k] = "disable" <=> pc'[k] = "disable"
    BY <1>1, <1>2, <1>5 DEF TypeOK
  <2> QED BY <1>1, <1>2, <2>1
          DEF Limited, DueToDisable, LimitDisables, NotDisabledEarly, endpointVars, historyVars
<1> QED BY <1>3, <1>6, <1>7 DEF IInv

(***************************************************************************)
(* The steps of the processor.                                             *)
(***************************************************************************)
LEMMA StepInv ==
  ASSUME IInv, NEW j \in Jobs, Step(j)
  PROVE  IInv'
<1> USE WebhookAssumption
<1>1. TypeOK /\ JobsFit /\ Answered /\ DeliveredWasReceived /\ Limited
  BY DEF IInv
<1>2. CASE Deliver(j) \/ DeliverFails(j) \/ RecordDelivered(j) \/ SuccessNotStored(j)
             \/ RecordFailed(j)
  <2>1. /\ UNCHANGED <<state, attemptsMade, stalledCount, letter, endpointVars,
                       reached, slipped, retries>>
        /\ \E p \in Places \ {"idle", "disable"} : pc' = [pc EXCEPT ![j] = p]
        /\ pc[j] \notin {"idle", "disable"}
    BY <1>2 DEF Deliver, DeliverFails, RecordDelivered, SuccessNotStored, RecordFailed,
                Goto, Places, jobVarsButPc, historyVars
  <2>2. TypeOK'
    <3>1. received' \in SUBSET Keys /\ row' \in [Keys -> {"none", "delivered", "failed"}]
      BY <1>1, <1>2 DEF TypeOK, Deliver, DeliverFails, RecordDelivered, SuccessNotStored,
                        RecordFailed, historyVars
    <3>2. faults' \in 0..MaxFaults
      BY <1>1, <1>2 DEF TypeOK, Deliver, DeliverFails, RecordDelivered, SuccessNotStored,
                        RecordFailed, Fault
    <3> QED BY <1>1, <2>1, <3>1, <3>2 DEF TypeOK, Places, endpointVars
  <2>3. JobsFit'
    BY <1>1, <2>1 DEF TypeOK, JobsFit, JobFits, StalledOut
  <2>4. Answered' /\ DeliveredWasReceived'
    <3>1. CASE Deliver(j)
      BY <1>1, <3>1 DEF TypeOK, Answered, DeliveredWasReceived, Deliver, Goto
    <3>2. CASE RecordDelivered(j)
      BY <1>1, <3>2 DEF TypeOK, Answered, DeliveredWasReceived, RecordDelivered, Goto,
                        historyVars
    <3>3. CASE DeliverFails(j) \/ SuccessNotStored(j) \/ RecordFailed(j)
      BY <1>1, <3>3 DEF TypeOK, Answered, DeliveredWasReceived, DeliverFails,
                        SuccessNotStored, RecordFailed, Goto, historyVars
    <3> QED BY <1>2, <3>1, <3>2, <3>3
  <2>5. Limited'
    <3>1. \A k \in Jobs : pc[k] = "disable" <=> pc'[k] = "disable"
      BY <1>1, <2>1 DEF TypeOK
    <3> QED BY <1>1, <2>1, <3>1
            DEF Limited, DueToDisable, LimitDisables, NotDisabledEarly, endpointVars
  <2> QED BY <2>2, <2>3, <2>4, <2>5 DEF IInv
<1>3. CASE MarkSuccess(j)
  <2>1. /\ pc' = [pc EXCEPT ![j] = "idle"] /\ pc[j] = "markSuccess"
        /\ failureCount' = 0 /\ status' = "ACTIVE"
        /\ state' = [state EXCEPT ![j] = "completed"]
        /\ UNCHANGED <<attemptsMade, stalledCount, letter, row, offboarded,
                       received, reached, slipped, faults, retries>>
    BY <1>3 DEF MarkSuccess, Goto, AfterSuccess, historyVars
  <2>2. TypeOK' /\ JobsFit'
    BY <1>1, <2>1 DEF TypeOK, JobsFit, JobFits, StalledOut
  <2>3. Answered' /\ DeliveredWasReceived' /\ Limited'
    BY <1>1, <2>1 DEF TypeOK, Answered, DeliveredWasReceived, Limited, DueToDisable,
                      LimitDisables, NotDisabledEarly
  <2> QED BY <2>2, <2>3 DEF IInv
<1>4. CASE MarkFailure(j)
  <2> DEFINE n == failureCount + 1
  <2>1. /\ pc[j] = "markFailure"
        /\ failureCount' = n /\ status' = "FAILING"
        /\ reached' = (reached \/ n >= disableAfter)
        /\ UNCHANGED <<row, offboarded, received, slipped, faults, retries>>
    BY <1>4 DEF MarkFailure
  <2>2. n \in Nat
    BY <1>1 DEF TypeOK
  <2>3. CASE n >= disableAfter
    <3>1. /\ pc' = [pc EXCEPT ![j] = "disable"]
          /\ UNCHANGED <<state, attemptsMade, stalledCount, letter>>
      BY <1>4, <2>3 DEF MarkFailure, Limit, Goto, jobVarsButPc
    <3>2. TypeOK' /\ JobsFit'
      BY <1>1, <2>1, <2>2, <3>1 DEF TypeOK, JobsFit, JobFits, StalledOut
    <3>3. Answered' /\ DeliveredWasReceived' /\ Limited'
      BY <1>1, <2>1, <2>3, <3>1
         DEF TypeOK, Answered, DeliveredWasReceived, Limited, DueToDisable,
             LimitDisables, NotDisabledEarly
    <3> QED BY <3>2, <3>3 DEF IInv
  <2>4. CASE ~(n >= disableAfter)
    <3>1. Throw(j)
      BY <1>4, <2>4 DEF MarkFailure, Limit
    <3>2. /\ pc' = [pc EXCEPT ![j] = "idle"] /\ JobsFit'
          /\ TypeOK'
      BY <1>1, <2>1, <2>2, <3>1, ThrowFits DEF TypeOK
    <3>3. Answered' /\ DeliveredWasReceived' /\ Limited'
      BY <1>1, <2>1, <2>4, <3>2
         DEF TypeOK, Answered, DeliveredWasReceived, Limited, DueToDisable,
             LimitDisables, NotDisabledEarly
    <3> QED BY <3>2, <3>3 DEF IInv
  <2> QED BY <2>3, <2>4
<1>5. CASE Disable(j) \/ FailureNotStored(j)
  <2>1. /\ Throw(j) /\ pc[j] # "idle"
        /\ UNCHANGED <<failureCount, offboarded, row, received, reached, retries>>
        /\ faults' \in {faults, faults + 1} /\ (faults' # faults => faults < MaxFaults)
    BY <1>5 DEF Disable, FailureNotStored, Fault, historyVars, endpointVars
  <2>2. \/ status' = "DISABLED" /\ slipped' = slipped /\ pc[j] = "disable"
        \/ status' = status /\ slipped' = (slipped \/ pc[j] = "disable")
    BY <1>5 DEF Disable, FailureNotStored, historyVars, endpointVars
  <2>3. pc' = [pc EXCEPT ![j] = "idle"] /\ JobsFit'
    BY <1>1, <2>1, ThrowFits
  <2>4. TypeOK'
    <3>1. /\ state' \in [Jobs -> {"new", "listed", "waiting", "active", "delayed",
                                  "completed", "failed"}]
          /\ attemptsMade' \in [Jobs -> 0..attempts]
          /\ stalledCount' = stalledCount
          /\ letter' \in [Jobs -> {"none", "sending", "stored", "lost"}]
      BY <1>1, <2>1, ThrowFits
    <3>2. status' \in {"ACTIVE", "FAILING", "DISABLED"} /\ slipped' \in BOOLEAN
      BY <1>1, <2>2 DEF TypeOK
    <3>3. faults' \in 0..MaxFaults
      BY <1>1, <2>1 DEF TypeOK
    <3> QED BY <1>1, <2>1, <2>3, <3>1, <3>2, <3>3 DEF TypeOK
  <2>5. Answered' /\ DeliveredWasReceived' /\ Limited'
    BY <1>1, <2>1, <2>2, <2>3
       DEF TypeOK, Answered, DeliveredWasReceived, Limited, DueToDisable,
           LimitDisables, NotDisabledEarly
  <2> QED BY <2>3, <2>4, <2>5 DEF IInv
<1> QED BY <1>2, <1>3, <1>4, <1>5 DEF Step

\* A crash fails only a job that has stalled out.
LEMMA CrashInv ==
  ASSUME IInv, NEW j \in Jobs, Crash(j)
  PROVE  IInv'
<1> USE WebhookAssumption
<1>1. TypeOK /\ JobsFit /\ Answered /\ DeliveredWasReceived /\ Limited
  BY DEF IInv
<1>2. /\ pc[j] # "idle" /\ pc' = [pc EXCEPT ![j] = "idle"]
      /\ faults < MaxFaults /\ faults' = faults + 1
      /\ stalledCount' = [stalledCount EXCEPT ![j] = stalledCount[j] + 1]
      /\ state' = [state EXCEPT ![j] =
           IF stalledCount[j] + 1 > maxStalledCount THEN "failed" ELSE "waiting"]
      /\ slipped' = (slipped \/ pc[j] = "disable")
      /\ UNCHANGED <<attemptsMade, letter, status, failureCount, offboarded, row,
                     received, reached, retries>>
  BY <1>1 DEF Crash, Fault, Goto, StalledOut, endpointVars, TypeOK
<1>3. stalledCount[j] \in Nat /\ stalledCount[j] <= maxStalledCount
  BY <1>1, <1>2 DEF TypeOK, JobsFit, JobFits
<1>4. TypeOK'
  BY <1>1, <1>2, <1>3 DEF TypeOK
<1>5. ASSUME NEW k \in Jobs PROVE JobFits(k)'
  <2>1. CASE k # j
    BY <1>1, <1>2, <2>1 DEF TypeOK, JobsFit, JobFits, StalledOut
  <2>2. CASE k = j
    BY <1>1, <1>2, <1>3, <2>2 DEF TypeOK, JobsFit, JobFits, StalledOut
  <2> QED BY <2>1, <2>2
<1>6. Answered' /\ DeliveredWasReceived' /\ Limited'
  BY <1>1, <1>2 DEF TypeOK, Answered, DeliveredWasReceived, Limited, DueToDisable,
                    LimitDisables, NotDisabledEarly
<1> QED BY <1>4, <1>5, <1>6 DEF IInv, JobsFit

LEMMA InductiveInv == IInv /\ [Next]_vars => IInv'
<1> SUFFICES ASSUME IInv, [Next]_vars PROVE IInv'
  OBVIOUS
<1>1. ASSUME NEW j \in Jobs, Outside(j) PROVE IInv'
  BY <1>1, OutsideInv
<1>2. ASSUME NEW j \in Jobs, Step(j) PROVE IInv'
  BY <1>2, StepInv
<1>3. ASSUME NEW j \in Jobs, Crash(j) PROVE IInv'
  BY <1>3, CrashInv
<1>4. CASE Offboard
  BY <1>4 DEF Offboard, IInv, TypeOK, JobsFit, JobFits, StalledOut, Answered,
              DeliveredWasReceived, Limited, DueToDisable, LimitDisables,
              NotDisabledEarly, jobVars, jobVarsButPc, historyVars
<1>5. CASE UNCHANGED vars
  BY <1>5 DEF vars, IInv, TypeOK, JobsFit, JobFits, StalledOut, Answered,
              DeliveredWasReceived, Limited, DueToDisable, LimitDisables,
              NotDisabledEarly, jobVars, jobVarsButPc, endpointVars, historyVars
<1> QED BY <1>1, <1>2, <1>3, <1>4, <1>5 DEF Next, Outside

\* The inductive invariant holds in every reachable state.
LEMMA Invariant == Spec => []IInv
BY InitInv, InductiveInv, PTL DEF Spec

(***************************************************************************)
(* Jobs, endpoint and records keep their types; in particular a job makes  *)
(* no more attempts and survives no more stalls than configured.           *)
(***************************************************************************)
THEOREM TypeCorrect == Spec => []TypeOK
<1>1. IInv => TypeOK
  BY DEF IInv
<1> QED BY <1>1, Invariant, PTL

(***************************************************************************)
(* A delivery recorded as delivered was accepted by the endpoint.          *)
(***************************************************************************)
THEOREM RecordIsTrue == Spec => []DeliveredWasReceived
<1>1. IInv => DeliveredWasReceived
  BY DEF IInv
<1> QED BY <1>1, Invariant, PTL

(***************************************************************************)
(* Failures of concurrent jobs do not leak through the limit that          *)
(* markWebhookResult enforces in two statements.                           *)
(***************************************************************************)
THEOREM LimitIsEnforced == Spec => []LimitDisables
<1>1. IInv => LimitDisables
  BY DEF IInv, Limited
<1> QED BY <1>1, Invariant, PTL

(***************************************************************************)
(* Only the limit and offboarding disable an endpoint.                     *)
(***************************************************************************)
THEOREM DisabledForAReason == Spec => []NotDisabledEarly
<1>1. IInv => NotDisabledEarly
  BY DEF IInv, Limited
<1> QED BY <1>1, Invariant, PTL

(***************************************************************************)
(* The failed handler leaves no job that gave up without a letter, but     *)
(* for jobs that stalled out.                                              *)
(***************************************************************************)
THEOREM NoLetterForgotten == Spec => []GivenUpHasLetter
<1>1. IInv => GivenUpHasLetter
  BY DEF IInv, JobsFit, JobFits, GivenUpHasLetter
<1> QED BY <1>1, Invariant, PTL
-----------------------------------------------------------------------------
(***************************************************************************)
(* The deliveries implement the ledger.  A job that stalled out has no     *)
(* letter, so that being at risk is for good.                              *)
(***************************************************************************)
OneWayOut == \A j \in Jobs : StalledOut(j) => letter[j] = "none"

LedgerInv == IInv /\ OneWayOut

\* What a step may do to one job: go on as it is, or change its fate by a move of the
\* ledger, and it stays at risk if it was.
Keeps(j) ==
  /\ Fate(j)' # Fate(j) =>
       /\ <<Fate(j), Fate(j)'>> \in Ledger!Moves
       /\ Fate(j)' = "lost" => (letter[j] = "lost" \/ StalledOut(j))'
  /\ letter[j] = "lost" \/ StalledOut(j) => (letter[j] = "lost" \/ StalledOut(j))'
  /\ (StalledOut(j) => letter[j] = "none")'

LEMMA FateIs ==
  ASSUME NEW j \in Jobs
  PROVE  Fate(j) = IF state[j] \in {"new", "listed"} THEN "unknown"
                   ELSE IF state[j] \in {"waiting", "active", "delayed"} THEN "pending"
                   ELSE IF state[j] = "completed" THEN "processed"
                   ELSE IF letter[j] \in {"sending", "stored"} THEN "held" ELSE "lost"
<1>1. CASE state[j] \in {"new", "listed"}
  BY <1>1 DEF Fate
<1>2. CASE state[j] \in {"waiting", "active", "delayed"}
  BY <1>2 DEF Fate
<1>3. CASE state[j] = "completed"
  BY <1>3 DEF Fate
<1>4. CASE state[j] \notin {"new", "listed", "waiting", "active", "delayed", "completed"}
  BY <1>4 DEF Fate
<1> QED BY <1>1, <1>2, <1>3, <1>4

\* Only the job of the step changes; what it changes to is one of seven things.
LEMMA OthersKeep ==
  ASSUME LedgerInv, NEW j \in Jobs,
         state'[j] = state[j], letter'[j] = letter[j], stalledCount'[j] = stalledCount[j]
  PROVE  Keeps(j)
<1>1. Fate(j)' = Fate(j) /\ (StalledOut(j)' <=> StalledOut(j))
  BY FateIs DEF StalledOut, Fate
<1> QED BY <1>1 DEF Keeps, LedgerInv, OneWayOut

\* The state of the job moves within what the ledger calls pending, or is done.
LEMMA GoesOnKeeps ==
  ASSUME LedgerInv, NEW j \in Jobs,
         letter'[j] = letter[j], stalledCount'[j] = stalledCount[j],
         \/ state[j] \in {"new", "listed"} /\ state'[j] \in {"listed", "waiting"}
         \/ state[j] \in {"waiting", "active", "delayed"}
              /\ state'[j] \in {"waiting", "active", "delayed", "completed"}
  PROVE  Keeps(j)
<1>1. StalledOut(j)' <=> StalledOut(j)
  BY DEF StalledOut
<1>2. \/ Fate(j) = "unknown" /\ Fate(j)' \in {"unknown", "pending"}
      \/ Fate(j) = "pending" /\ Fate(j)' \in {"pending", "processed"}
  BY FateIs DEF Fate
<1> QED BY <1>1, <1>2 DEF Keeps, LedgerInv, OneWayOut, Ledger!Moves

\* The attempts are exhausted and the letter is under way.
LEMMA ThrowKeeps ==
  ASSUME LedgerInv, NEW j \in Jobs, pc[j] # "idle", Throw(j)
  PROVE  \A i \in Jobs : Keeps(i)
<1> DEFINE n == attemptsMade[j] + 1
<1>1. TypeOK /\ state[j] = "active" /\ stalledCount[j] <= maxStalledCount
      /\ stalledCount[j] \in Nat /\ letter[j] = "none"
  BY WebhookAssumption DEF LedgerInv, IInv, TypeOK, JobsFit, JobFits
<1>2. n \in Nat /\ (Exhausted(n) <=> ~RetryLeft(n))
  BY <1>1, OneOrTheOther DEF TypeOK
<1>3. /\ state' = [state EXCEPT ![j] = IF RetryLeft(n) THEN "delayed" ELSE "failed"]
      /\ letter' = IF Exhausted(n) THEN [letter EXCEPT ![j] = "sending"] ELSE letter
      /\ stalledCount' = stalledCount
  BY DEF Throw
<1> HIDE DEF n
<1>4. ASSUME NEW i \in Jobs, i # j PROVE Keeps(i)
  BY <1>1, <1>3, <1>4, OthersKeep DEF TypeOK
<1>5. CASE RetryLeft(n)
  <2>1. state'[j] = "delayed" /\ letter'[j] = letter[j] /\ stalledCount'[j] = stalledCount[j]
    BY <1>1, <1>2, <1>3, <1>5 DEF TypeOK
  <2> QED BY <1>1, <1>4, <2>1, GoesOnKeeps
<1>6. CASE ~RetryLeft(n)
  <2>1. state'[j] = "failed" /\ letter'[j] = "sending"
    BY <1>1, <1>2, <1>3, <1>6 DEF TypeOK
  <2>2. Fate(j) = "pending" /\ Fate(j)' = "held"
    BY <1>1, <2>1, FateIs DEF Fate
  <2>3. ~StalledOut(j) /\ ~StalledOut(j)'
    BY <1>1, <1>3, WebhookAssumption DEF StalledOut
  <2>4. Keeps(j)
    BY <1>1, <2>1, <2>2, <2>3 DEF Keeps, Ledger!Moves
  <2> QED BY <1>4, <2>4
<1> QED BY <1>5, <1>6

LEMMA OutsideKeeps ==
  ASSUME LedgerInv, NEW j \in Jobs, Outside(j)
  PROVE  \A i \in Jobs : Keeps(i)
<1>0. TypeOK
  BY DEF LedgerInv, IInv
<1>1. CASE List(j) \/ Enqueue(j) \/ Start(j) \/ Promote(j)
  <2>1. /\ letter' = letter /\ stalledCount' = stalledCount
        /\ \E s \in {"listed", "waiting", "active"} : state' = [state EXCEPT ![j] = s]
        /\ \/ state[j] \in {"new", "listed"} /\ state'[j] \in {"listed", "waiting"}
           \/ state[j] \in {"waiting", "active", "delayed"}
                /\ state'[j] \in {"waiting", "active"}
    BY <1>0, <1>1 DEF List, Enqueue, Start, Promote, TypeOK
  <2>2. Keeps(j)
    BY <2>1, GoesOnKeeps
  <2>3. ASSUME NEW i \in Jobs, i # j PROVE Keeps(i)
    BY <1>0, <2>1, <2>3, OthersKeep DEF TypeOK
  <2> QED BY <2>2, <2>3
<1>2. CASE Retry(j)
  <2>1. /\ letter[j] = "stored" /\ letter' = [letter EXCEPT ![j] = "none"]
        /\ state' = [state EXCEPT ![j] = "waiting"]
        /\ stalledCount' = [stalledCount EXCEPT ![j] = 0]
    BY <1>2 DEF Retry
  <2>2. state[j] = "failed" /\ ~StalledOut(j)
    BY <2>1 DEF LedgerInv, OneWayOut, IInv, JobsFit, JobFits
  <2>3. state'[j] = "waiting" /\ letter'[j] = "none" /\ stalledCount'[j] = 0
    BY <1>0, <2>1 DEF TypeOK
  <2>4. Fate(j) = "held" /\ Fate(j)' = "pending"
    BY <2>1, <2>2, <2>3, FateIs DEF Fate
  <2>5. Keeps(j)
    BY <2>1, <2>2, <2>3, <2>4 DEF Keeps, Ledger!Moves
  <2>6. ASSUME NEW i \in Jobs, i # j PROVE Keeps(i)
    BY <1>0, <2>1, <2>6, OthersKeep DEF TypeOK
  <2> QED BY <2>5, <2>6
<1>3. CASE LetterArrives(j) \/ LetterLost(j)
  <2>1. /\ letter[j] = "sending" /\ state' = state /\ stalledCount' = stalledCount
        /\ \E l \in {"stored", "lost"} : letter' = [letter EXCEPT ![j] = l]
    BY <1>3 DEF LetterArrives, LetterLost
  <2>2. state[j] = "failed" /\ ~StalledOut(j) /\ ~StalledOut(j)'
    BY <2>1 DEF LedgerInv, OneWayOut, IInv, JobsFit, JobFits, StalledOut
  <2>3. state'[j] = "failed" /\ letter'[j] \in {"stored", "lost"}
    BY <1>0, <2>1, <2>2 DEF TypeOK
  <2>4. Fate(j) = "held" /\ Fate(j)' = IF letter'[j] = "stored" THEN "held" ELSE "lost"
    BY <2>1, <2>2, <2>3, FateIs DEF Fate
  <2>5. Keeps(j)
    BY <2>1, <2>2, <2>3, <2>4 DEF Keeps, Ledger!Moves
  <2>6. ASSUME NEW i \in Jobs, i # j PROVE Keeps(i)
    BY <1>0, <2>1, <2>6, OthersKeep DEF TypeOK
  <2> QED BY <2>5, <2>6
<1> QED BY <1>1, <1>2, <1>3 DEF Outside

LEMMA StepKeeps ==
  ASSUME LedgerInv, NEW j \in Jobs, Step(j)
  PROVE  \A i \in Jobs : Keeps(i)
<1>0. TypeOK
  BY DEF LedgerInv, IInv
<1>1. ASSUME UNCHANGED <<state, letter, stalledCount>> PROVE \A i \in Jobs : Keeps(i)
  BY <1>1, OthersKeep
<1>2. ASSUME pc[j] # "idle", Throw(j) PROVE \A i \in Jobs : Keeps(i)
  BY <1>2, ThrowKeeps
<1>3. CASE Deliver(j) \/ DeliverFails(j) \/ RecordDelivered(j) \/ SuccessNotStored(j)
             \/ RecordFailed(j)
  BY <1>1, <1>3 DEF Deliver, DeliverFails, RecordDelivered, SuccessNotStored,
                    RecordFailed, jobVarsButPc
<1>4. CASE MarkSuccess(j)
  <2>1. /\ pc[j] = "markSuccess" /\ state' = [state EXCEPT ![j] = "completed"]
        /\ letter' = letter /\ stalledCount' = stalledCount
    BY <1>4 DEF MarkSuccess
  <2>2. state[j] = "active" /\ state'[j] = "completed"
    BY <1>0, <2>1 DEF LedgerInv, IInv, JobsFit, JobFits, TypeOK
  <2>3. Keeps(j)
    BY <2>1, <2>2, GoesOnKeeps
  <2>4. ASSUME NEW i \in Jobs, i # j PROVE Keeps(i)
    BY <1>0, <2>1, <2>4, OthersKeep DEF TypeOK
  <2> QED BY <2>3, <2>4
<1>5. CASE MarkFailure(j)
  BY <1>1, <1>2, <1>5 DEF MarkFailure, jobVarsButPc
<1>6. CASE Disable(j) \/ FailureNotStored(j)
  BY <1>2, <1>6 DEF Disable, FailureNotStored
<1> QED BY <1>3, <1>4, <1>5, <1>6 DEF Step

LEMMA CrashKeeps ==
  ASSUME LedgerInv, NEW j \in Jobs, Crash(j)
  PROVE  \A i \in Jobs : Keeps(i)
<1>0. TypeOK
  BY DEF LedgerInv, IInv
<1>1. /\ state[j] = "active" /\ letter[j] = "none" /\ stalledCount[j] \in Nat
      /\ stalledCount[j] <= maxStalledCount
  BY <1>0, WebhookAssumption DEF LedgerInv, IInv, JobsFit, JobFits, Crash, TypeOK
<1>2. /\ stalledCount' = [stalledCount EXCEPT ![j] = stalledCount[j] + 1]
      /\ state' = [state EXCEPT ![j] = IF StalledOut(j)' THEN "failed" ELSE "waiting"]
      /\ letter' = letter
  BY DEF Crash
<1>3. state'[j] = (IF StalledOut(j)' THEN "failed" ELSE "waiting") /\ letter'[j] = "none"
  BY <1>0, <1>1, <1>2 DEF TypeOK
<1>4. Fate(j) = "pending" /\ Fate(j)' = IF StalledOut(j)' THEN "lost" ELSE "pending"
  BY <1>1, <1>3, FateIs DEF Fate
<1>5. ~StalledOut(j)
  BY <1>1, WebhookAssumption DEF StalledOut
<1>6. Keeps(j)
  BY <1>1, <1>3, <1>4, <1>5 DEF Keeps, Ledger!Moves
<1>7. ASSUME NEW i \in Jobs, i # j PROVE Keeps(i)
  BY <1>0, <1>2, <1>7, OthersKeep DEF TypeOK
<1> QED BY <1>6, <1>7

LEMMA NextKeeps ==
  ASSUME LedgerInv, [Next]_vars PROVE \A j \in Jobs : Keeps(j)
<1>1. ASSUME UNCHANGED <<state, letter, stalledCount>> PROVE \A j \in Jobs : Keeps(j)
  BY <1>1, OthersKeep
<1>2. CASE Offboard
  BY <1>1, <1>2 DEF Offboard, jobVars, jobVarsButPc
<1>3. CASE UNCHANGED vars
  BY <1>1, <1>3 DEF vars, jobVars, jobVarsButPc
<1> QED BY <1>2, <1>3, OutsideKeeps, StepKeeps, CrashKeeps DEF Next, Outside

\* A step of the system is a step of the ledger, or changes nothing it shows.
LEMMA LedgerStep ==
  ASSUME LedgerInv, [Next]_vars PROVE Ledger!Next /\ OneWayOut'
<1>1. \A j \in Jobs : Keeps(j)
  BY NextKeeps
<1>2. OneWayOut'
  BY <1>1 DEF Keeps, OneWayOut
<1>3. AtRisk \subseteq AtRisk'
  BY <1>1 DEF Keeps, AtRisk
<1>4. \A j \in Jobs : Fate(j)' \in Ledger!Fates
  BY FateIs DEF Fate, Ledger!Fates
<1>5. [j \in Jobs |-> Fate(j)]' = [j \in Jobs |-> Fate(j)']
  OBVIOUS
<1>6. [j \in Jobs |-> Fate(j)]' \in [Jobs -> Ledger!Fates]
  BY <1>4, <1>5
<1>7. \A j \in Jobs : Fate(j)' # Fate(j) =>
        /\ <<Fate(j), Fate(j)'>> \in Ledger!Moves
        /\ Fate(j)' = "lost" => j \in AtRisk'
  BY <1>1 DEF Keeps, AtRisk
<1> QED BY <1>2, <1>3, <1>5, <1>6, <1>7 DEF Ledger!Next

(***************************************************************************)
(* Deliveries implement the ledger: one that is done stays done, one that  *)
(* is given up goes to an administrator, and it is lost only if its letter *)
(* was or if it stalled out, for any jobs, attempts, faults and retries.   *)
(***************************************************************************)
THEOREM ImplementsLedger == Spec => KeepsLedger
<1>1. Init => LedgerInv /\ Ledger!Init
  <2> SUFFICES ASSUME Init PROVE LedgerInv /\ Ledger!Init
    OBVIOUS
  <2>1. \A j \in Jobs : Fate(j) = "unknown"
    BY FateIs DEF Init
  <2>2. \A j \in Jobs : letter[j] = "none" /\ ~StalledOut(j)
    BY WebhookAssumption DEF Init, StalledOut
  <2> QED BY <2>1, <2>2, InitInv DEF Ledger!Init, LedgerInv, OneWayOut, AtRisk
<1>2. LedgerInv /\ [Next]_vars => LedgerInv'
  BY InductiveInv, LedgerStep DEF LedgerInv
<1>3. LedgerInv /\ [Next]_vars => Ledger!Next
  BY LedgerStep
<1> QED BY <1>1, <1>2, <1>3, PTL DEF Spec, KeepsLedger, Ledger!SafeSpec

(***************************************************************************)
(* A delivery that is done stays done: neither a retry nor a crash takes   *)
(* its job back into the queue.                                            *)
(***************************************************************************)
THEOREM DeliveredForGood ==
  Spec => [][\A j \in Jobs : Fate(j) = "processed" => Fate(j)' = "processed"]_vars
<1>1. Init => LedgerInv
  <2> SUFFICES ASSUME Init PROVE LedgerInv
    OBVIOUS
  <2>1. \A j \in Jobs : letter[j] = "none"
    BY DEF Init
  <2> QED BY <2>1, InitInv DEF LedgerInv, OneWayOut
<1>2. LedgerInv /\ [Next]_vars => LedgerInv'
  BY InductiveInv, LedgerStep DEF LedgerInv
<1>3. LedgerInv /\ [Next]_vars
        => [\A j \in Jobs : Fate(j) = "processed" => Fate(j)' = "processed"]_vars
  <2> SUFFICES ASSUME LedgerInv, [Next]_vars, NEW j \in Jobs, Fate(j) = "processed"
               PROVE  Fate(j)' = "processed"
    OBVIOUS
  <2>1. Fate(j)' # Fate(j) => <<Fate(j), Fate(j)'>> \in Ledger!Moves
    BY NextKeeps DEF Keeps
  <2> QED BY <2>1 DEF Ledger!Moves
<1> QED BY <1>1, <1>2, <1>3, PTL DEF Spec

(***************************************************************************)
(* The webhooks of an offboarded tenant stay disabled, as the offboarding  *)
(* documents say, if no delivery runs once it is offboarded: a delivery    *)
(* in the worker is the only thing that can enable or fail an endpoint     *)
(* again.                                                                  *)
(***************************************************************************)
THEOREM DrainedStaysDisabled ==
  Spec /\ [](offboarded => \A j \in Jobs : pc[j] = "idle") => []OffboardedIsDisabled
<1> DEFINE Drained == offboarded => \A j \in Jobs : pc[j] = "idle"
<1>1. Init => OffboardedIsDisabled
  BY DEF Init, OffboardedIsDisabled
<1>2. Drained /\ OffboardedIsDisabled /\ [Next]_vars => OffboardedIsDisabled'
  <2> SUFFICES ASSUME Drained, OffboardedIsDisabled, [Next]_vars
               PROVE  OffboardedIsDisabled'
    OBVIOUS
  <2>1. ASSUME NEW j \in Jobs, MarkSuccess(j) \/ MarkFailure(j) \/ Disable(j)
        PROVE  OffboardedIsDisabled'
    <3>1. ~offboarded /\ offboarded' = offboarded
      BY <2>1 DEF MarkSuccess, MarkFailure, Disable
    <3> QED BY <3>1 DEF OffboardedIsDisabled
  <2>2. CASE Offboard
    BY <2>2 DEF Offboard, OffboardedIsDisabled
  <2>3. ASSUME UNCHANGED <<offboarded, status>> PROVE OffboardedIsDisabled'
    BY <2>3 DEF OffboardedIsDisabled
  <2>4. ASSUME NEW j \in Jobs,
               \/ List(j) \/ Enqueue(j) \/ Retry(j) \/ Start(j) \/ Promote(j) \/ Deliver(j)
               \/ DeliverFails(j) \/ RecordDelivered(j) \/ SuccessNotStored(j)
               \/ RecordFailed(j) \/ FailureNotStored(j) \/ Crash(j) \/ LetterArrives(j)
               \/ LetterLost(j)
        PROVE  UNCHANGED <<offboarded, status>>
    BY <2>4 DEF List, Enqueue, Retry, Start, Promote, Deliver, DeliverFails, RecordDelivered,
                SuccessNotStored, RecordFailed, FailureNotStored, Crash, LetterArrives,
                LetterLost, endpointVars
  <2>5. CASE UNCHANGED vars
    BY <2>3, <2>5 DEF vars, endpointVars
  <2> QED BY <2>1, <2>2, <2>3, <2>4, <2>5 DEF Next, Step
<1> QED BY <1>1, <1>2, PTL DEF Spec
=============================================================================
