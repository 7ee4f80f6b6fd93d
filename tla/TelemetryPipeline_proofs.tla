----------------------- MODULE TelemetryPipeline_proofs -----------------------
(***************************************************************************)
(* Proofs about TelemetryPipeline for any messages, workers, admini-       *)
(* strators, recommendations and endpoints, any number of attempts and any *)
(* budget of faults.  The invariants are proved in layers, each by         *)
(* induction on top of the ones before it.                                 *)
(***************************************************************************)
EXTENDS TelemetryPipeline, TLAPS

-----------------------------------------------------------------------------
(***************************************************************************)
(* First layer: types, locks and counters                                  *)
(***************************************************************************)
\* A worker is busy exactly while it has a job, and a lock is held by a worker
\* that runs that job, which is then active.
LockInv ==
  /\ \A w \in Workers : cur[w] = None <=> pc[w] = "idle"
  /\ \A w \in Workers, m \in Messages :
       lock[m] = w => cur[w] = m /\ state[m] = "active"

\* A live job has an attempt left and has not stalled too often.
CountersInv ==
  \A m \in Messages :
    Live(m) => attemptsMade[m] < attempts /\ stalledCount[m] <= maxStalledCount

\* An administrator in the middle of a retry works on a letter.
AdminInv == \A a \in Admins : admin[a].pc # "idle" => admin[a].letter \in Letters

BaseInv == TypeOK /\ LockInv /\ CountersInv /\ AdminInv

LEMMA BaseInit == Init => BaseInv
<1> SUFFICES ASSUME Init PROVE BaseInv
  OBVIOUS
<1> USE PipelineAssumption DEF PipelineAssumption, Init
<1>1. TypeOK
  BY DEF TypeOK, JobStates, IdleAdmin
<1>2. LockInv /\ CountersInv /\ AdminInv
  BY DEF LockInv, CountersInv, AdminInv, Live, IdleAdmin
<1> QED BY <1>1, <1>2 DEF BaseInv

\* Where a busy worker's job is.
LEMMA Busy ==
  ASSUME TypeOK, LockInv, NEW w \in Workers, pc[w] # "idle"
  PROVE  cur[w] \in Messages
BY DEF TypeOK, LockInv

\* The number of a message's next letter is a number.
LEMMA LetterFits ==
  ASSUME TypeOK, NEW m \in Messages, NEW queue \in DeadQueues
  PROVE  NewLetter(m, queue) \in Letters
BY DEF TypeOK, NewLetter, Letters

\* A thrown attempt, whichever step threw, keeps the first layer.
LEMMA ThrowBase ==
  ASSUME BaseInv, NEW w \in Workers, pc[w] # "idle", Throw(w),
         recRows' \subseteq Recommendations,
         UNCHANGED <<admin, identity, rows, audited, hooks, accepted, exposed,
                     faultVars>>
  PROVE  BaseInv'
<1> USE PipelineAssumption DEF PipelineAssumption, BaseInv
<1>1. cur[w] \in Messages
  BY Busy
<1>2. LockInv'
  BY <1>1 DEF TypeOK, LockInv, Throw, Settle
<1>3. CountersInv'
  <2>1. CASE lock[cur[w]] # w
    BY <2>1, <1>1 DEF TypeOK, CountersInv, Throw, Settle, Live
  <2>2. CASE lock[cur[w]] = w
    <3> SUFFICES ASSUME NEW m \in Messages, Live(m)'
                 PROVE  attemptsMade'[m] < attempts /\ stalledCount'[m] <= maxStalledCount
      BY DEF CountersInv
    <3>1. stalledCount' = stalledCount
      BY DEF Throw
    <3>2. CASE m = cur[w]
      <4>1. attemptsMade'[m] = attemptsMade[m] + 1 /\ state'[m] \in {"delayed", "failed"}
        BY <2>2, <3>2, <1>1 DEF TypeOK, Throw
      <4>2. RetryLeft(attemptsMade[m] + 1)
        BY <2>2, <3>2, <1>1 DEF TypeOK, Throw, Live
      <4>3. Live(m)
        BY <2>2, <3>2 DEF LockInv, Live
      <4> QED BY <3>1, <4>1, <4>2, <4>3 DEF RetryLeft, CountersInv
    <3>3. CASE m # cur[w]
      BY <2>2, <3>1, <3>3, <1>1 DEF TypeOK, CountersInv, Throw, Live
    <3> QED BY <3>2, <3>3
  <2> QED BY <2>1, <2>2
<1>4. AdminInv'
  BY DEF AdminInv
<1>5. TypeOK'
  <2>1. NewLetter(cur[w], "dead-letter") \in Letters
    BY <1>1, LetterFits DEF DeadQueues
  <2>2. CASE lock[cur[w]] # w
    BY <2>2, <1>1 DEF TypeOK, Throw, Settle, faultVars
  <2>3. CASE lock[cur[w]] = w
    <3>1. Live(cur[w]) /\ attemptsMade[cur[w]] + 1 \in 0..attempts
      BY <2>3, <1>1 DEF TypeOK, LockInv, CountersInv, Live
    <3>2. attemptsMade' \in [Messages -> 0..attempts] /\ state' \in [Messages -> JobStates]
      BY <2>3, <3>1, <1>1 DEF TypeOK, Throw, JobStates
    <3>3. flight' \subseteq Flights /\ issued' \in [Messages -> Nat]
      BY <2>1, <2>3, <1>1 DEF TypeOK, Throw, Flights
    <3> QED BY <2>3, <3>2, <3>3, <1>1 DEF TypeOK, Throw, Settle, faultVars
  <2> QED BY <2>2, <2>3
<1> QED BY <1>2, <1>3, <1>4, <1>5

\* Adding a job for a message: a known message is left alone.
LEMMA AddBase ==
  ASSUME BaseInv, NEW m \in Messages, Add(m), UNCHANGED workVars
  PROVE  /\ LockInv' /\ CountersInv'
         /\ state' \in [Messages -> JobStates]
         /\ attemptsMade' \in [Messages -> 0..attempts]
         /\ stalledCount' \in [Messages -> 0..maxStalledCount + 1]
         /\ lock' \in [Messages -> Workers \cup {None}]
         /\ aged' \subseteq Messages
<1> USE PipelineAssumption DEF PipelineAssumption, BaseInv, TypeOK, Add, jobVars, workVars
<1>1. CASE Known(m)
  BY <1>1 DEF LockInv, CountersInv, Live
<1>2. CASE ~Known(m)
  <2>1. LockInv'
    BY <1>2 DEF LockInv, Known
  <2>2. CountersInv'
    BY <1>2 DEF CountersInv, Live
  <2>3. state' \in [Messages -> JobStates] /\ lock' \in [Messages -> Workers \cup {None}]
    BY <1>2 DEF JobStates
  <2>4. attemptsMade' \in [Messages -> 0..attempts]
    BY <1>2, 0 \in 0..attempts
  <2>5. stalledCount' \in [Messages -> 0..maxStalledCount + 1]
    BY <1>2, 0 \in 0..maxStalledCount + 1
  <2>6. aged' \subseteq Messages
    BY <1>2
  <2> HIDE DEF BaseInv, TypeOK, Add
  <2> QED BY <2>1, <2>2, <2>3, <2>4, <2>5, <2>6
<1> QED BY <1>1, <1>2

\* The first layer is inductive.
LEMMA BaseStep == BaseInv /\ [Next]_vars => BaseInv'
<1> SUFFICES ASSUME BaseInv, [Next]_vars PROVE BaseInv'
  OBVIOUS
<1> USE PipelineAssumption DEF PipelineAssumption, BaseInv
<1>1. ASSUME NEW m \in Messages, Enqueue(m) PROVE BaseInv'
  <2>1. LockInv' /\ CountersInv' /\ AdminInv'
    BY <1>1, AddBase DEF Enqueue, AdminInv
  <2>2. TypeOK'
    BY <1>1, AddBase DEF Enqueue, TypeOK, workVars, letterVars, effectVars, faultVars
  <2> QED BY <2>1, <2>2
<1>2. ASSUME NEW m \in Messages, Trim(m) PROVE BaseInv'
  <2>1. TypeOK'
    BY <1>2 DEF TypeOK, Trim, workVars, letterVars, effectVars, JobStates
  <2>2. LockInv'
    BY <1>2 DEF TypeOK, LockInv, Trim, workVars, letterVars, effectVars
  <2>3. CountersInv'
    BY <1>2 DEF TypeOK, CountersInv, Live, Trim, workVars, letterVars, effectVars
  <2>4. AdminInv'
    BY <1>2 DEF TypeOK, AdminInv, Trim, workVars, letterVars, effectVars
  <2> QED BY <2>1, <2>2, <2>3, <2>4
<1>3. ASSUME NEW m \in Messages, Promote(m) PROVE BaseInv'
  <2>1. TypeOK'
    BY <1>3 DEF TypeOK, Promote, workVars, letterVars, effectVars, faultVars, JobStates
  <2>2. LockInv'
    BY <1>3 DEF TypeOK, LockInv, Promote, workVars, letterVars, effectVars, faultVars
  <2>3. CountersInv'
    BY <1>3 DEF TypeOK, CountersInv, Live, Promote, workVars, letterVars, effectVars, faultVars
  <2>4. AdminInv'
    BY <1>3 DEF TypeOK, AdminInv, Promote, workVars, letterVars, effectVars, faultVars
  <2> QED BY <2>1, <2>2, <2>3, <2>4
<1>4. ASSUME NEW m \in Messages, Age(m) PROVE BaseInv'
  <2>1. TypeOK'
    BY <1>4 DEF TypeOK, Age, workVars, letterVars, effectVars, faultVars
  <2>2. LockInv'
    BY <1>4 DEF TypeOK, LockInv, Age, workVars, letterVars, effectVars, faultVars
  <2>3. CountersInv'
    BY <1>4 DEF TypeOK, CountersInv, Live, Age, workVars, letterVars, effectVars, faultVars
  <2>4. AdminInv'
    BY <1>4 DEF TypeOK, AdminInv, Age, workVars, letterVars, effectVars, faultVars
  <2> QED BY <2>1, <2>2, <2>3, <2>4
<1>5. ASSUME NEW m \in Messages, RecoverStalled(m) PROVE BaseInv'
  <2>1. TypeOK'
    BY <1>5 DEF TypeOK, RecoverStalled, workVars, letterVars, effectVars, faultVars, CountersInv, Live, JobStates
  <2>2. LockInv'
    BY <1>5 DEF TypeOK, LockInv, RecoverStalled, workVars, letterVars, effectVars, faultVars
  <2>3. CountersInv'
    BY <1>5 DEF TypeOK, CountersInv, Live, RecoverStalled, workVars, letterVars, effectVars, faultVars
  <2>4. AdminInv'
    BY <1>5 DEF TypeOK, AdminInv, RecoverStalled, workVars, letterVars, effectVars, faultVars
  <2> QED BY <2>1, <2>2, <2>3, <2>4
<1>6. ASSUME NEW w \in Workers, NEW m \in Messages, Take(w, m) PROVE BaseInv'
  <2>1. TypeOK'
    BY <1>6 DEF TypeOK, Take, letterVars, effectVars, faultVars, JobStates
  <2>2. LockInv'
    BY <1>6 DEF TypeOK, LockInv, Take, letterVars, effectVars, faultVars
  <2>3. CountersInv'
    BY <1>6 DEF TypeOK, CountersInv, Live, Take, letterVars, effectVars, faultVars
  <2>4. AdminInv'
    BY <1>6 DEF TypeOK, AdminInv, Take, letterVars, effectVars, faultVars
  <2> QED BY <2>1, <2>2, <2>3, <2>4
<1>7. ASSUME NEW w \in Workers, CheckAge(w) PROVE BaseInv'
  <2>1. CASE cur[w] \in aged
    BY <1>7, <2>1, ThrowBase DEF CheckAge, effectVars, TypeOK
  <2>2. CASE cur[w] \notin aged
    BY <1>7, <2>2 DEF CheckAge, Goto, TypeOK, LockInv, CountersInv, AdminInv, Live,
                   jobVars, letterVars, effectVars, faultVars
  <2> QED BY <2>1, <2>2
<1>8. ASSUME NEW w \in Workers, AnalyseFails(w) PROVE BaseInv'
  <2>1. recRows' \subseteq Recommendations
    BY <1>8 DEF AnalyseFails, TypeOK
  <2> QED BY <1>8, <2>1, ThrowBase DEF AnalyseFails
<1>9. ASSUME NEW w \in Workers, StepFails(w) PROVE BaseInv'
  BY <1>9, ThrowBase DEF StepFails, effectVars, TypeOK
<1>10. ASSUME NEW w \in Workers, Save(w) PROVE BaseInv'
  <2>1. cur[w] \in Messages
    BY <1>10, Busy DEF Save
  <2>2. TypeOK'
    BY <1>10, <2>1 DEF TypeOK, Save, Goto, jobVars, letterVars, faultVars
  <2>3. LockInv'
    BY <1>10, <2>1 DEF TypeOK, LockInv, Save, Goto, jobVars, letterVars, faultVars
  <2>4. CountersInv'
    BY <1>10, <2>1 DEF TypeOK, CountersInv, Live, Save, Goto, jobVars, letterVars, faultVars
  <2>5. AdminInv'
    BY <1>10, <2>1 DEF TypeOK, AdminInv, Save, Goto, jobVars, letterVars, faultVars
  <2> QED BY <2>2, <2>3, <2>4, <2>5
<1>11. ASSUME NEW w \in Workers, SavePoisoned(w) PROVE BaseInv'
  <2>1. cur[w] \in Messages
    BY <1>11, Busy DEF SavePoisoned
  <2>2. TypeOK'
    BY <1>11, <2>1 DEF TypeOK, SavePoisoned, Goto, jobVars, letterVars, effectVars, faultVars
  <2>3. LockInv'
    BY <1>11, <2>1 DEF TypeOK, LockInv, SavePoisoned, Goto, jobVars, letterVars, effectVars, faultVars
  <2>4. CountersInv'
    BY <1>11, <2>1 DEF TypeOK, CountersInv, Live, SavePoisoned, Goto, jobVars, letterVars, effectVars, faultVars
  <2>5. AdminInv'
    BY <1>11, <2>1 DEF TypeOK, AdminInv, SavePoisoned, Goto, jobVars, letterVars, effectVars, faultVars
  <2> QED BY <2>2, <2>3, <2>4, <2>5
<1>12. ASSUME NEW w \in Workers, Analyse(w) PROVE BaseInv'
  <2>1. cur[w] \in Messages
    BY <1>12, Busy DEF Analyse
  <2>2. TypeOK'
    BY <1>12, <2>1 DEF TypeOK, Analyse, Goto, jobVars, letterVars, faultVars
  <2>3. LockInv'
    BY <1>12, <2>1 DEF TypeOK, LockInv, Analyse, Goto, jobVars, letterVars, faultVars
  <2>4. CountersInv'
    BY <1>12, <2>1 DEF TypeOK, CountersInv, Live, Analyse, Goto, jobVars, letterVars, faultVars
  <2>5. AdminInv'
    BY <1>12, <2>1 DEF TypeOK, AdminInv, Analyse, Goto, jobVars, letterVars, faultVars
  <2> QED BY <2>2, <2>3, <2>4, <2>5
<1>13. ASSUME NEW w \in Workers, Audit(w) PROVE BaseInv'
  <2>1. cur[w] \in Messages
    BY <1>13, Busy DEF Audit
  <2>2. TypeOK'
    BY <1>13, <2>1 DEF TypeOK, Audit, jobVars, letterVars, faultVars
  <2>3. LockInv'
    BY <1>13, <2>1 DEF TypeOK, LockInv, Audit, jobVars, letterVars, faultVars
  <2>4. CountersInv'
    BY <1>13, <2>1 DEF TypeOK, CountersInv, Live, Audit, jobVars, letterVars, faultVars
  <2>5. AdminInv'
    BY <1>13, <2>1 DEF TypeOK, AdminInv, Audit, jobVars, letterVars, faultVars
  <2> QED BY <2>2, <2>3, <2>4, <2>5
<1>14. ASSUME NEW w \in Workers, Notify(w) PROVE BaseInv'
  <2>1. cur[w] \in Messages
    BY <1>14, Busy DEF Notify
  <2>2. TypeOK'
    BY <1>14, <2>1 DEF TypeOK, Notify, jobVars, letterVars, faultVars
  <2>3. LockInv'
    BY <1>14, <2>1 DEF TypeOK, LockInv, Notify, jobVars, letterVars, faultVars
  <2>4. CountersInv'
    BY <1>14, <2>1 DEF TypeOK, CountersInv, Live, Notify, jobVars, letterVars, faultVars
  <2>5. AdminInv'
    BY <1>14, <2>1 DEF TypeOK, AdminInv, Notify, jobVars, letterVars, faultVars
  <2> QED BY <2>2, <2>3, <2>4, <2>5
<1>15. ASSUME NEW w \in Workers, PublishDone(w) PROVE BaseInv'
  <2>1. cur[w] \in Messages
    BY <1>15, Busy DEF PublishDone
  <2>2. TypeOK'
    BY <1>15, <2>1 DEF TypeOK, PublishDone, Goto, jobVars, letterVars, effectVars, faultVars
  <2>3. LockInv'
    BY <1>15, <2>1 DEF TypeOK, LockInv, PublishDone, Goto, jobVars, letterVars, effectVars, faultVars
  <2>4. CountersInv'
    BY <1>15, <2>1 DEF TypeOK, CountersInv, Live, PublishDone, Goto, jobVars, letterVars, effectVars, faultVars
  <2>5. AdminInv'
    BY <1>15, <2>1 DEF TypeOK, AdminInv, PublishDone, Goto, jobVars, letterVars, effectVars, faultVars
  <2> QED BY <2>2, <2>3, <2>4, <2>5
<1>16. ASSUME NEW w \in Workers, Quarantine(w) PROVE BaseInv'
  <2>1. cur[w] \in Messages
    BY <1>16, Busy DEF Quarantine
  <2>2. NewLetter(cur[w], "poison-quarantine") \in Letters
    BY <2>1, LetterFits DEF DeadQueues
  <2>3. TypeOK'
    BY <1>16, <2>1, <2>2 DEF TypeOK, Quarantine, Goto, jobVars, effectVars, faultVars
  <2>4. LockInv' /\ CountersInv' /\ AdminInv'
    BY <1>16 DEF Quarantine, Goto, TypeOK, LockInv, CountersInv, AdminInv, Live, jobVars
  <2> QED BY <2>3, <2>4
<1>17. ASSUME NEW w \in Workers, Complete(w) PROVE BaseInv'
  <2>1. cur[w] \in Messages
    BY <1>17, Busy DEF Complete
  <2>2. TypeOK'
    BY <1>17, <2>1 DEF TypeOK, Complete, Settle, letterVars, effectVars, faultVars, JobStates
  <2>3. LockInv'
    BY <1>17, <2>1 DEF TypeOK, LockInv, Complete, Settle, letterVars, effectVars, faultVars
  <2>4. CountersInv'
    BY <1>17, <2>1 DEF TypeOK, CountersInv, Live, Complete, Settle, letterVars, effectVars, faultVars
  <2>5. AdminInv'
    BY <1>17, <2>1 DEF TypeOK, AdminInv, Complete, Settle, letterVars, effectVars, faultVars
  <2> QED BY <2>2, <2>3, <2>4, <2>5
<1>18. ASSUME NEW w \in Workers, Crash(w) PROVE BaseInv'
  <2>1. TypeOK'
    BY <1>18 DEF TypeOK, Crash, Settle, effectVars, Flights, Letters
  <2>2. LockInv'
    BY <1>18 DEF TypeOK, LockInv, Crash, Settle, effectVars
  <2>3. CountersInv'
    BY <1>18 DEF TypeOK, CountersInv, Live, Crash, Settle, effectVars
  <2>4. AdminInv'
    BY <1>18 DEF TypeOK, AdminInv, Crash, Settle, effectVars
  <2> QED BY <2>1, <2>2, <2>3, <2>4
<1>19. ASSUME NEW w \in Workers, LoseLock(w) PROVE BaseInv'
  <2>1. TypeOK'
    BY <1>19 DEF TypeOK, LoseLock, workVars, letterVars, effectVars
  <2>2. LockInv'
    BY <1>19 DEF TypeOK, LockInv, LoseLock, workVars, letterVars, effectVars
  <2>3. CountersInv'
    BY <1>19 DEF TypeOK, CountersInv, Live, LoseLock, workVars, letterVars, effectVars
  <2>4. AdminInv'
    BY <1>19 DEF TypeOK, AdminInv, LoseLock, workVars, letterVars, effectVars
  <2> QED BY <2>1, <2>2, <2>3, <2>4
<1>20. ASSUME NEW f \in flight, Land(f) PROVE BaseInv'
  <2>1. TypeOK'
    BY <1>20 DEF TypeOK, Land, jobVars, workVars, effectVars, faultVars, Flights
  <2>2. LockInv'
    BY <1>20 DEF TypeOK, LockInv, Land, jobVars, workVars, effectVars, faultVars
  <2>3. CountersInv'
    BY <1>20 DEF TypeOK, CountersInv, Live, Land, jobVars, workVars, effectVars, faultVars
  <2>4. AdminInv'
    BY <1>20 DEF TypeOK, AdminInv, Land, jobVars, workVars, effectVars, faultVars
  <2> QED BY <2>1, <2>2, <2>3, <2>4
<1>21. CASE Provision \/ Archive
  <2>1. TypeOK'
    BY <1>21 DEF TypeOK, Provision, Archive, jobVars, workVars, letterVars, effectVars, faultVars
  <2>2. LockInv'
    BY <1>21 DEF TypeOK, LockInv, Provision, Archive, jobVars, workVars, letterVars, effectVars, faultVars
  <2>3. CountersInv'
    BY <1>21 DEF TypeOK, CountersInv, Live, Provision, Archive, jobVars, workVars, letterVars, effectVars, faultVars
  <2>4. AdminInv'
    BY <1>21 DEF TypeOK, AdminInv, Provision, Archive, jobVars, workVars, letterVars, effectVars, faultVars
  <2> QED BY <2>1, <2>2, <2>3, <2>4
<1>22. ASSUME NEW a \in Admins, NEW l \in letters, RetryRead(a, l) PROVE BaseInv'
  <2>1. TypeOK'
    BY <1>22 DEF TypeOK, RetryRead, jobVars, workVars, letterVars, effectVars, faultVars
  <2>2. LockInv'
    BY <1>22 DEF TypeOK, LockInv, RetryRead, jobVars, workVars, letterVars, effectVars, faultVars
  <2>3. CountersInv'
    BY <1>22 DEF TypeOK, CountersInv, Live, RetryRead, jobVars, workVars, letterVars, effectVars, faultVars
  <2>4. AdminInv'
    BY <1>22 DEF TypeOK, AdminInv, RetryRead, jobVars, workVars, letterVars, effectVars, faultVars
  <2> QED BY <2>1, <2>2, <2>3, <2>4
<1>23. ASSUME NEW a \in Admins, RetryAdd(a) PROVE BaseInv'
  <2>1. admin[a].letter \in Letters
    BY <1>23 DEF RetryAdd, AdminInv
  <2>2. admin[a].letter.msg \in Messages
    BY <2>1 DEF Letters
  <2>3. LockInv' /\ CountersInv'
    BY <1>23, <2>2, AddBase DEF RetryAdd
  <2>4. AdminInv'
    BY <1>23, <2>1 DEF RetryAdd, AdminInv, TypeOK
  <2>5. admin' \in [Admins -> [pc : {"idle", "add", "remove"},
                               letter : Letters \cup {None}, added : BOOLEAN]]
    BY <1>23, <2>1 DEF RetryAdd, TypeOK, Known
  <2>6. TypeOK'
    BY <1>23, <2>2, <2>5, AddBase DEF RetryAdd, TypeOK, workVars, letterVars, effectVars, faultVars
  <2> QED BY <2>3, <2>4, <2>6
<1>24. ASSUME NEW a \in Admins, RetryRemove(a) PROVE BaseInv'
  <2>1. TypeOK'
    BY <1>24 DEF TypeOK, RetryRemove, IdleAdmin, jobVars, workVars, effectVars, faultVars, AdminInv, Letters
  <2>2. LockInv'
    BY <1>24 DEF TypeOK, LockInv, RetryRemove, IdleAdmin, jobVars, workVars, effectVars, faultVars
  <2>3. CountersInv'
    BY <1>24 DEF TypeOK, CountersInv, Live, RetryRemove, IdleAdmin, jobVars, workVars, effectVars, faultVars
  <2>4. AdminInv'
    BY <1>24 DEF TypeOK, AdminInv, RetryRemove, IdleAdmin, jobVars, workVars, effectVars, faultVars
  <2> QED BY <2>1, <2>2, <2>3, <2>4
<1>25. ASSUME NEW a \in Admins, RetryAborted(a) PROVE BaseInv'
  <2>1. TypeOK'
    BY <1>25 DEF TypeOK, RetryAborted, IdleAdmin, jobVars, workVars, letterVars, effectVars, faultVars
  <2>2. LockInv'
    BY <1>25 DEF TypeOK, LockInv, RetryAborted, IdleAdmin, jobVars, workVars, letterVars, effectVars, faultVars
  <2>3. CountersInv'
    BY <1>25 DEF TypeOK, CountersInv, Live, RetryAborted, IdleAdmin, jobVars, workVars, letterVars, effectVars, faultVars
  <2>4. AdminInv'
    BY <1>25 DEF TypeOK, AdminInv, RetryAborted, IdleAdmin, jobVars, workVars, letterVars, effectVars, faultVars
  <2> QED BY <2>1, <2>2, <2>3, <2>4
<1>26. ASSUME NEW queue \in DeadQueues, Purge(queue) PROVE BaseInv'
  <2>1. TypeOK'
    BY <1>26 DEF TypeOK, Purge, jobVars, workVars, effectVars, faultVars, Letters
  <2>2. LockInv'
    BY <1>26 DEF TypeOK, LockInv, Purge, jobVars, workVars, effectVars, faultVars
  <2>3. CountersInv'
    BY <1>26 DEF TypeOK, CountersInv, Live, Purge, jobVars, workVars, effectVars, faultVars
  <2>4. AdminInv'
    BY <1>26 DEF TypeOK, AdminInv, Purge, jobVars, workVars, effectVars, faultVars
  <2> QED BY <2>1, <2>2, <2>3, <2>4
<1>27. CASE UNCHANGED vars
  BY <1>27 DEF vars, TypeOK, LockInv, CountersInv, AdminInv, Live, jobVars,
            workVars, letterVars, effectVars, faultVars
<1> HIDE DEF BaseInv
<1> QED BY <1>1, <1>2, <1>3, <1>4, <1>5, <1>6, <1>7, <1>8, <1>9, <1>10, <1>11, <1>12, <1>13, <1>14, <1>15, <1>16, <1>17, <1>18, <1>19, <1>20, <1>21, <1>22, <1>23, <1>24, <1>25, <1>26, <1>27 DEF Next, Step

\* The first layer holds in every reachable state.
THEOREM BaseInvariance == Spec => []BaseInv
BY BaseInit, BaseStep, PTL DEF Spec

\* Every variable keeps its type: in particular no job is ever attempted more
\* than attempts times, nor stalls more than once past the limit.
THEOREM TypeCorrect == Spec => []TypeOK
BY BaseInvariance, PTL DEF BaseInv
-----------------------------------------------------------------------------
(***************************************************************************)
(* Second layer: what a worker has done and what it still has to do        *)
(***************************************************************************)
\* While no lock was lost, a worker that runs a job holds the job's lock.
OwnsInv == lockLosses = 0 => \A w \in Workers : cur[w] # None => lock[cur[w]] = w

\* The publishing loops: the row is stored before the analysis, the recom-
\* mendations before the first announcement, the audit event of each before
\* its endpoints, and a recommendation that is neither to be audited nor to be
\* announced has been both.
PublishInv ==
  \A w \in Workers :
    /\ pc[w] # "publish" => todo[w] = {} /\ targets[w] = {}
    /\ pc[w] \in {"analyse", "publish"} => cur[w] \in rows
    /\ pc[w] = "publish" =>
         /\ recRows = Recommendations
         /\ \A t \in targets[w] : <<cur[w], t[1]>> \in audited
         /\ \A r \in Recommendations \ todo[w] :
              /\ <<cur[w], r>> \in audited
              /\ \A e \in Endpoints :
                   <<r, e>> \in targets[w] \/ <<cur[w], r, e>> \in hooks

WorkInv == OwnsInv /\ PublishInv /\ NotifiedIsStored

LEMMA WorkInit == Init => WorkInv
BY PipelineAssumption DEF PipelineAssumption, Init, WorkInv, OwnsInv, PublishInv, NotifiedIsStored

\* A thrown attempt forgets the worker's loops.
LEMMA ThrowWork ==
  ASSUME BaseInv, WorkInv, NEW w \in Workers, pc[w] # "idle", Throw(w),
         recRows \subseteq recRows', recRows' \subseteq Recommendations,
         UNCHANGED <<rows, audited, hooks, lockLosses>>
  PROVE  WorkInv'
<1> USE PipelineAssumption DEF PipelineAssumption, BaseInv, WorkInv
<1>1. cur[w] \in Messages
  BY Busy
<1>2. OwnsInv'
  BY <1>1 DEF TypeOK, OwnsInv, Throw, Settle
<1>3. PublishInv'
  BY <1>1 DEF TypeOK, PublishInv, Throw, Settle
<1>4. NotifiedIsStored'
  BY DEF NotifiedIsStored
<1> QED BY <1>2, <1>3, <1>4

\* The second layer is inductive on top of the first.
LEMMA WorkStep == BaseInv /\ WorkInv /\ [Next]_vars => WorkInv'
<1> SUFFICES ASSUME BaseInv, WorkInv, [Next]_vars PROVE WorkInv'
  OBVIOUS
<1> USE PipelineAssumption DEF PipelineAssumption, BaseInv, WorkInv
<1>1. ASSUME NEW m \in Messages, Enqueue(m) PROVE WorkInv'
  <2>1. OwnsInv'
    BY <1>1 DEF TypeOK, LockInv, OwnsInv, Enqueue, Add, Known, jobVars, workVars, effectVars, faultVars
  <2>2. PublishInv'
    BY <1>1 DEF TypeOK, LockInv, PublishInv, Enqueue, Add, Known, jobVars, workVars, effectVars, faultVars
  <2>3. NotifiedIsStored'
    BY <1>1 DEF NotifiedIsStored, Enqueue, Add, Known, jobVars, workVars, effectVars, faultVars
  <2> QED BY <2>1, <2>2, <2>3
<1>2. ASSUME NEW m \in Messages, Trim(m) \/ Promote(m) \/ Age(m) \/ RecoverStalled(m) PROVE WorkInv'
  <2>1. OwnsInv'
    BY <1>2 DEF TypeOK, LockInv, OwnsInv, Trim, Promote, Age, RecoverStalled, workVars, effectVars, faultVars
  <2>2. PublishInv'
    BY <1>2 DEF TypeOK, LockInv, PublishInv, Trim, Promote, Age, RecoverStalled, workVars, effectVars, faultVars
  <2>3. NotifiedIsStored'
    BY <1>2 DEF NotifiedIsStored, Trim, Promote, Age, RecoverStalled, workVars, effectVars, faultVars
  <2> QED BY <2>1, <2>2, <2>3
<1>3. ASSUME NEW w \in Workers, NEW m \in Messages, Take(w, m) PROVE WorkInv'
  <2>1. OwnsInv'
    BY <1>3 DEF TypeOK, LockInv, OwnsInv, Take, effectVars, faultVars
  <2>2. PublishInv'
    BY <1>3 DEF TypeOK, LockInv, PublishInv, Take, effectVars, faultVars
  <2>3. NotifiedIsStored'
    BY <1>3 DEF NotifiedIsStored, Take, effectVars, faultVars
  <2> QED BY <2>1, <2>2, <2>3
<1>4. ASSUME NEW w \in Workers, CheckAge(w) PROVE WorkInv'
  <2>1. CASE cur[w] \in aged
    BY <1>4, <2>1, ThrowWork DEF CheckAge, effectVars, faultVars, TypeOK
  <2>2. CASE cur[w] \notin aged
    BY <1>4, <2>2 DEF CheckAge, Goto, TypeOK, OwnsInv, PublishInv, NotifiedIsStored,
                   jobVars, effectVars, faultVars
  <2> QED BY <2>1, <2>2
<1>5. ASSUME NEW w \in Workers, AnalyseFails(w) PROVE WorkInv'
  <2>1. recRows \subseteq recRows' /\ recRows' \subseteq Recommendations
    BY <1>5 DEF AnalyseFails, TypeOK
  <2> QED BY <1>5, <2>1, ThrowWork DEF AnalyseFails, faultVars
<1>6. ASSUME NEW w \in Workers, StepFails(w) PROVE WorkInv'
  BY <1>6, ThrowWork DEF StepFails, effectVars, faultVars, TypeOK
<1>7. ASSUME NEW w \in Workers, Save(w) PROVE WorkInv'
  <2>1. cur[w] \in Messages
    BY <1>7, Busy DEF Save
  <2>2. OwnsInv'
    BY <1>7, <2>1 DEF TypeOK, LockInv, OwnsInv, Save, Goto, jobVars, faultVars
  <2>3. PublishInv'
    BY <1>7, <2>1 DEF TypeOK, LockInv, PublishInv, Save, Goto, jobVars, faultVars
  <2>4. NotifiedIsStored'
    BY <1>7, <2>1 DEF NotifiedIsStored, TypeOK, Save, Goto, jobVars, faultVars
  <2> QED BY <2>2, <2>3, <2>4
<1>8. ASSUME NEW w \in Workers, SavePoisoned(w) PROVE WorkInv'
  <2>1. cur[w] \in Messages
    BY <1>8, Busy DEF SavePoisoned
  <2>2. OwnsInv'
    BY <1>8, <2>1 DEF TypeOK, LockInv, OwnsInv, SavePoisoned, Goto, jobVars, effectVars, faultVars
  <2>3. PublishInv'
    BY <1>8, <2>1 DEF TypeOK, LockInv, PublishInv, SavePoisoned, Goto, jobVars, effectVars, faultVars
  <2>4. NotifiedIsStored'
    BY <1>8, <2>1 DEF NotifiedIsStored, TypeOK, SavePoisoned, Goto, jobVars, effectVars, faultVars
  <2> QED BY <2>2, <2>3, <2>4
<1>9. ASSUME NEW w \in Workers, Quarantine(w) PROVE WorkInv'
  <2>1. cur[w] \in Messages
    BY <1>9, Busy DEF Quarantine
  <2>2. OwnsInv'
    BY <1>9, <2>1 DEF TypeOK, LockInv, OwnsInv, Quarantine, Goto, jobVars, effectVars, faultVars
  <2>3. PublishInv'
    BY <1>9, <2>1 DEF TypeOK, LockInv, PublishInv, Quarantine, Goto, jobVars, effectVars, faultVars
  <2>4. NotifiedIsStored'
    BY <1>9, <2>1 DEF NotifiedIsStored, TypeOK, Quarantine, Goto, jobVars, effectVars, faultVars
  <2> QED BY <2>2, <2>3, <2>4
<1>10. ASSUME NEW w \in Workers, Analyse(w) PROVE WorkInv'
  <2>1. cur[w] \in Messages
    BY <1>10, Busy DEF Analyse
  <2>2. OwnsInv'
    BY <1>10, <2>1 DEF TypeOK, LockInv, OwnsInv, Analyse, Goto, jobVars, faultVars
  <2>3. PublishInv'
    BY <1>10, <2>1 DEF TypeOK, LockInv, PublishInv, Analyse, Goto, jobVars, faultVars
  <2>4. NotifiedIsStored'
    BY <1>10, <2>1 DEF NotifiedIsStored, TypeOK, Analyse, Goto, jobVars, faultVars
  <2> QED BY <2>2, <2>3, <2>4
<1>11. ASSUME NEW w \in Workers, Audit(w) PROVE WorkInv'
  <2>1. cur[w] \in Messages
    BY <1>11, Busy DEF Audit
  <2>2. OwnsInv'
    BY <1>11, <2>1 DEF TypeOK, LockInv, OwnsInv, Audit, jobVars, faultVars
  <2>3. PublishInv'
    BY <1>11, <2>1 DEF TypeOK, LockInv, PublishInv, Audit, jobVars, faultVars
  <2>4. NotifiedIsStored'
    BY <1>11, <2>1 DEF NotifiedIsStored, TypeOK, Audit, jobVars, faultVars
  <2> QED BY <2>2, <2>3, <2>4
<1>12. ASSUME NEW w \in Workers, Notify(w) PROVE WorkInv'
  <2>1. cur[w] \in Messages
    BY <1>12, Busy DEF Notify
  <2>2. OwnsInv'
    BY <1>12, <2>1 DEF TypeOK, LockInv, OwnsInv, Notify, jobVars, faultVars
  <2>3. PublishInv'
    BY <1>12, <2>1 DEF TypeOK, LockInv, PublishInv, Notify, jobVars, faultVars
  <2>4. NotifiedIsStored'
    <3>1. PICK target \in targets[w] :
            hooks' = hooks \cup {<<cur[w], target[1], target[2]>>}
      BY <1>12 DEF Notify
    <3>2. target[1] \in recRows /\ cur[w] \in rows /\ <<cur[w], target[1]>> \in audited
      BY <1>12 DEF Notify, TypeOK, PublishInv
    <3>3. rows' = rows /\ recRows' = recRows /\ audited' = audited
      BY <1>12 DEF Notify
    <3> SUFFICES ASSUME NEW h \in hooks'
                 PROVE  h[1] \in rows' /\ h[2] \in recRows' /\ <<h[1], h[2]>> \in audited'
      BY DEF NotifiedIsStored
    <3>4. CASE h \in hooks
      BY <3>4, <3>3 DEF NotifiedIsStored
    <3>5. CASE h \notin hooks
      <4>1. h = <<cur[w], target[1], target[2]>>
        BY <3>1, <3>5
      <4> QED BY <4>1, <3>2, <3>3
    <3> QED BY <3>4, <3>5
  <2> QED BY <2>2, <2>3, <2>4
<1>13. ASSUME NEW w \in Workers, PublishDone(w) PROVE WorkInv'
  <2>1. cur[w] \in Messages
    BY <1>13, Busy DEF PublishDone
  <2>2. OwnsInv'
    BY <1>13, <2>1 DEF TypeOK, LockInv, OwnsInv, PublishDone, Published, Goto, jobVars, effectVars, faultVars
  <2>3. PublishInv'
    BY <1>13, <2>1 DEF TypeOK, LockInv, PublishInv, PublishDone, Published, Goto, jobVars, effectVars, faultVars
  <2>4. NotifiedIsStored'
    BY <1>13, <2>1 DEF NotifiedIsStored, TypeOK, PublishDone, Published, Goto, jobVars, effectVars, faultVars
  <2> QED BY <2>2, <2>3, <2>4
<1>14. ASSUME NEW w \in Workers, Complete(w) PROVE WorkInv'
  <2>1. cur[w] \in Messages
    BY <1>14, Busy DEF Complete
  <2>2. OwnsInv'
    BY <1>14, <2>1 DEF TypeOK, LockInv, OwnsInv, Complete, Settle, effectVars, faultVars
  <2>3. PublishInv'
    BY <1>14, <2>1 DEF TypeOK, LockInv, PublishInv, Complete, Settle, effectVars, faultVars
  <2>4. NotifiedIsStored'
    BY <1>14, <2>1 DEF NotifiedIsStored, TypeOK, Complete, Settle, effectVars, faultVars
  <2> QED BY <2>2, <2>3, <2>4
<1>15. ASSUME NEW w \in Workers, Crash(w) PROVE WorkInv'
  <2>1. OwnsInv'
    BY <1>15 DEF TypeOK, LockInv, OwnsInv, Crash, Settle, effectVars
  <2>2. PublishInv'
    BY <1>15 DEF TypeOK, LockInv, PublishInv, Crash, Settle, effectVars
  <2>3. NotifiedIsStored'
    BY <1>15 DEF NotifiedIsStored, Crash, Settle, effectVars
  <2> QED BY <2>1, <2>2, <2>3
<1>16. ASSUME NEW w \in Workers, LoseLock(w) PROVE WorkInv'
  <2>1. OwnsInv'
    BY <1>16 DEF TypeOK, LockInv, OwnsInv, LoseLock, workVars, effectVars
  <2>2. PublishInv'
    BY <1>16 DEF TypeOK, LockInv, PublishInv, LoseLock, workVars, effectVars
  <2>3. NotifiedIsStored'
    BY <1>16 DEF NotifiedIsStored, LoseLock, workVars, effectVars
  <2> QED BY <2>1, <2>2, <2>3
<1>17. ASSUME NEW f \in flight, Land(f) PROVE WorkInv'
  <2>1. OwnsInv'
    BY <1>17 DEF TypeOK, LockInv, OwnsInv, Land, jobVars, workVars, effectVars, faultVars
  <2>2. PublishInv'
    BY <1>17 DEF TypeOK, LockInv, PublishInv, Land, jobVars, workVars, effectVars, faultVars
  <2>3. NotifiedIsStored'
    BY <1>17 DEF NotifiedIsStored, Land, jobVars, workVars, effectVars, faultVars
  <2> QED BY <2>1, <2>2, <2>3
<1>18. CASE Provision \/ Archive
  <2>1. OwnsInv'
    BY <1>18 DEF TypeOK, LockInv, OwnsInv, Provision, Archive, jobVars, workVars, effectVars, faultVars
  <2>2. PublishInv'
    BY <1>18 DEF TypeOK, LockInv, PublishInv, Provision, Archive, jobVars, workVars, effectVars, faultVars
  <2>3. NotifiedIsStored'
    BY <1>18 DEF NotifiedIsStored, Provision, Archive, jobVars, workVars, effectVars, faultVars
  <2> QED BY <2>1, <2>2, <2>3
<1>19. ASSUME NEW a \in Admins, (\E l \in letters : RetryRead(a, l)) \/ RetryRemove(a) \/ RetryAborted(a) PROVE WorkInv'
  <2>1. OwnsInv'
    BY <1>19 DEF TypeOK, LockInv, OwnsInv, RetryRead, RetryRemove, RetryAborted, jobVars, workVars, effectVars, faultVars
  <2>2. PublishInv'
    BY <1>19 DEF TypeOK, LockInv, PublishInv, RetryRead, RetryRemove, RetryAborted, jobVars, workVars, effectVars, faultVars
  <2>3. NotifiedIsStored'
    BY <1>19 DEF NotifiedIsStored, RetryRead, RetryRemove, RetryAborted, jobVars, workVars, effectVars, faultVars
  <2> QED BY <2>1, <2>2, <2>3
<1>20. ASSUME NEW a \in Admins, RetryAdd(a) PROVE WorkInv'
  <2>1. admin[a].letter.msg \in Messages
    BY <1>20 DEF RetryAdd, AdminInv, Letters
  <2>2. OwnsInv'
    BY <1>20, <2>1 DEF TypeOK, LockInv, OwnsInv, RetryAdd, Add, Known, jobVars, workVars, effectVars, faultVars
  <2>3. PublishInv'
    BY <1>20, <2>1 DEF TypeOK, LockInv, PublishInv, RetryAdd, Add, Known, jobVars, workVars, effectVars, faultVars
  <2>4. NotifiedIsStored'
    BY <1>20, <2>1 DEF NotifiedIsStored, RetryAdd, Add, Known, jobVars, workVars, effectVars, faultVars
  <2> QED BY <2>2, <2>3, <2>4
<1>21. ASSUME NEW queue \in DeadQueues, Purge(queue) PROVE WorkInv'
  <2>1. OwnsInv'
    BY <1>21 DEF TypeOK, LockInv, OwnsInv, Purge, jobVars, workVars, effectVars, faultVars
  <2>2. PublishInv'
    BY <1>21 DEF TypeOK, LockInv, PublishInv, Purge, jobVars, workVars, effectVars, faultVars
  <2>3. NotifiedIsStored'
    BY <1>21 DEF NotifiedIsStored, Purge, jobVars, workVars, effectVars, faultVars
  <2> QED BY <2>1, <2>2, <2>3
<1>22. CASE UNCHANGED vars
  <2>1. OwnsInv'
    BY <1>22 DEF TypeOK, LockInv, OwnsInv, vars, jobVars, workVars, effectVars, faultVars
  <2>2. PublishInv'
    BY <1>22 DEF TypeOK, LockInv, PublishInv, vars, jobVars, workVars, effectVars, faultVars
  <2>3. NotifiedIsStored'
    BY <1>22 DEF NotifiedIsStored, vars, jobVars, workVars, effectVars, faultVars
  <2> QED BY <2>1, <2>2, <2>3
<1> HIDE DEF BaseInv, WorkInv
<1> QED BY <1>1, <1>2, <1>3, <1>4, <1>5, <1>6, <1>7, <1>8, <1>9, <1>10, <1>11, <1>12, <1>13, <1>14, <1>15, <1>16, <1>17, <1>18, <1>19, <1>20, <1>21, <1>22 DEF Next, Step

\* The second layer holds in every reachable state.
THEOREM WorkInvariance == Spec => []WorkInv
BY BaseInvariance, WorkInit, WorkStep, PTL DEF Spec

\* No subscriber is told of a recommendation before the recommendation, its
\* audit event and the telemetry row are stored (the order of the awaits in the
\* telemetry worker), through any retries, crashes and stale workers.
THEOREM AnnouncedIsStored == Spec => []NotifiedIsStored
BY WorkInvariance, PTL DEF WorkInv

\* While no lock was lost, no two workers run jobs of the same message.
THEOREM NeverProcessedTwiceAtOnce == Spec => []OneProcessor
<1>1. WorkInv => OneProcessor
  BY DEF WorkInv, OwnsInv, OneProcessor
<1> QED BY <1>1, WorkInvariance, PTL
-----------------------------------------------------------------------------
(***************************************************************************)
(* Third layer: where the letters come from                                *)
(***************************************************************************)
\* Only accepted messages have jobs, rows and letters, and a letter's number is
\* not above the number of letters made for its message.
LetterInv ==
  /\ \A m \in Messages : state[m] # "none" => m \in accepted
  /\ \A w \in Workers : cur[w] # None => cur[w] \in accepted
  /\ rows \subseteq accepted
  /\ \A l \in letters : l.msg \in accepted /\ l.number <= issued[l.msg]
  /\ \A f \in flight :
       f.letter.msg \in accepted /\ f.letter.number <= issued[f.letter.msg]
  /\ \A a \in Admins :
       admin[a].pc # "idle" =>
         /\ admin[a].letter.msg \in accepted
         /\ admin[a].letter.number <= issued[admin[a].letter.msg]

LEMMA LetterInit == Init => LetterInv
BY DEF Init, LetterInv, IdleAdmin

\* A thrown attempt numbers its letter above all earlier ones.
LEMMA ThrowLetter ==
  ASSUME BaseInv, LetterInv, NEW w \in Workers, pc[w] # "idle", Throw(w),
         UNCHANGED <<admin, rows, accepted>>
  PROVE  LetterInv'
<1> USE PipelineAssumption DEF PipelineAssumption, BaseInv
<1>1. cur[w] \in Messages /\ cur[w] \in accepted
  BY Busy DEF LetterInv, LockInv
<1>2. CASE lock[cur[w]] # w
  BY <1>1, <1>2 DEF TypeOK, LetterInv, Throw, Settle
<1>3. CASE lock[cur[w]] = w
  <2>1. \A m \in Messages : issued[m] \in Nat /\ issued'[m] \in Nat /\ issued[m] <= issued'[m]
    BY <1>1, <1>3 DEF TypeOK, Throw
  <2>2. \A m \in Messages : state'[m] # "none" => m \in accepted
    BY <1>1, <1>3 DEF TypeOK, Throw, LetterInv
  <2>3. \A v \in Workers : cur'[v] # None => cur'[v] \in accepted
    BY <1>1 DEF TypeOK, Throw, Settle, LetterInv
  <2>4. \A l \in letters' : l.msg \in accepted /\ l.number <= issued'[l.msg]
    BY <2>1 DEF TypeOK, Throw, LetterInv, Letters
  <2>5. \A a \in Admins : admin[a].pc # "idle" =>
            /\ admin[a].letter.msg \in accepted
            /\ admin[a].letter.number <= issued'[admin[a].letter.msg]
    BY <2>1 DEF AdminInv, LetterInv, Letters
  <2>6. ASSUME NEW f \in flight'
        PROVE  f.letter.msg \in accepted /\ f.letter.number <= issued'[f.letter.msg]
    <3>1. CASE f \in flight
      BY <3>1, <2>1 DEF TypeOK, LetterInv, Flights, Letters
    <3>2. CASE f \notin flight
      <4>1. f = [letter |-> NewLetter(cur[w], "dead-letter"), by |-> w]
            /\ issued' = [issued EXCEPT ![cur[w]] = @ + 1]
        BY <3>2, <1>3 DEF Throw
      <4> QED BY <4>1, <1>1 DEF NewLetter, TypeOK
    <3> QED BY <3>1, <3>2
  <2> QED BY <2>2, <2>3, <2>4, <2>5, <2>6 DEF LetterInv
<1> QED BY <1>2, <1>3

\* The third layer is inductive on top of the first.
LEMMA LetterStep == BaseInv /\ LetterInv /\ [Next]_vars => LetterInv'
<1> SUFFICES ASSUME BaseInv, LetterInv, [Next]_vars PROVE LetterInv'
  OBVIOUS
<1> USE PipelineAssumption DEF PipelineAssumption, BaseInv
<1>1. ASSUME NEW m \in Messages, Enqueue(m) PROVE LetterInv'
  BY <1>1 DEF TypeOK, LockInv, LetterInv, Enqueue, Add, Known, jobVars, workVars, letterVars, effectVars
<1>2. ASSUME NEW m \in Messages, Trim(m) \/ Promote(m) \/ Age(m) \/ RecoverStalled(m) PROVE LetterInv'
  BY <1>2 DEF TypeOK, LockInv, LetterInv, Trim, Promote, Age, RecoverStalled, workVars, letterVars, effectVars
<1>3. ASSUME NEW w \in Workers, NEW m \in Messages, Take(w, m) PROVE LetterInv'
  BY <1>3 DEF TypeOK, LockInv, LetterInv, Take, letterVars, effectVars
<1>4. ASSUME NEW w \in Workers, CheckAge(w) PROVE LetterInv'
  <2>1. CASE cur[w] \in aged
    BY <1>4, <2>1, ThrowLetter DEF CheckAge, effectVars
  <2>2. CASE cur[w] \notin aged
    BY <1>4, <2>2 DEF CheckAge, Goto, LetterInv, jobVars, letterVars, effectVars
  <2> QED BY <2>1, <2>2
<1>5. ASSUME NEW w \in Workers, AnalyseFails(w) PROVE LetterInv'
  BY <1>5, ThrowLetter DEF AnalyseFails
<1>6. ASSUME NEW w \in Workers, StepFails(w) PROVE LetterInv'
  BY <1>6, ThrowLetter DEF StepFails, effectVars
<1>7. ASSUME NEW w \in Workers, Save(w) PROVE LetterInv'
  BY <1>7 DEF TypeOK, LockInv, LetterInv, Save, Goto, jobVars, letterVars
<1>8. ASSUME NEW w \in Workers, SavePoisoned(w) \/ Analyse(w) \/ Audit(w) \/ Notify(w) \/ PublishDone(w) PROVE LetterInv'
  BY <1>8 DEF LetterInv, SavePoisoned, Analyse, Audit, Notify, PublishDone, Goto,
               jobVars, letterVars, effectVars
<1>9. ASSUME NEW w \in Workers, Quarantine(w) PROVE LetterInv'
  <2>1. cur[w] \in Messages /\ cur[w] \in accepted
    BY <1>9, Busy DEF LetterInv, LockInv, Quarantine
  <2>2. \A m \in Messages : issued[m] \in Nat /\ issued'[m] \in Nat /\ issued[m] <= issued'[m]
    BY <1>9, <2>1 DEF TypeOK, Quarantine
  <2>3. ASSUME NEW l \in letters'
        PROVE  l.msg \in accepted /\ l.number <= issued'[l.msg]
    <3>1. CASE l \in letters
      BY <3>1, <2>2 DEF TypeOK, LetterInv, Letters
    <3>2. CASE l \notin letters
      BY <3>2, <1>9, <2>1 DEF Quarantine, NewLetter, TypeOK
    <3> QED BY <3>1, <3>2
  <2>4. \A f \in flight :
          f.letter.msg \in accepted /\ f.letter.number <= issued'[f.letter.msg]
    BY <2>2 DEF TypeOK, LetterInv, Flights, Letters
  <2>5. \A a \in Admins : admin[a].pc # "idle" =>
            /\ admin[a].letter.msg \in accepted
            /\ admin[a].letter.number <= issued'[admin[a].letter.msg]
    BY <2>2 DEF AdminInv, LetterInv, Letters
  <2> QED BY <1>9, <2>3, <2>4, <2>5 DEF Quarantine, LetterInv, jobVars, effectVars
<1>10. ASSUME NEW w \in Workers, Complete(w) PROVE LetterInv'
  BY <1>10 DEF TypeOK, LockInv, LetterInv, Complete, Settle, letterVars, effectVars
<1>11. ASSUME NEW w \in Workers, Crash(w) PROVE LetterInv'
  BY <1>11 DEF TypeOK, LockInv, LetterInv, Crash, Settle, effectVars
<1>12. ASSUME NEW w \in Workers, LoseLock(w) PROVE LetterInv'
  BY <1>12 DEF TypeOK, LockInv, LetterInv, LoseLock, workVars, letterVars, effectVars
<1>13. ASSUME NEW f \in flight, Land(f) PROVE LetterInv'
  BY <1>13 DEF TypeOK, LockInv, LetterInv, Land, jobVars, workVars, effectVars
<1>14. CASE Provision \/ Archive
  BY <1>14 DEF TypeOK, LockInv, LetterInv, Provision, Archive, jobVars, workVars, letterVars, effectVars
<1>15. ASSUME NEW a \in Admins, NEW l \in letters, RetryRead(a, l) PROVE LetterInv'
  <2>1. admin' = [admin EXCEPT ![a] = [pc |-> "add", letter |-> l, added |-> FALSE]]
    BY <1>15 DEF RetryRead
  <2>2. l.msg \in accepted /\ l.number <= issued[l.msg]
    BY DEF LetterInv
  <2>3. \A b \in Admins : admin'[b].pc # "idle" =>
            /\ admin'[b].letter.msg \in accepted
            /\ admin'[b].letter.number <= issued[admin'[b].letter.msg]
    BY <2>1, <2>2 DEF TypeOK, LetterInv
  <2> QED BY <1>15, <2>3 DEF LetterInv, RetryRead, jobVars, workVars, letterVars, effectVars
<1>16. ASSUME NEW a \in Admins, RetryRemove(a) PROVE LetterInv'
  BY <1>16 DEF TypeOK, LockInv, LetterInv, RetryRemove, IdleAdmin, jobVars, workVars, effectVars
<1>17. ASSUME NEW a \in Admins, RetryAborted(a) PROVE LetterInv'
  BY <1>17 DEF TypeOK, LockInv, LetterInv, RetryAborted, IdleAdmin, jobVars, workVars, letterVars, effectVars
<1>18. ASSUME NEW a \in Admins, RetryAdd(a) PROVE LetterInv'
  <2>1. admin[a].letter.msg \in Messages
    BY <1>18 DEF RetryAdd, AdminInv, Letters
  <2> QED BY <1>18, <2>1 DEF TypeOK, LockInv, LetterInv, RetryAdd, Add, Known, jobVars, workVars, letterVars, effectVars
<1>19. ASSUME NEW queue \in DeadQueues, Purge(queue) PROVE LetterInv'
  BY <1>19 DEF TypeOK, LockInv, LetterInv, Purge, jobVars, workVars, effectVars
<1>20. CASE UNCHANGED vars
  BY <1>20 DEF TypeOK, LockInv, LetterInv, vars, jobVars, workVars, letterVars, effectVars
<1> HIDE DEF BaseInv, LetterInv
<1> QED BY <1>1, <1>2, <1>3, <1>4, <1>5, <1>6, <1>7, <1>8, <1>9, <1>10, <1>11, <1>12, <1>13, <1>14, <1>15, <1>16, <1>17, <1>18, <1>19, <1>20 DEF Next, Step
-----------------------------------------------------------------------------
(***************************************************************************)
(* Fourth layer: why a message whose job is over is not lost               *)
(***************************************************************************)
\* No administrator is about to remove the letter after a retry that made a job
\* (a retry that made none exposes the message when it removes the letter).
Safe(l) ==
  \A a \in Admins : ~(admin[a].pc = "remove" /\ admin[a].added /\ admin[a].letter = l)

SafelyHeld(m) ==
  \/ \E l \in letters : l.msg = m /\ Safe(l)
  \/ \E f \in flight : f.letter.msg = m /\ Safe(f.letter)

Evidence(m) == Processed(m) \/ m \in exposed \/ SafelyHeld(m)

\* A finished job of an accepted message left evidence behind, and a worker
\* that is about to complete a job already has.
EvidenceInv ==
  /\ \A m \in Messages : m \in accepted /\ ~Live(m) => Evidence(m)
  /\ \A m \in Messages, w \in Workers :
       lock[m] = w /\ pc[w] = "complete" => Evidence(m)

LEMMA EvidenceInit == Init => EvidenceInv
BY PipelineAssumption DEF PipelineAssumption, Init, EvidenceInv

\* What only ever grows.
LEMMA Grows ==
  ASSUME TypeOK, [Next]_vars
  PROVE  /\ rows \subseteq rows' /\ audited \subseteq audited'
         /\ hooks \subseteq hooks' /\ exposed \subseteq exposed'
         /\ accepted \subseteq accepted'
<1>1. ASSUME NEW m \in Messages,
             Enqueue(m) \/ Trim(m) \/ Promote(m) \/ Age(m) \/ RecoverStalled(m)
      PROVE  /\ rows \subseteq rows' /\ audited \subseteq audited'
             /\ hooks \subseteq hooks' /\ exposed \subseteq exposed'
             /\ accepted \subseteq accepted'
  BY <1>1 DEF Enqueue, Trim, Promote, Age, RecoverStalled, effectVars
<1>2. ASSUME NEW w \in Workers,
             (\E m \in Messages : Take(w, m)) \/ Step(w) \/ Crash(w) \/ LoseLock(w)
      PROVE  /\ rows \subseteq rows' /\ audited \subseteq audited'
             /\ hooks \subseteq hooks' /\ exposed \subseteq exposed'
             /\ accepted \subseteq accepted'
  BY <1>2 DEF Take, Step, CheckAge, Save, SavePoisoned, Quarantine, Analyse, AnalyseFails,
              Audit, Notify, PublishDone, StepFails, Complete, Crash, LoseLock, effectVars
<1>3. ASSUME NEW a \in Admins,
             (\E l \in letters : RetryRead(a, l)) \/ RetryAdd(a) \/ RetryRemove(a)
               \/ RetryAborted(a)
      PROVE  /\ rows \subseteq rows' /\ audited \subseteq audited'
             /\ hooks \subseteq hooks' /\ exposed \subseteq exposed'
             /\ accepted \subseteq accepted'
  BY <1>3 DEF RetryRead, RetryAdd, RetryRemove, RetryAborted, effectVars
<1>4. CASE \/ \E f \in flight : Land(f)
           \/ Provision \/ Archive
           \/ \E queue \in DeadQueues : Purge(queue)
           \/ UNCHANGED vars
  BY <1>4 DEF Land, Provision, Archive, Purge, vars, effectVars
<1> QED BY <1>1, <1>2, <1>3, <1>4 DEF Next

\* Evidence is kept by a step that removes no letter and starts no removal.
LEMMA EvidenceStays ==
  ASSUME NEW m \in Messages, Evidence(m), TypeOK, [Next]_vars,
         letters \subseteq letters', flight \subseteq flight', UNCHANGED admin
  PROVE  Evidence(m)'
<1>1. CASE Processed(m) \/ m \in exposed
  BY <1>1, Grows DEF Evidence, Processed
<1>2. CASE SafelyHeld(m)
  BY <1>2 DEF Evidence, SafelyHeld, Safe
<1> QED BY <1>1, <1>2 DEF Evidence

\* Evidence is kept by every step but a retry that makes a job of the message.
LEMMA EvidenceKept ==
  ASSUME BaseInv, [Next]_vars, NEW m \in Messages, Evidence(m),
         \A a \in Admins : RetryAdd(a) /\ admin[a].letter.msg = m => Known(m)
  PROVE  Evidence(m)'
<1> USE PipelineAssumption DEF PipelineAssumption, BaseInv
<1>1. CASE letters \subseteq letters' /\ flight \subseteq flight' /\ UNCHANGED admin
  BY <1>1, EvidenceStays
<1>2. CASE Processed(m) \/ m \in exposed
  BY <1>2, Grows DEF Evidence, Processed
<1>3. ASSUME SafelyHeld(m), NEW w \in Workers, Crash(w) PROVE Evidence(m)'
  <2>1. CASE \E l \in letters : l.msg = m /\ Safe(l)
    BY <1>3, <2>1 DEF Crash, Evidence, SafelyHeld, Safe
  <2>2. ASSUME NEW f \in flight, f.letter.msg = m /\ Safe(f.letter) PROVE Evidence(m)'
    <3>1. CASE f.by = w
      <4>1. m \in exposed'
        BY <1>3, <2>2, <3>1 DEF Crash
      <4> QED BY <4>1 DEF Evidence
    <3>2. CASE f.by # w
      BY <1>3, <2>2, <3>2 DEF Crash, Evidence, SafelyHeld, Safe
    <3> QED BY <3>1, <3>2
  <2> QED BY <1>3, <2>1, <2>2 DEF SafelyHeld
<1>4. ASSUME SafelyHeld(m), NEW g \in flight, Land(g) PROVE Evidence(m)'
  <2>1. admin' = admin /\ letters' = letters \cup {g.letter} /\ flight' = flight \ {g}
    BY <1>4 DEF Land
  <2> QED BY <1>4, <2>1 DEF Evidence, SafelyHeld, Safe
<1>5. ASSUME SafelyHeld(m), NEW a \in Admins,
             (\E l \in letters : RetryRead(a, l)) \/ RetryAborted(a)
      PROVE  Evidence(m)'
  <2>1. /\ letters' = letters /\ flight' = flight
        /\ \A b \in Admins : admin'[b] = admin[b] \/ admin'[b].pc # "remove"
    BY <1>5 DEF RetryRead, RetryAborted, IdleAdmin, TypeOK, letterVars
  <2> QED BY <1>5, <2>1 DEF Evidence, SafelyHeld, Safe
<1>6. ASSUME SafelyHeld(m), NEW a \in Admins, RetryAdd(a) PROVE Evidence(m)'
  <2>1. /\ letters' = letters /\ flight' = flight
        /\ \A b \in Admins : b # a => admin'[b] = admin[b]
        /\ admin'[a].letter = admin[a].letter
        /\ admin'[a].added => ~Known(admin[a].letter.msg)
    BY <1>6 DEF RetryAdd, TypeOK, letterVars
  <2>2. admin'[a].added => admin[a].letter.msg # m
    BY <1>6, <2>1
  <2> QED BY <1>6, <2>1, <2>2 DEF Evidence, SafelyHeld, Safe
<1>7. ASSUME SafelyHeld(m), NEW a \in Admins, RetryRemove(a) PROVE Evidence(m)'
  <2>1. /\ letters' = letters \ {admin[a].letter} /\ flight' = flight
        /\ \A b \in Admins : admin'[b] = admin[b] \/ admin'[b].pc # "remove"
        /\ admin[a].added \/ exposed' = exposed \cup {admin[a].letter.msg}
        /\ admin[a].pc = "remove"
    BY <1>7 DEF RetryRemove, IdleAdmin, TypeOK
  <2>2. CASE admin[a].added
    BY <1>7, <2>1, <2>2 DEF Evidence, SafelyHeld, Safe
  <2>3. CASE ~admin[a].added /\ admin[a].letter.msg = m
    BY <2>1, <2>3 DEF Evidence
  <2>4. CASE admin[a].letter.msg # m
    BY <1>7, <2>1, <2>4 DEF Evidence, SafelyHeld, Safe
  <2> QED BY <2>2, <2>3, <2>4
<1>8. ASSUME SafelyHeld(m), NEW queue \in DeadQueues, Purge(queue) PROVE Evidence(m)'
  <2>1. admin' = admin /\ flight' = flight
        /\ letters' = letters \ {l \in letters : l.queue = queue}
        /\ exposed' = exposed \cup {l.msg : l \in {k \in letters : k.queue = queue}}
    BY <1>8 DEF Purge
  <2>2. CASE \E f \in flight : f.letter.msg = m /\ Safe(f.letter)
    BY <2>1, <2>2 DEF Evidence, SafelyHeld, Safe
  <2>3. ASSUME NEW l \in letters, l.msg = m /\ Safe(l) PROVE Evidence(m)'
    <3>1. CASE l.queue = queue
      <4>1. m \in exposed'
        BY <2>1, <2>3, <3>1
      <4> QED BY <4>1 DEF Evidence
    <3>2. CASE l.queue # queue
      BY <2>1, <2>3, <3>2 DEF Evidence, SafelyHeld, Safe
    <3> QED BY <3>1, <3>2
  <2> QED BY <1>8, <2>2, <2>3 DEF SafelyHeld
<1>9. ASSUME NEW k \in Messages,
             Enqueue(k) \/ Trim(k) \/ Promote(k) \/ Age(k) \/ RecoverStalled(k)
      PROVE  Evidence(m)'
  BY <1>1, <1>9 DEF Enqueue, Trim, Promote, Age, RecoverStalled, letterVars
<1>10. ASSUME NEW w \in Workers,
              (\E k \in Messages : Take(w, k)) \/ Step(w) \/ LoseLock(w)
       PROVE  Evidence(m)'
  <2>1. letters \subseteq letters' /\ flight \subseteq flight' /\ admin' = admin
    BY <1>10 DEF Take, Step, CheckAge, Save, SavePoisoned, Quarantine, Analyse, AnalyseFails,
              Audit, Notify, PublishDone, StepFails, Complete, LoseLock, Throw, letterVars
  <2> QED BY <1>1, <2>1
<1>11. CASE Provision \/ Archive \/ UNCHANGED vars
  BY <1>1, <1>11 DEF Provision, Archive, vars, letterVars
<1> HIDE DEF BaseInv
<1> QED BY <1>2, <1>3, <1>4, <1>5, <1>6, <1>7, <1>8, <1>9, <1>10, <1>11 DEF Next, Evidence

\* A new letter is safe: administrators hold letters with smaller numbers.
LEMMA NewIsSafe ==
  ASSUME BaseInv, LetterInv, NEW m \in Messages, NEW queue \in DeadQueues
  PROVE  Safe(NewLetter(m, queue))
<1> SUFFICES ASSUME NEW a \in Admins, admin[a].pc = "remove",
                    admin[a].letter = NewLetter(m, queue)
             PROVE  FALSE
  BY DEF Safe
<1>1. admin[a].letter.msg = m /\ admin[a].letter.number = issued[m] + 1
  BY DEF NewLetter
<1>2. issued[m] \in Nat
  BY DEF BaseInv, TypeOK
<1> QED BY <1>1, <1>2 DEF LetterInv

\* How a live job ends: its worker completes it, or throws for the last time,
\* or it stalls once too often.
LEMMA Ends ==
  ASSUME BaseInv, [Next]_vars, NEW m \in Messages, Live(m), ~Live(m)'
  PROVE  \/ \E w \in Workers : Complete(w) /\ lock[m] = w /\ cur[w] = m
         \/ \E w \in Workers :
              pc[w] # "idle" /\ Throw(w) /\ lock[m] = w /\ cur[w] = m /\ UNCHANGED admin
         \/ m \in exposed'
<1> USE PipelineAssumption DEF PipelineAssumption, BaseInv, TypeOK, Live
<1>1. ASSUME NEW k \in Messages,
             Enqueue(k) \/ Trim(k) \/ Promote(k) \/ Age(k) \/ RecoverStalled(k)
      PROVE  m \in exposed'
  BY <1>1 DEF Enqueue, Add, Known, jobVars, Trim, Promote, Age, RecoverStalled
<1>2. ASSUME NEW w \in Workers, (\E k \in Messages : Take(w, k)) \/ Crash(w) \/ LoseLock(w)
      PROVE  FALSE
  BY <1>2 DEF Take, Crash, LoseLock
<1>3. ASSUME NEW w \in Workers, Step(w), state' # state, ~Complete(w)
      PROVE  pc[w] # "idle" /\ Throw(w) /\ UNCHANGED admin
  BY <1>3 DEF Step, CheckAge, Save, SavePoisoned, Quarantine, Analyse, AnalyseFails,
              Audit, Notify, PublishDone, StepFails, jobVars
<1>4. ASSUME NEW w \in Workers, pc[w] # "idle", Throw(w)
      PROVE  lock[m] = w /\ cur[w] = m
  <2>1. cur[w] \in Messages
    BY <1>4, Busy
  <2> QED BY <1>4, <2>1 DEF Throw
<1>5. ASSUME NEW w \in Workers, Complete(w)
      PROVE  lock[m] = w /\ cur[w] = m
  <2>1. cur[w] \in Messages
    BY <1>5, Busy DEF Complete
  <2> QED BY <1>5, <2>1 DEF Complete
<1>6. ASSUME NEW a \in Admins,
             (\E l \in letters : RetryRead(a, l)) \/ RetryAdd(a) \/ RetryRemove(a)
               \/ RetryAborted(a)
      PROVE  FALSE
  BY <1>6 DEF RetryRead, RetryAdd, RetryRemove, RetryAborted, Add, Known, jobVars
<1>7. CASE \/ \E g \in flight : Land(g)
           \/ Provision \/ Archive
           \/ \E queue \in DeadQueues : Purge(queue)
           \/ UNCHANGED vars
  BY <1>7 DEF Land, Provision, Archive, Purge, vars, jobVars
<1>8. ASSUME NEW w \in Workers, Step(w)
      PROVE  \/ Complete(w) /\ lock[m] = w /\ cur[w] = m
             \/ pc[w] # "idle" /\ Throw(w) /\ lock[m] = w /\ cur[w] = m /\ UNCHANGED admin
  <2>1. state' # state
    OBVIOUS
  <2> QED BY <1>3, <1>4, <1>5, <1>8, <2>1
<1> HIDE DEF BaseInv, TypeOK, Live
<1> QED BY <1>1, <1>2, <1>6, <1>7, <1>8 DEF Next

\* How a worker comes to be about to complete a job whose lock it holds.
LEMMA BecomesComplete ==
  ASSUME BaseInv, [Next]_vars, NEW m \in Messages, NEW w \in Workers,
         lock'[m] = w, pc'[w] = "complete"
  PROVE  \/ lock[m] = w /\ pc[w] = "complete"
         \/ lock[m] = w /\ cur[w] = m /\ (PublishDone(w) \/ Quarantine(w))
<1> USE PipelineAssumption DEF PipelineAssumption, BaseInv, TypeOK, LockInv
<1>1. ASSUME NEW k \in Messages,
             Enqueue(k) \/ Trim(k) \/ Promote(k) \/ Age(k) \/ RecoverStalled(k)
      PROVE  lock[m] = w /\ pc[w] = "complete"
  BY <1>1 DEF Enqueue, Add, Known, jobVars, Trim, Promote, Age, RecoverStalled, workVars
<1>2. ASSUME NEW v \in Workers, (\E k \in Messages : Take(v, k)) \/ Crash(v) \/ LoseLock(v)
      PROVE  lock[m] = w /\ pc[w] = "complete"
  BY <1>2 DEF Take, Crash, LoseLock, Settle, workVars
<1>3. ASSUME NEW v \in Workers, pc[v] # "idle", Throw(v)
      PROVE  lock[m] = w /\ pc[w] = "complete"
  <2>1. cur[v] \in Messages
    BY <1>3, Busy
  <2> QED BY <1>3, <2>1 DEF Throw, Settle
<1>4. ASSUME NEW v \in Workers, CheckAge(v) \/ Save(v) \/ SavePoisoned(v) \/ Analyse(v)
               \/ AnalyseFails(v) \/ Audit(v) \/ Notify(v) \/ StepFails(v)
      PROVE  lock[m] = w /\ pc[w] = "complete"
  <2>1. CASE pc[v] # "idle" /\ Throw(v)
    BY <1>3, <2>1
  <2>2. CASE ~Throw(v)
    BY <1>4, <2>2 DEF CheckAge, Save, SavePoisoned, Analyse, AnalyseFails, Audit,
                      Notify, StepFails, Goto, jobVars
  <2> QED BY <1>4, <2>1, <2>2
           DEF CheckAge, Save, SavePoisoned, Analyse, AnalyseFails, Audit, Notify, StepFails
<1>5. ASSUME NEW v \in Workers, Complete(v)
      PROVE  lock[m] = w /\ pc[w] = "complete"
  <2>1. cur[v] \in Messages
    BY <1>5, Busy DEF Complete
  <2> QED BY <1>5, <2>1 DEF Complete, Settle
<1>6. ASSUME NEW v \in Workers, PublishDone(v) \/ Quarantine(v)
      PROVE  \/ lock[m] = w /\ pc[w] = "complete"
             \/ lock[m] = w /\ cur[w] = m /\ (PublishDone(w) \/ Quarantine(w))
  BY <1>6 DEF PublishDone, Quarantine, Goto, jobVars
<1>7. ASSUME NEW a \in Admins,
             (\E l \in letters : RetryRead(a, l)) \/ RetryAdd(a) \/ RetryRemove(a)
               \/ RetryAborted(a)
      PROVE  lock[m] = w /\ pc[w] = "complete"
  BY <1>7 DEF RetryRead, RetryAdd, RetryRemove, RetryAborted, Add, Known, jobVars, workVars
<1>8. CASE \/ \E g \in flight : Land(g)
           \/ Provision \/ Archive
           \/ \E queue \in DeadQueues : Purge(queue)
           \/ UNCHANGED vars
  BY <1>8 DEF Land, Provision, Archive, Purge, vars, jobVars, workVars
<1> HIDE DEF BaseInv, TypeOK, LockInv
<1> QED BY <1>1, <1>2, <1>4, <1>5, <1>6, <1>7, <1>8 DEF Next, Step

\* A message becomes accepted only by entering the queue.
LEMMA Accepts ==
  ASSUME BaseInv, LetterInv, [Next]_vars, NEW m \in Messages,
         m \notin accepted, m \in accepted'
  PROVE  Live(m)' /\ rows' = rows
<1> USE DEF BaseInv, TypeOK
<1>1. Enqueue(m)
  <2>1. accepted' # accepted
    OBVIOUS
  <2>2. ASSUME NEW k \in Messages, Trim(k) \/ Promote(k) \/ Age(k) \/ RecoverStalled(k)
        PROVE  FALSE
    BY <2>1, <2>2 DEF Trim, Promote, Age, RecoverStalled
  <2>3. ASSUME NEW w \in Workers,
               (\E k \in Messages : Take(w, k)) \/ Step(w) \/ Crash(w) \/ LoseLock(w)
        PROVE  FALSE
    BY <2>1, <2>3 DEF Take, Step, CheckAge, Save, SavePoisoned, Quarantine, Analyse,
         AnalyseFails, Audit, Notify, PublishDone, StepFails, Complete, Crash, LoseLock
  <2>4. ASSUME NEW a \in Admins,
               (\E l \in letters : RetryRead(a, l)) \/ RetryAdd(a) \/ RetryRemove(a)
                 \/ RetryAborted(a)
        PROVE  FALSE
    BY <2>1, <2>4 DEF RetryRead, RetryAdd, RetryRemove, RetryAborted
  <2>5. CASE \/ \E g \in flight : Land(g)
             \/ Provision \/ Archive
             \/ \E queue \in DeadQueues : Purge(queue)
             \/ UNCHANGED vars
    BY <2>1, <2>5 DEF Land, Provision, Archive, Purge, vars
  <2>6. ASSUME NEW k \in Messages, Enqueue(k) PROVE k = m
    BY <2>6 DEF Enqueue
  <2> QED BY <2>2, <2>3, <2>4, <2>5, <2>6 DEF Next
<1>2. ~Known(m)
  BY DEF LetterInv, Known
<1> QED BY <1>1, <1>2 DEF Enqueue, Add, Live, effectVars

\* The fourth layer is inductive on top of the others.
LEMMA EvidenceStep ==
  BaseInv /\ WorkInv /\ LetterInv /\ EvidenceInv /\ [Next]_vars => EvidenceInv'
<1> SUFFICES ASSUME BaseInv, WorkInv, LetterInv, EvidenceInv, [Next]_vars
             PROVE  EvidenceInv'
  OBVIOUS
<1>1. ASSUME NEW m \in Messages, m \in accepted', ~Live(m)' PROVE Evidence(m)'
  <2>1. m \in accepted
    BY <1>1, Accepts
  <2>2. ASSUME NEW a \in Admins, RetryAdd(a), admin[a].letter.msg = m PROVE Known(m)
    BY <1>1, <2>2 DEF RetryAdd, Add, Live, BaseInv, TypeOK
  <2>3. CASE ~Live(m)
    BY <2>1, <2>2, <2>3, EvidenceKept DEF EvidenceInv
  <2>4. CASE m \in exposed'
    BY <2>4 DEF Evidence
  <2>5. ASSUME NEW w \in Workers, Complete(w), lock[m] = w PROVE Evidence(m)'
    BY <2>2, <2>5, EvidenceKept DEF EvidenceInv, Complete
  <2>6. ASSUME Live(m), NEW w \in Workers, pc[w] # "idle", Throw(w), lock[m] = w,
               cur[w] = m, UNCHANGED admin
        PROVE  Evidence(m)'
    <3>1. attemptsMade[m] \in 0..attempts /\ attempts \in Nat
      BY PipelineAssumption DEF BaseInv, TypeOK, PipelineAssumption
    <3>2. ~RetryLeft(attemptsMade[m] + 1)
      BY <1>1, <2>6 DEF Throw, Live, BaseInv, TypeOK
    <3>3. Exhausted(attemptsMade[m] + 1)
      BY <3>1, <3>2 DEF RetryLeft, Exhausted
    <3>4. [letter |-> NewLetter(m, "dead-letter"), by |-> w] \in flight'
      BY <2>6, <3>3 DEF Throw
    <3>5. Safe(NewLetter(m, "dead-letter"))
      BY NewIsSafe DEF DeadQueues
    <3>6. NewLetter(m, "dead-letter").msg = m
      BY DEF NewLetter
    <3>7. \E f \in flight' : f.letter.msg = m /\ Safe(f.letter)
      BY <3>4, <3>5, <3>6
    <3>8. SafelyHeld(m)'
      BY <2>6, <3>7 DEF SafelyHeld, Safe
    <3> QED BY <3>8 DEF Evidence
  <2> QED BY <1>1, <2>3, <2>4, <2>5, <2>6, Ends
<1>2. ASSUME NEW m \in Messages, NEW w \in Workers, lock'[m] = w, pc'[w] = "complete"
      PROVE  Evidence(m)'
  <2>1. CASE lock[m] = w /\ pc[w] = "complete"
    <3>1. Known(m)
      BY <2>1 DEF BaseInv, LockInv, Known
    <3> QED BY <2>1, <3>1, EvidenceKept DEF EvidenceInv
  <2>2. CASE lock[m] = w /\ cur[w] = m /\ PublishDone(w)
    <3>1. Processed(m)
      BY <2>2 DEF PublishDone, Published, WorkInv, PublishInv, Processed
    <3>2. Processed(m)'
      BY <3>1, Grows DEF Processed, BaseInv
    <3> QED BY <3>2 DEF Evidence
  <2>3. CASE cur[w] = m /\ Quarantine(w)
    <3>1. NewLetter(m, "poison-quarantine") \in letters' /\ admin' = admin
      BY <2>3 DEF Quarantine
    <3>2. Safe(NewLetter(m, "poison-quarantine"))
      BY NewIsSafe DEF DeadQueues
    <3>3. NewLetter(m, "poison-quarantine").msg = m
      BY DEF NewLetter
    <3>4. SafelyHeld(m)'
      BY <3>1, <3>2, <3>3 DEF SafelyHeld, Safe
    <3> QED BY <3>4 DEF Evidence
  <2> QED BY <1>2, <2>1, <2>2, <2>3, BecomesComplete
<1> QED BY <1>1, <1>2 DEF EvidenceInv

\* All four layers hold in every reachable state.
THEOREM Invariance == Spec => [](BaseInv /\ WorkInv /\ LetterInv /\ EvidenceInv)
BY BaseInit, BaseStep, WorkInit, WorkStep, LetterInit, LetterStep, EvidenceInit,
   EvidenceStep, PTL DEF Spec

\* Safe letters are letters, so evidence is what NothingLost asks for.
LEMMA EvidenceSuffices ==
  ASSUME TypeOK, EvidenceInv PROVE NothingLost
<1> SUFFICES ASSUME NEW m \in accepted, ~Live(m)
             PROVE  Processed(m) \/ Held(m) \/ m \in exposed
  BY DEF NothingLost
<1>1. Evidence(m)
  BY DEF EvidenceInv, TypeOK
<1> QED BY <1>1 DEF Evidence, SafelyHeld, Held

\* Whatever the queue, the workers, their crashes and the administrators do, an
\* accepted message is still to be processed, or was processed, or is in a dead-
\* letter queue, unless it went through a step that can lose one.
THEOREM NoSilentLoss == Spec => []NothingLost
BY Invariance, EvidenceSuffices, PTL DEF BaseInv
-----------------------------------------------------------------------------
(***************************************************************************)
(* The pipeline implements the ledger's safety part                        *)
(***************************************************************************)
\* A message nobody accepted is unknown to the ledger.
LEMMA UnknownFate ==
  ASSUME BaseInv, LetterInv, NEW m \in Messages, m \notin accepted
  PROVE  ~Processed(m) /\ ~Live(m) /\ ~Held(m) /\ Fate(m) = "unknown"
<1>1. ~Processed(m) /\ ~Live(m) /\ ~Held(m)
  BY DEF LetterInv, Processed, Live, Held
<1> QED BY <1>1 DEF Fate

\* An accepted message has a known fate, and is lost only if exposed.
LEMMA KnownFate ==
  ASSUME NothingLost, NEW m \in Messages, m \in accepted
  PROVE  /\ Fate(m) \in {"pending", "processed", "held", "lost"}
         /\ Fate(m) = "lost" => m \in exposed
         /\ Fate(m) = "processed" <=> Processed(m)
<1>1. CASE Processed(m)
  BY <1>1 DEF Fate
<1>2. CASE ~Processed(m) /\ Live(m)
  BY <1>2 DEF Fate
<1>3. CASE ~Processed(m) /\ ~Live(m) /\ Held(m)
  BY <1>3 DEF Fate
<1>4. CASE ~Processed(m) /\ ~Live(m) /\ ~Held(m)
  BY <1>4 DEF Fate, NothingLost
<1> QED BY <1>1, <1>2, <1>3, <1>4

\* Both, as a state predicate.
FateFacts ==
  \A m \in Messages :
    /\ m \notin accepted => Fate(m) = "unknown" /\ ~Processed(m)
    /\ m \in accepted =>
         /\ Fate(m) \in {"pending", "processed", "held", "lost"}
         /\ Fate(m) = "lost" => m \in exposed
         /\ Fate(m) = "processed" <=> Processed(m)

LEMMA FateFactsHold == BaseInv /\ LetterInv /\ NothingLost => FateFacts
BY UnknownFate, KnownFate DEF FateFacts

\* Every step is a step of the ledger, or changes nothing it shows.
LEMMA LedgerStep ==
  ASSUME BaseInv, LetterInv, FateFacts, FateFacts', [Next]_vars
  PROVE  Ledger!Next
<1>1. ASSUME NEW m \in Messages
      PROVE  /\ Fate(m)' \in Ledger!Fates
             /\ Fate(m)' # Fate(m) =>
                  /\ <<Fate(m), Fate(m)'>> \in Ledger!Moves
                  /\ Fate(m)' = "lost" => m \in exposed'
  <2>1. CASE m \notin accepted'
    <3>1. m \notin accepted
      BY <2>1, Grows DEF BaseInv
    <3>2. Fate(m) = "unknown"
      BY <3>1 DEF FateFacts
    <3>3. Fate(m)' = "unknown"
      BY <2>1 DEF FateFacts
    <3> QED BY <3>2, <3>3 DEF Ledger!Fates
  <2>2. CASE m \notin accepted /\ m \in accepted'
    <3>1. Fate(m) = "unknown" /\ ~Processed(m)
      BY <2>2 DEF FateFacts
    <3>2. Live(m)' /\ rows' = rows
      BY <2>2, Accepts
    <3>3. ~Processed(m)'
      BY <2>2, <3>2 DEF Processed, LetterInv
    <3>4. Fate(m)' = "pending"
      BY <3>2, <3>3 DEF Fate
    <3> QED BY <3>1, <3>4 DEF Ledger!Fates, Ledger!Moves
  <2>3. CASE m \in accepted /\ m \in accepted'
    <3>1. /\ Fate(m) \in {"pending", "processed", "held", "lost"}
          /\ Fate(m) = "processed" <=> Processed(m)
      BY <2>3 DEF FateFacts
    <3>2. /\ Fate(m)' \in {"pending", "processed", "held", "lost"}
          /\ Fate(m)' = "lost" => m \in exposed'
          /\ Fate(m)' = "processed" <=> Processed(m)'
      BY <2>3 DEF FateFacts
    <3>3. Processed(m) => Processed(m)'
      BY Grows DEF BaseInv, Processed
    <3> QED BY <3>1, <3>2, <3>3 DEF Ledger!Fates, Ledger!Moves
  <2>4. accepted \subseteq accepted'
    BY Grows DEF BaseInv
  <2> QED BY <2>1, <2>2, <2>3, <2>4
<1>2. [m \in Messages |-> Fate(m)]' = [m \in Messages |-> Fate(m)']
  OBVIOUS
<1>3. exposed \subseteq exposed'
  BY Grows DEF BaseInv
<1>4. [m \in Messages |-> Fate(m)]' \in [Messages -> Ledger!Fates]
  BY <1>1, <1>2
<1> QED BY <1>1, <1>2, <1>3, <1>4 DEF Ledger!Next

\* The pipeline implements the safety part of WorkLedger: a message processed
\* stays processed, one that was accepted is pending first, and it is lost only
\* in consequence of a step that can lose messages.
THEOREM ImplementsLedger == Spec => Ledger!SafeSpec
<1>1. Init => Ledger!Init
  <2> SUFFICES ASSUME Init PROVE Ledger!Init
    OBVIOUS
  <2>1. \A m \in Messages : Fate(m) = "unknown"
    BY BaseInit, LetterInit, UnknownFate DEF Init
  <2> QED BY <2>1 DEF Ledger!Init, Init
<1>2. BaseInv /\ LetterInv /\ EvidenceInv => FateFacts
  BY EvidenceSuffices, FateFactsHold DEF BaseInv
<1>3. BaseInv /\ LetterInv /\ FateFacts /\ FateFacts' /\ [Next]_vars => Ledger!Next
  BY LedgerStep
<1> QED BY <1>1, <1>2, <1>3, Invariance, PTL DEF Spec, Ledger!SafeSpec

(***************************************************************************)
(* A message that has been processed stays so, and a message that is lost  *)
(* went through a step that can lose messages: no retry, purge, trim,      *)
(* crash or stale processor takes an effect back.                          *)
(***************************************************************************)
THEOREM ProcessedForGood ==
  Spec => [][\A m \in Messages :
               /\ Fate(m) = "processed" => Fate(m)' = "processed"
               /\ Fate(m)' = "lost" => Fate(m) = "lost" \/ m \in exposed']_vars
<1>1. BaseInv /\ LetterInv /\ EvidenceInv => FateFacts
  BY EvidenceSuffices, FateFactsHold DEF BaseInv
<1>2. BaseInv /\ LetterInv /\ FateFacts /\ FateFacts' /\ [Next]_vars
        => [\A m \in Messages :
              /\ Fate(m) = "processed" => Fate(m)' = "processed"
              /\ Fate(m)' = "lost" => Fate(m) = "lost" \/ m \in exposed']_vars
  <2> SUFFICES ASSUME BaseInv, LetterInv, FateFacts, FateFacts', [Next]_vars,
                      NEW m \in Messages
               PROVE  /\ Fate(m) = "processed" => Fate(m)' = "processed"
                      /\ Fate(m)' = "lost" => Fate(m) = "lost" \/ m \in exposed'
    OBVIOUS
  <2>1. Fate(m)' # Fate(m) =>
          /\ <<Fate(m), Fate(m)'>> \in Ledger!Moves
          /\ Fate(m)' = "lost" => m \in exposed'
    <3>1. Ledger!Next
      BY LedgerStep
    <3> QED BY <3>1 DEF Ledger!Next
  <2> QED BY <2>1 DEF Ledger!Moves
<1> QED BY <1>1, <1>2, Invariance, PTL DEF Spec
=============================================================================
