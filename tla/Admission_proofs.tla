-------------------------- MODULE Admission_proofs --------------------------
(***************************************************************************)
(* Proofs about Admission for any processes, calls, requests, keys and     *)
(* messages, and any limit, window and skew.                               *)
(***************************************************************************)
EXTENDS Admission, TLAPS

InProgress == [pc : Stages, proc : Processes, req : Requests, next : Nat]

(***************************************************************************)
(* Where a call may be: at a key of its request, at a message of its       *)
(* batch, with the messages before it valid and in the queue.              *)
(***************************************************************************)
PlaceOK(c) ==
  c # Idle =>
    /\ c.next >= 1
    /\ c.pc \in {"incr", "expire"} => c.next <= Len(KeysOf[c.req])
    /\ c.pc = "enqueue" => /\ c.next <= Len(Batch[c.req])
                           /\ Batch[c.req][c.next] \notin Invalid

SoFar(c, enqueued) ==
  c.pc \in {"profile", "enqueue"} =>
    \A i \in 1..Len(Batch[c.req]) :
      i < c.next => Batch[c.req][i] \in enqueued /\ Batch[c.req][i] \notin Invalid

Places == \A k \in Calls : PlaceOK(call[k])
BatchSoFar == \A k \in Calls : SoFar(call[k], queue)

(***************************************************************************)
(* A claim and the age of what it was made for, together, reach the end of *)
(* the signature.                                                          *)
(***************************************************************************)
Remembers == \A g \in granted : claim[g[1]][g[2]] + age[g[2]] >= Expired

IInv == AdmissionTypeOK /\ Places /\ BatchSoFar /\ AcceptedIsEnqueued /\ Remembers

-----------------------------------------------------------------------------
(***************************************************************************)
(* Arithmetic and types of the pieces                                      *)
(***************************************************************************)
LEMMA Times ==
  /\ Expired \in Nat \ {0} /\ ClaimLasts = Expired
  /\ ClaimLasts \in 1..Expired
  /\ 0 \in 0..Expired /\ 0 \in 0..(Window + 1) /\ Window + 1 \in 0..(Window + 1)
  /\ 0 \in 0..(Limit + 1) /\ Limit + 1 \in 0..(Limit + 1) /\ 1 \in 0..(Limit + 1)
BY AdmissionAssumption DEF AdmissionAssumption, Expired, ClaimLasts

LEMMA CallType ==
  ASSUME AdmissionTypeOK, NEW k \in Calls, call[k].pc # "idle"
  PROVE  call[k] \in InProgress
BY DEF AdmissionTypeOK, Idle, InProgress

LEMMA CountedType ==
  ASSUME AdmissionTypeOK, NEW s \in Stores, NEW key \in RateKeys
  PROVE  Counted(s, key) \in 0..(Limit + 1)
<1>1. count[s][key] \in 0..(Limit + 1)
  BY DEF AdmissionTypeOK
<1> QED BY <1>1, AdmissionAssumption DEF AdmissionAssumption, Counted

\* The key a call is at.
LEMMA KeyType ==
  ASSUME AdmissionTypeOK, NEW k \in Calls, call[k] \in InProgress,
         call[k].next >= 1, call[k].next <= Len(KeysOf[call[k].req])
  PROVE  Key(k) \in RateKeys
<1>1. KeysOf[call[k].req] \in Seq(RateKeys)
  BY AdmissionAssumption DEF AdmissionAssumption, InProgress
<1>2. call[k].next \in 1..Len(KeysOf[call[k].req])
  BY <1>1 DEF InProgress
<1> QED BY <1>1, <1>2 DEF Key

(***************************************************************************)
(* A step of a call leaves it somewhere it may be, and the other calls     *)
(* where they are.                                                         *)
(***************************************************************************)
MovesTo(k, c) ==
  /\ c \in {Idle} \cup InProgress
  /\ PlaceOK(c) /\ SoFar(c, queue')
  /\ call' = [call EXCEPT ![k] = c]

LEMMA GoToMoves ==
  ASSUME AdmissionTypeOK, NEW k \in Calls, call[k].pc # "idle",
         NEW stage \in Stages, GoTo(k, stage),
         PlaceOK([call[k] EXCEPT !.pc = stage]),
         SoFar([call[k] EXCEPT !.pc = stage], queue')
  PROVE  MovesTo(k, [call[k] EXCEPT !.pc = stage])
<1>1. call[k] \in InProgress
  BY CallType
<1>2. [call[k] EXCEPT !.pc = stage] \in InProgress
  BY <1>1 DEF InProgress
<1>3. call' = [call EXCEPT ![k] = [call[k] EXCEPT !.pc = stage]]
  BY DEF GoTo
<1> QED BY <1>2, <1>3 DEF MovesTo

LEMMA AdvanceMoves ==
  ASSUME AdmissionTypeOK, Places, NEW k \in Calls, call[k].pc # "idle",
         NEW stage \in {"limit", "profile"}, Advance(k, stage),
         SoFar([call[k] EXCEPT !.pc = stage, !.next = @ + 1], queue')
  PROVE  MovesTo(k, [call[k] EXCEPT !.pc = stage, !.next = @ + 1])
<1> DEFINE c == [call[k] EXCEPT !.pc = stage, !.next = @ + 1]
<1>1. call[k] \in InProgress
  BY CallType
<1>2. stage \in Stages /\ call[k].next + 1 \in Nat
  BY <1>1 DEF InProgress, Stages
<1>3. c \in InProgress /\ c.pc = stage /\ c.next = call[k].next + 1
  BY <1>1, <1>2 DEF InProgress
<1>4. call' = [call EXCEPT ![k] = c]
  BY DEF Advance
<1>5. PlaceOK(c)
  BY <1>1, <1>3 DEF PlaceOK, InProgress
<1> QED BY <1>3, <1>4, <1>5 DEF MovesTo

LEMMA AnswerMoves ==
  ASSUME NEW k \in Calls, Answer(k)
  PROVE  MovesTo(k, Idle)
BY DEF Answer, MovesTo, PlaceOK, SoFar, Idle

LEMMA DecideMoves ==
  ASSUME AdmissionTypeOK, Places, NEW k \in Calls, call[k].pc # "idle", NEW n,
         Decide(k, n)
  PROVE  \E c : MovesTo(k, c)
<1>1. CASE n > Limit
  BY <1>1, AnswerMoves DEF Decide
<1>2. CASE ~(n > Limit)
  <2> DEFINE c == [call[k] EXCEPT !.pc = "limit", !.next = @ + 1]
  <2>1. call[k] \in InProgress
    BY CallType
  <2>2. c.pc = "limit"
    BY <2>1 DEF InProgress
  <2>3. SoFar(c, queue')
    BY <2>2 DEF SoFar
  <2>4. MovesTo(k, c)
    BY <1>2, <2>3, AdvanceMoves DEF Decide
  <2> QED BY <2>4
<1> QED BY <1>1, <1>2

\* The stages of which nothing is said.
LEMMA FreeMoves ==
  ASSUME AdmissionTypeOK, Places, NEW k \in Calls, call[k].pc # "idle",
         NEW stage \in {"authenticate", "claim", "handle"}, GoTo(k, stage)
  PROVE  MovesTo(k, [call[k] EXCEPT !.pc = stage])
<1> DEFINE c == [call[k] EXCEPT !.pc = stage]
<1>1. call[k] \in InProgress /\ PlaceOK(call[k]) /\ call[k] # Idle
  BY CallType DEF Places, Idle
<1>2. c.pc = stage /\ c.next = call[k].next
  BY <1>1 DEF InProgress
<1>3. PlaceOK(c) /\ SoFar(c, queue')
  BY <1>1, <1>2 DEF PlaceOK, SoFar
<1>4. stage \in Stages
  BY DEF Stages
<1> QED BY <1>3, <1>4, GoToMoves

\* The messages before the place of a call, when its place has not moved.
LEMMA BatchMoves ==
  ASSUME AdmissionTypeOK, Places, BatchSoFar, NEW k \in Calls, At(k, "profile"), ~Done(k),
         Validate(k)
  PROVE  \E c : MovesTo(k, c)
<1>1. CASE Message(k) \in Invalid
  BY <1>1, AnswerMoves DEF Validate
<1>2. CASE Message(k) \notin Invalid
  <2> DEFINE c == [call[k] EXCEPT !.pc = "enqueue"]
  <2>1. call[k] \in InProgress /\ PlaceOK(call[k]) /\ SoFar(call[k], queue)
    BY CallType DEF Places, BatchSoFar, At
  <2>2. call[k] # Idle /\ call[k].pc = "profile"
    BY DEF At, Idle
  <2>3. c.pc = "enqueue" /\ c.next = call[k].next /\ c.req = call[k].req
    BY <2>1 DEF InProgress
  <2>4. call[k].next <= Len(Batch[call[k].req])
    <3>1. Len(Batch[call[k].req]) \in Nat
      BY <2>1, AdmissionAssumption DEF AdmissionAssumption, InProgress
    <3> QED BY <3>1, <2>1 DEF Done, InProgress
  <2>5. PlaceOK(c)
    BY <1>2, <2>1, <2>2, <2>3, <2>4 DEF PlaceOK, Message
  <2>6. SoFar(c, queue')
    BY <2>1, <2>2, <2>3 DEF SoFar, Validate
  <2>7. "enqueue" \in Stages /\ call[k].pc # "idle" /\ GoTo(k, "enqueue")
    BY <1>2, <2>2 DEF Stages, Validate
  <2> QED BY <2>5, <2>6, <2>7, GoToMoves
<1> QED BY <1>1, <1>2

\* One more message is in the queue.
LEMMA EnqueueMoves ==
  ASSUME AdmissionTypeOK, Places, BatchSoFar, NEW k \in Calls, Enqueue(k)
  PROVE  \E c : MovesTo(k, c)
<1> DEFINE c == [call[k] EXCEPT !.pc = "profile", !.next = @ + 1]
<1>1. call[k].pc = "enqueue" /\ call[k].pc # "idle" /\ call[k] # Idle
  BY DEF Enqueue, At, Idle
<1>2. call[k] \in InProgress /\ PlaceOK(call[k]) /\ SoFar(call[k], queue)
  BY <1>1, CallType DEF Places, BatchSoFar
<1>3. call[k].next + 1 \in Nat
  BY <1>2 DEF InProgress
<1>4. c.next = call[k].next + 1 /\ c.req = call[k].req
  BY <1>2, <1>3 DEF InProgress
<1>5. SoFar(c, queue')
  <2>1. queue' = queue \cup {Batch[call[k].req][call[k].next]}
    BY DEF Enqueue, Message
  <2>2. Batch[call[k].req][call[k].next] \notin Invalid
    BY <1>1, <1>2 DEF PlaceOK
  <2>3. ASSUME NEW i \in 1..Len(Batch[call[k].req]), i < call[k].next + 1
        PROVE  Batch[call[k].req][i] \in queue' /\ Batch[call[k].req][i] \notin Invalid
    <3>1. i = call[k].next \/ i < call[k].next
      BY <1>2, <2>3 DEF InProgress
    <3>2. CASE i < call[k].next
      BY <3>2, <1>1, <1>2, <2>1 DEF SoFar
    <3>3. CASE i = call[k].next
      BY <3>3, <2>1, <2>2
    <3> QED BY <3>1, <3>2, <3>3
  <2> QED BY <1>4, <2>3 DEF SoFar
<1> QED BY <1>1, <1>5, AdvanceMoves DEF Enqueue

\* The loop begins at the first message.
LEMMA HandleMoves ==
  ASSUME AdmissionTypeOK, NEW k \in Calls, Handle(k)
  PROVE  \E c : MovesTo(k, c)
<1> DEFINE c == [call[k] EXCEPT !.pc = "profile", !.next = 1]
<1>1. call[k] \in InProgress
  BY CallType DEF Handle, At
<1>2. "profile" \in Stages /\ 1 \in Nat
  BY DEF Stages
<1>3. c \in InProgress /\ c.pc = "profile" /\ c.next = 1
  BY <1>1, <1>2 DEF InProgress
<1>4. PlaceOK(c)
  BY <1>3 DEF PlaceOK
<1>5. SoFar(c, queue')
  BY <1>3 DEF SoFar
<1>6. call' = [call EXCEPT ![k] = c]
  BY DEF Handle
<1> QED BY <1>3, <1>4, <1>5, <1>6 DEF MovesTo

\* To redis.incr or redis.pexpire for the key the call is at.
LEMMA CountMoves ==
  ASSUME AdmissionTypeOK, Places, NEW k \in Calls, call[k].pc # "idle",
         call[k].next <= Len(KeysOf[call[k].req]),
         NEW stage \in {"incr", "expire"}, GoTo(k, stage)
  PROVE  \E c : MovesTo(k, c)
<1> DEFINE c == [call[k] EXCEPT !.pc = stage]
<1>1. call[k] \in InProgress /\ PlaceOK(call[k]) /\ call[k] # Idle
  BY CallType DEF Places, Idle
<1>2. c.pc = stage /\ c.next = call[k].next /\ c.req = call[k].req
  BY <1>1 DEF InProgress
<1>3. PlaceOK(c) /\ SoFar(c, queue')
  BY <1>1, <1>2 DEF PlaceOK, SoFar
<1>4. stage \in Stages
  BY DEF Stages
<1> QED BY <1>3, <1>4, GoToMoves

\* Whatever a call does, it moves and no message leaves the queue.
LEMMA StepMoves ==
  ASSUME AdmissionTypeOK, Places, BatchSoFar, NEW k \in Calls, Step(k)
  PROVE  /\ \E c : MovesTo(k, c)
         /\ call[k] \in InProgress
         /\ queue \subseteq queue'
<1>0. call[k].pc # "idle" /\ queue \subseteq queue'
  BY DEF Step, LimitKey, Limited, Incr, Pexpire, LimiterThrows, Authenticate, Refuse,
         SetReturns, GuardThrows, Handle, Validate, Enqueue, Accept, HandlerThrows, At
<1>1. call[k] \in InProgress
  BY <1>0, CallType
<1>2. PlaceOK(call[k]) /\ call[k] # Idle
  BY <1>0 DEF Places, Idle
<1> SUFFICES \E c : MovesTo(k, c)
  BY <1>0, <1>1
<1>3. CASE LimitKey(k)
  <2>1. CASE limiter[call[k].proc] = Redis
    BY <2>1, <1>0, <1>3, CountMoves DEF LimitKey
  <2>2. CASE limiter[call[k].proc] # Redis
    BY <2>2, <1>0, <1>3, DecideMoves DEF LimitKey, CountInMemory
  <2> QED BY <2>1, <2>2
<1>4. CASE Limited(k)
  BY <1>0, <1>4, FreeMoves DEF Limited
<1>5. CASE Incr(k)
  <2>1. call[k].next <= Len(KeysOf[call[k].req])
    BY <1>2, <1>5 DEF Incr, At, PlaceOK
  <2>2. GoTo(k, "expire") \/ Decide(k, Counted(Redis, Key(k)))
    BY <1>5 DEF Incr
  <2> QED BY <1>0, <2>1, <2>2, CountMoves, DecideMoves
<1>6. CASE Pexpire(k)
  BY <1>0, <1>6, DecideMoves DEF Pexpire
<1>7. CASE LimiterThrows(k)
  BY <1>0, <1>7, DecideMoves DEF LimiterThrows
<1>8. CASE Authenticate(k)
  <2>1. GoTo(k, "claim") \/ Answer(k) \/ GoTo(k, "handle")
    BY <1>8 DEF Authenticate, Claim
  <2> QED BY <1>0, <2>1, FreeMoves, AnswerMoves
<1>9. CASE Refuse(k)
  BY <1>9, AnswerMoves DEF Refuse
<1>10. CASE SetReturns(k)
  <2>1. Answer(k) \/ GoTo(k, "handle")
    BY <1>10 DEF SetReturns, Claim
  <2> QED BY <1>0, <2>1, FreeMoves, AnswerMoves
<1>11. CASE GuardThrows(k)
  <2>1. Answer(k) \/ GoTo(k, "handle")
    BY <1>11 DEF GuardThrows
  <2> QED BY <1>0, <2>1, FreeMoves, AnswerMoves
<1>12. CASE Handle(k)
  BY <1>12, HandleMoves
<1>13. CASE Validate(k)
  BY <1>13, BatchMoves DEF Validate
<1>14. CASE Enqueue(k)
  BY <1>14, EnqueueMoves
<1>15. CASE Accept(k)
  BY <1>15, AnswerMoves DEF Accept
<1>16. CASE HandlerThrows(k)
  BY <1>16, AnswerMoves DEF HandlerThrows
<1> QED
  BY <1>3, <1>4, <1>5, <1>6, <1>7, <1>8, <1>9, <1>10, <1>11, <1>12, <1>13, <1>14,
     <1>15, <1>16 DEF Step

CallsOK == call \in [Calls -> {Idle} \cup InProgress] /\ Places /\ BatchSoFar

\* One call has moved.
LEMMA MovedCalls ==
  ASSUME CallsOK, queue \subseteq queue', NEW k \in Calls, NEW c, MovesTo(k, c)
  PROVE  CallsOK'
<1>1. call' = [call EXCEPT ![k] = c]
  BY DEF MovesTo
<1>2. call' \in [Calls -> {Idle} \cup InProgress]
  BY <1>1 DEF CallsOK, MovesTo
<1>3. \A j \in Calls : call'[j] = IF j = k THEN c ELSE call[j]
  BY <1>1 DEF CallsOK
<1>4. Places'
  BY <1>3 DEF CallsOK, Places, MovesTo
<1>5. \A j \in Calls : SoFar(call'[j], queue')
  <2> TAKE j \in Calls
  <2>1. CASE j = k
    BY <2>1, <1>3 DEF MovesTo
  <2>2. CASE j # k
    BY <2>2, <1>3 DEF CallsOK, BatchSoFar, SoFar
  <2> QED BY <2>1, <2>2
<1> QED BY <1>2, <1>4, <1>5 DEF CallsOK, BatchSoFar

\* Every action keeps the calls where they may be.
LEMMA CallsInv ==
  ASSUME IInv, [AdmissionNext]_admissionVars
  PROVE  CallsOK' /\ queue \subseteq queue'
<1> USE DEF rateVars
<1>1. CallsOK /\ AdmissionTypeOK /\ Places /\ BatchSoFar
  BY DEF IInv, CallsOK, AdmissionTypeOK, InProgress
<1>2. CASE call' = call /\ queue' = queue
  BY <1>1, <1>2 DEF CallsOK, Places, BatchSoFar
<1>3. ASSUME NEW k \in Calls, Step(k)
      PROVE  CallsOK' /\ queue \subseteq queue'
  BY <1>1, <1>3, StepMoves, MovedCalls
<1>4. ASSUME NEW k \in Calls, NEW p \in Processes, NEW r \in Requests, Arrive(k, p, r)
      PROVE  CallsOK' /\ queue \subseteq queue'
  <2> DEFINE c == [pc |-> "limit", proc |-> p, req |-> r, next |-> 1]
  <2>1. c \in InProgress
    BY DEF InProgress, Stages
  <2>2. PlaceOK(c) /\ SoFar(c, queue')
    BY DEF PlaceOK, SoFar
  <2>3. MovesTo(k, c)
    BY <1>4, <2>1, <2>2 DEF MovesTo, Arrive
  <2> QED BY <1>1, <1>4, <2>3, MovedCalls DEF Arrive
<1>5. ASSUME NEW p \in Processes, Restart(p)
      PROVE  CallsOK' /\ queue \subseteq queue'
  <2>1. queue' = queue /\ \A k \in Calls : call'[k] \in {Idle, call[k]}
    BY <1>5 DEF Restart
  <2>2. call' \in [Calls -> {Idle} \cup InProgress]
    BY <1>1, <1>5 DEF Restart, CallsOK
  <2>3. PlaceOK(Idle) /\ SoFar(Idle, queue)
    BY DEF PlaceOK, SoFar, Idle
  <2>4. \A k \in Calls : PlaceOK(call'[k]) /\ SoFar(call'[k], queue)
    BY <1>1, <2>1, <2>3 DEF Places, BatchSoFar
  <2> QED BY <2>1, <2>2, <2>4 DEF CallsOK, Places, BatchSoFar
<1>6. CASE Tick
  BY <1>2, <1>6 DEF Tick
<1>7. CASE UNCHANGED admissionVars
  BY <1>2, <1>7 DEF admissionVars
<1> QED BY <1>3, <1>4, <1>5, <1>6, <1>7 DEF AdmissionNext

-----------------------------------------------------------------------------
(***************************************************************************)
(* Counters, claims and stores                                             *)
(***************************************************************************)
CountersOK ==
  /\ count \in [Stores -> [RateKeys -> 0..(Limit + 1)]]
  /\ left \in [Stores -> [RateKeys -> 0..(Window + 1)]]
  /\ limiter \in [Processes -> Stores]

\* One more under a key of a store.
LEMMA CountInStore ==
  ASSUME CountersOK, NEW s \in Stores, NEW key \in RateKeys,
         NEW n \in 0..(Limit + 1), NEW t \in 0..(Window + 1)
  PROVE  /\ [count EXCEPT ![s][key] = n] \in [Stores -> [RateKeys -> 0..(Limit + 1)]]
         /\ [left EXCEPT ![s][key] = t] \in [Stores -> [RateKeys -> 0..(Window + 1)]]
BY DEF CountersOK

\* The key of a call that is counting.
LEMMA CountingKey ==
  ASSUME AdmissionTypeOK, Places, NEW k \in Calls, call[k].pc \in {"incr", "expire"}
  PROVE  /\ Key(k) \in RateKeys
         /\ call[k].proc \in Processes
<1>1. call[k] \in InProgress /\ call[k] # Idle
  BY CallType DEF Idle
<1>2. call[k].next >= 1 /\ call[k].next <= Len(KeysOf[call[k].req])
  BY <1>1 DEF Places, PlaceOK
<1> QED BY <1>1, <1>2, KeyType DEF InProgress

LEMMA CountersInv ==
  ASSUME IInv, [AdmissionNext]_admissionVars
  PROVE  CountersOK'
<1>1. CountersOK /\ AdmissionTypeOK /\ Places
  BY DEF IInv, CountersOK, AdmissionTypeOK
<1>2. CASE UNCHANGED rateVars
  BY <1>1, <1>2 DEF rateVars, CountersOK
<1>3. ASSUME NEW k \in Calls, LimitKey(k)
      PROVE  CountersOK'
  <2>1. call[k] \in InProgress /\ call[k] # Idle /\ call[k].proc \in Stores
    BY <1>1, <1>3, CallType DEF LimitKey, At, Idle, InProgress, Stores
  <2>2. Key(k) \in RateKeys
    BY <1>1, <1>3, <2>1, KeyType DEF LimitKey, Places, PlaceOK
  <2>3. CASE UNCHANGED <<count, left>>
    BY <1>2, <1>3, <2>3 DEF LimitKey, rateVars
  <2>4. CASE CountInMemory(k)
    <3>1. Counted(call[k].proc, Key(k)) \in 0..(Limit + 1)
      BY <1>1, <2>1, <2>2, CountedType
    <3>2. left[call[k].proc][Key(k)] \in 0..(Window + 1)
      BY <1>1, <2>1, <2>2 DEF CountersOK
    <3>3. (IF count[call[k].proc][Key(k)] = 0
             THEN Window + 1 ELSE left[call[k].proc][Key(k)]) \in 0..(Window + 1)
      BY <3>2, Times
    <3> QED BY <1>1, <1>3, <2>1, <2>2, <2>4, <3>1, <3>3, CountInStore
         DEF CountInMemory, LimitKey, CountersOK
  <2> QED BY <1>3, <2>3, <2>4 DEF LimitKey
<1>4. ASSUME NEW k \in Calls, Incr(k)
      PROVE  CountersOK'
  <2>1. Key(k) \in RateKeys /\ Redis \in Stores
    BY <1>1, <1>4, CountingKey DEF Incr, At, Stores
  <2>2. Counted(Redis, Key(k)) \in 0..(Limit + 1)
    BY <1>1, <2>1, CountedType
  <2> QED BY <1>1, <1>4, <2>1, <2>2, Times, CountInStore DEF Incr, CountersOK
<1>5. ASSUME NEW k \in Calls, Pexpire(k)
      PROVE  CountersOK'
  <2>1. Key(k) \in RateKeys /\ Redis \in Stores
    BY <1>1, <1>5, CountingKey DEF Pexpire, At, Stores
  <2> QED BY <1>1, <1>5, <2>1, Times, CountInStore DEF Pexpire, CountersOK
<1>6. ASSUME NEW k \in Calls, LimiterThrows(k)
      PROVE  CountersOK'
  <2> DEFINE p == call[k].proc
             key == Key(k)
  <2>1. key \in RateKeys /\ Redis \in Stores /\ p \in Processes /\ p \in Stores
    BY <1>1, <1>6, CountingKey DEF LimiterThrows, Stores
  <2>2. \A s \in Stores : Counted(s, key) \in 0..(Limit + 1)
    BY <1>1, <2>1, CountedType
  <2>3. limiter' \in [Processes -> Stores]
    BY <1>1, <1>6, <2>1 DEF LimiterThrows, CountersOK
  <2>4. PICK done \in BOOLEAN :
          /\ count' = [count EXCEPT ![p][key] = Counted(p, key),
                                    ![Redis][key] = IF done /\ At(k, "incr")
                                                      THEN Counted(Redis, key) ELSE @]
          /\ left' = [left EXCEPT ![p][key] = IF count[p][key] = 0 THEN Window + 1 ELSE @,
                                  ![Redis][key] = IF done /\ At(k, "expire")
                                                    THEN Window + 1 ELSE @]
    BY <1>6 DEF LimiterThrows
  <2>5. count' \in [Stores -> [RateKeys -> 0..(Limit + 1)]]
    <3> DEFINE T == [Stores -> [RateKeys -> 0..(Limit + 1)]]
               a == Counted(p, key)
               mid == [count EXCEPT ![p][key] = a]
               b == IF done /\ At(k, "incr") THEN Counted(Redis, key) ELSE count[Redis][key]
    <3>1. count' = [mid EXCEPT ![Redis][key] = b]
      BY <2>4
    <3>2. a \in 0..(Limit + 1)
      BY <2>1, <2>2
    <3> HIDE DEF a
    <3>3. mid \in T
      BY <1>1, <2>1, <3>2 DEF CountersOK
    <3> HIDE DEF mid
    <3>4. b \in 0..(Limit + 1)
      BY <1>1, <2>1, <2>2 DEF CountersOK
    <3> HIDE DEF b
    <3> QED BY <2>1, <3>1, <3>3, <3>4
  <2>6. left' \in [Stores -> [RateKeys -> 0..(Window + 1)]]
    <3> DEFINE T == [Stores -> [RateKeys -> 0..(Window + 1)]]
               a == IF count[p][key] = 0 THEN Window + 1 ELSE left[p][key]
               mid == [left EXCEPT ![p][key] = a]
               b == IF done /\ At(k, "expire") THEN Window + 1 ELSE left[Redis][key]
    <3>1. left' = [mid EXCEPT ![Redis][key] = b]
      BY <2>4
    <3>2. a \in 0..(Window + 1)
      BY <1>1, <2>1, Times DEF CountersOK
    <3> HIDE DEF a
    <3>3. mid \in T
      BY <1>1, <2>1, <3>2 DEF CountersOK
    <3> HIDE DEF mid
    <3>4. b \in 0..(Window + 1)
      BY <1>1, <2>1, Times DEF CountersOK
    <3> HIDE DEF b
    <3> QED BY <2>1, <3>1, <3>3, <3>4
  <2> QED BY <2>3, <2>5, <2>6 DEF CountersOK
<1>7. CASE Tick
  <2>1. \A s \in Stores, key \in RateKeys :
          /\ (IF left[s][key] = 1 THEN 0 ELSE count[s][key]) \in 0..(Limit + 1)
          /\ Sooner(left[s][key]) \in 0..(Window + 1)
    <3> TAKE s \in Stores, key \in RateKeys
    <3>1. count[s][key] \in 0..(Limit + 1) /\ left[s][key] \in 0..(Window + 1)
      BY <1>1 DEF CountersOK
    <3> QED BY <3>1, AdmissionAssumption DEF Sooner, AdmissionAssumption
  <2> QED BY <1>1, <1>7, <2>1 DEF Tick, CountersOK
<1>8. ASSUME NEW p \in Processes, Restart(p)
      PROVE  CountersOK'
  <2>1. p \in Stores /\ Redis \in Stores
    BY DEF Stores
  <2>2. /\ [key \in RateKeys |-> 0] \in [RateKeys -> 0..(Limit + 1)]
        /\ [key \in RateKeys |-> 0] \in [RateKeys -> 0..(Window + 1)]
    BY Times
  <2> QED BY <1>1, <1>8, <2>1, <2>2 DEF Restart, CountersOK
<1>9. ASSUME NEW k \in Calls,
             \/ Limited(k) \/ Authenticate(k) \/ Refuse(k) \/ SetReturns(k)
             \/ GuardThrows(k) \/ Handle(k) \/ Validate(k) \/ Enqueue(k) \/ Accept(k)
             \/ HandlerThrows(k) \/ \E p \in Processes, r \in Requests : Arrive(k, p, r)
      PROVE  CountersOK'
  BY <1>2, <1>9 DEF Limited, Authenticate, Refuse, SetReturns, GuardThrows, Handle,
                    Validate, Enqueue, Accept, HandlerThrows, Arrive
<1>10. CASE UNCHANGED admissionVars
  BY <1>2, <1>10 DEF admissionVars
<1> QED BY <1>3, <1>4, <1>5, <1>6, <1>7, <1>8, <1>9, <1>10 DEF AdmissionNext, Step

-----------------------------------------------------------------------------
(***************************************************************************)
(* What a step that is not the clock's or a restart does with the claims:  *)
(* it makes new ones, of full length, where there is none, and has made    *)
(* one wherever it lets a request through.                                 *)
(***************************************************************************)
ClaimsOK ==
  /\ claim \in [Stores -> [Requests -> 0..Expired]]
  /\ guard \in [Processes -> Stores]
  /\ age \in [Requests -> 0..Expired]
  /\ granted \subseteq Stores \X Requests

Claims ==
  /\ claim' \in [Stores -> [Requests -> 0..Expired]]
  /\ guard' \in [Processes -> Stores]
  /\ age' = age
  /\ \A s \in Stores, r \in Requests :
       \/ claim'[s][r] = claim[s][r]
       \/ claim[s][r] = 0 /\ claim'[s][r] = Expired
  /\ \A g \in granted' :
       \/ g \in granted
       \/ g \in Stores \X Requests /\ claim'[g[1]][g[2]] = Expired

LEMMA NoClaims ==
  ASSUME ClaimsOK, UNCHANGED <<claim, guard, age, granted>>
  PROVE  Claims
BY DEF ClaimsOK, Claims

\* A store answers.
LEMMA ClaimClaims ==
  ASSUME ClaimsOK, NEW k \in Calls, call[k].req \in Requests, NEW s \in Stores,
         Claim(k, s), UNCHANGED <<guard, age>>
  PROVE  Claims
<1> DEFINE r == call[k].req
<1>1. CASE UNCHANGED <<claim, granted>>
  BY <1>1, NoClaims
<1>2. CASE claim[s][r] = 0 /\ claim' = [claim EXCEPT ![s][r] = Expired]
           /\ granted' = granted \cup {<<s, r>>}
  <2>1. claim' \in [Stores -> [Requests -> 0..Expired]]
    BY <1>2, Times DEF ClaimsOK
  <2>2. claim'[s][r] = Expired
    BY <1>2 DEF ClaimsOK
  <2>3. \A t \in Stores, q \in Requests :
          claim'[t][q] = IF t = s /\ q = r THEN Expired ELSE claim[t][q]
    BY <1>2 DEF ClaimsOK
  <2> QED BY <1>2, <2>1, <2>2, <2>3 DEF Claims, ClaimsOK
<1>3. claim[s][r] \in 0..Expired
  BY DEF ClaimsOK
<1> QED BY <1>1, <1>2, <1>3, Times DEF Claim

LEMMA CallClaims ==
  ASSUME AdmissionTypeOK, NEW k \in Calls, Step(k)
  PROVE  Claims
<1>1. ClaimsOK
  BY DEF AdmissionTypeOK, ClaimsOK
<1>2. CASE Authenticate(k)
  <2>1. call[k] \in InProgress /\ call[k].proc \in Stores
    BY <1>2, CallType DEF Authenticate, At, InProgress, Stores
  <2>2. CASE UNCHANGED <<claim, granted>>
    BY <1>1, <1>2, <2>2, NoClaims DEF Authenticate
  <2>3. CASE Claim(k, call[k].proc)
    BY <1>1, <1>2, <2>1, <2>3, ClaimClaims DEF Authenticate, InProgress
  <2> QED BY <1>2, <2>2, <2>3 DEF Authenticate
<1>3. CASE SetReturns(k)
  <2>1. call[k] \in InProgress /\ Redis \in Stores
    BY <1>3, CallType DEF SetReturns, At, Stores
  <2> QED BY <1>1, <1>3, <2>1, ClaimClaims DEF SetReturns, InProgress
<1>4. CASE GuardThrows(k)
  <2> DEFINE p == call[k].proc
             r == call[k].req
  <2>1. call[k] \in InProgress
    BY <1>4, CallType DEF GuardThrows, At
  <2>2. p \in Processes /\ r \in Requests /\ p \in Stores /\ Redis \in Stores /\ p # Redis
    BY <2>1, AdmissionAssumption DEF InProgress, Stores, AdmissionAssumption
  <2>3. guard' \in [Processes -> Stores] /\ age' = age
    BY <1>1, <1>4, <2>2 DEF GuardThrows, ClaimsOK
  <2>4. PICK done \in BOOLEAN :
          LET seen == IF done /\ claim[Redis][r] = 0
                        THEN [claim EXCEPT ![Redis][r] = Expired] ELSE claim IN
          IF claim[p][r] > 0
            THEN claim' = seen /\ granted' = granted
            ELSE /\ claim' = [seen EXCEPT ![p][r] = Expired]
                 /\ granted' = granted \cup {<<p, r>>}
    BY <1>4, Times DEF GuardThrows
  <2> DEFINE seen == IF done /\ claim[Redis][r] = 0
                       THEN [claim EXCEPT ![Redis][r] = Expired] ELSE claim
  <2>5. seen \in [Stores -> [Requests -> 0..Expired]]
    BY <1>1, <2>2, Times DEF ClaimsOK
  <2>6. \A t \in Stores, q \in Requests :
          seen[t][q] = claim[t][q] \/ (claim[t][q] = 0 /\ seen[t][q] = Expired)
    <3> TAKE t \in Stores, q \in Requests
    <3>1. CASE done /\ claim[Redis][r] = 0
      <4>1. seen = [claim EXCEPT ![Redis][r] = Expired]
        BY <3>1
      <4> HIDE DEF seen
      <4>2. seen[t][q] = IF t = Redis /\ q = r THEN Expired ELSE claim[t][q]
        BY <1>1, <2>2, <4>1 DEF ClaimsOK
      <4> QED BY <3>1, <4>2
    <3>2. CASE ~(done /\ claim[Redis][r] = 0)
      <4>1. seen = claim
        BY <3>2
      <4> QED BY <4>1
    <3> QED BY <3>1, <3>2
  <2>7. seen[p][r] = claim[p][r] /\ claim[p][r] \in 0..Expired
    BY <1>1, <2>2 DEF ClaimsOK
  <2> HIDE DEF seen
  <2>8. CASE claim[p][r] > 0
    <3>1. claim' = seen /\ granted' = granted
      BY <2>4, <2>8 DEF seen
    <3> QED BY <2>3, <2>5, <2>6, <3>1 DEF Claims
  <2>9. CASE claim[p][r] = 0
    <3>1. claim' = [seen EXCEPT ![p][r] = Expired] /\ granted' = granted \cup {<<p, r>>}
      BY <2>4, <2>9 DEF seen
    <3>2. claim' \in [Stores -> [Requests -> 0..Expired]] /\ claim'[p][r] = Expired
      <4>1. Expired \in 0..Expired
        BY Times
      <4>2. claim' \in [Stores -> [Requests -> 0..Expired]]
        BY <2>2, <2>5, <3>1, <4>1
      <4>3. claim'[p][r] = Expired
        BY <2>2, <2>5, <3>1
      <4> QED BY <4>2, <4>3
    <3>3. \A t \in Stores, q \in Requests :
            claim'[t][q] = IF t = p /\ q = r THEN Expired ELSE seen[t][q]
      BY <2>2, <2>5, <3>1
    <3>4. \A t \in Stores, q \in Requests :
            claim'[t][q] = claim[t][q] \/ (claim[t][q] = 0 /\ claim'[t][q] = Expired)
      BY <2>6, <2>9, <3>3
    <3>5. \A g \in granted' :
            g \in granted \/ (g \in Stores \X Requests /\ claim'[g[1]][g[2]] = Expired)
      <4>1. \A g \in granted' : g \in granted \/ g = <<p, r>>
        BY <3>1
      <4>2. <<p, r>> \in Stores \X Requests /\ <<p, r>>[1] = p /\ <<p, r>>[2] = r
        BY <2>2
      <4> QED BY <3>2, <4>1, <4>2
    <3> QED BY <2>3, <3>2, <3>4, <3>5 DEF Claims
  <2> QED BY <2>7, <2>8, <2>9, Times
<1>5. CASE \/ LimitKey(k) \/ Limited(k) \/ Incr(k) \/ Pexpire(k) \/ LimiterThrows(k)
           \/ Refuse(k) \/ Handle(k) \/ Validate(k) \/ Enqueue(k) \/ Accept(k)
           \/ HandlerThrows(k)
  BY <1>1, <1>5, NoClaims DEF LimitKey, Limited, Incr, Pexpire, LimiterThrows, Refuse,
         Handle, Validate, Enqueue, Accept, HandlerThrows
<1> QED BY <1>2, <1>3, <1>4, <1>5 DEF Step

\* A claim is only ever made where there is none.
LEMMA RaisedFromNothing ==
  ASSUME IInv, [AdmissionNext]_admissionVars, NEW s \in Stores, NEW r \in Requests,
         claim'[s][r] > claim[s][r]
  PROVE  claim[s][r] = 0
<1>1. claim[s][r] \in 0..Expired /\ claim \in [Stores -> [Requests -> 0..Expired]]
  BY DEF IInv, AdmissionTypeOK
<1>2. ASSUME NEW k \in Calls, Step(k)
      PROVE  claim[s][r] = 0
  BY <1>1, <1>2, CallClaims, Times DEF IInv, Claims
<1>3. CASE Tick
  BY <1>1, <1>3, Times DEF Tick, Sooner
<1>4. CASE claim' = claim
  BY <1>1, <1>4, Times
<1>5. ASSUME NEW p \in Processes, Restart(p)
      PROVE  claim[s][r] = 0
  <2>1. claim'[s][r] \in {0, claim[s][r]}
    BY <1>1, <1>5 DEF Restart
  <2> QED BY <1>1, <2>1, Times
<1>6. CASE \E k \in Calls, p \in Processes, q \in Requests : Arrive(k, p, q)
  BY <1>4, <1>6 DEF Arrive
<1> QED BY <1>2, <1>3, <1>4, <1>5, <1>6 DEF AdmissionNext, admissionVars

LEMMA ClaimsInv ==
  ASSUME IInv, [AdmissionNext]_admissionVars
  PROVE  ClaimsOK' /\ Remembers'
<1>1. ClaimsOK /\ Remembers /\ AdmissionTypeOK
  BY DEF IInv, ClaimsOK, AdmissionTypeOK
<1>2. ASSUME Claims
      PROVE  ClaimsOK' /\ Remembers'
  <2>1. ClaimsOK'
    BY <1>1, <1>2 DEF Claims, ClaimsOK
  <2>2. ASSUME NEW g \in granted'
        PROVE  claim'[g[1]][g[2]] + age'[g[2]] >= Expired
    <3>1. g[1] \in Stores /\ g[2] \in Requests
      BY <2>1 DEF ClaimsOK
    <3>2. age'[g[2]] = age[g[2]] /\ age[g[2]] \in 0..Expired
      BY <1>1, <1>2, <3>1 DEF Claims, ClaimsOK
    <3>3. CASE claim'[g[1]][g[2]] = Expired
      BY <3>2, <3>3, Times
    <3>4. CASE g \in granted /\ claim'[g[1]][g[2]] # Expired
      <4>1. claim'[g[1]][g[2]] = claim[g[1]][g[2]]
        BY <1>2, <3>1, <3>4 DEF Claims
      <4> QED BY <1>1, <3>2, <3>4, <4>1 DEF Remembers
    <3> QED BY <1>2, <3>3, <3>4 DEF Claims
  <2> QED BY <2>1, <2>2 DEF Remembers
<1>3. ASSUME NEW k \in Calls, Step(k)
      PROVE  ClaimsOK' /\ Remembers'
  BY <1>1, <1>2, <1>3, CallClaims
<1>4. CASE UNCHANGED <<claim, guard, age, granted>>
  BY <1>1, <1>2, <1>4, NoClaims
<1>5. CASE Tick
  <2>1. \A s \in Stores, r \in Requests :
          /\ claim'[s][r] = Sooner(claim[s][r])
          /\ claim[s][r] \in 0..Expired
    BY <1>1, <1>5 DEF Tick, ClaimsOK
  <2>2. \A r \in Requests :
          /\ age'[r] = IF age[r] < Expired THEN age[r] + 1 ELSE Expired
          /\ age[r] \in 0..Expired
    BY <1>1, <1>5 DEF Tick, ClaimsOK
  <2>3. \A n \in 0..Expired : Sooner(n) \in 0..Expired
    BY Times DEF Sooner
  <2>4. \A n \in 0..Expired : (IF n < Expired THEN n + 1 ELSE Expired) \in 0..Expired
    BY Times
  <2>5. claim' \in [Stores -> [Requests -> 0..Expired]]
    BY <1>5, <2>1, <2>3 DEF Tick
  <2>6. age' \in [Requests -> 0..Expired]
    BY <1>5, <2>2, <2>4 DEF Tick
  <2>7. guard' = guard /\ granted' = granted
    BY <1>5 DEF Tick
  <2>8. ASSUME NEW g \in granted
        PROVE  claim'[g[1]][g[2]] + age'[g[2]] >= Expired
    <3>1. g[1] \in Stores /\ g[2] \in Requests
      BY <1>1 DEF ClaimsOK
    <3>2. claim[g[1]][g[2]] + age[g[2]] >= Expired
      BY <1>1 DEF Remembers
    <3> QED BY <2>1, <2>2, <3>1, <3>2, Times DEF Sooner
  <2> QED BY <1>1, <2>5, <2>6, <2>7, <2>8 DEF ClaimsOK, Remembers
<1>6. ASSUME NEW p \in Processes, Restart(p)
      PROVE  ClaimsOK' /\ Remembers'
  <2>1. p \in Stores /\ Redis \in Stores
    BY DEF Stores
  <2>2. [r \in Requests |-> 0] \in [Requests -> 0..Expired]
    BY Times
  <2>3. ClaimsOK'
    BY <1>1, <1>6, <2>1, <2>2 DEF Restart, ClaimsOK
  <2>4. \A s \in Stores : s # p => claim'[s] = claim[s]
    BY <1>1, <1>6 DEF Restart, ClaimsOK
  <2>5. age' = age /\ \A g \in granted' : g \in granted /\ g[1] # p /\ g[1] \in Stores
    BY <1>1, <1>6 DEF Restart, ClaimsOK
  <2> QED BY <1>1, <2>3, <2>4, <2>5 DEF Remembers
<1>7. CASE \E k \in Calls, p \in Processes, q \in Requests : Arrive(k, p, q)
  BY <1>4, <1>7 DEF Arrive
<1>8. CASE UNCHANGED admissionVars
  BY <1>4, <1>8 DEF admissionVars
<1> QED BY <1>3, <1>5, <1>6, <1>7, <1>8 DEF AdmissionNext

-----------------------------------------------------------------------------
(***************************************************************************)
(* The theorems                                                            *)
(***************************************************************************)
LEMMA InitInv == AdmissionInit => IInv
<1> SUFFICES ASSUME AdmissionInit PROVE IInv
  OBVIOUS
<1>1. AdmissionTypeOK
  <2>1. \A r \in Requests : age[r] \in 0..Expired
    BY AdmissionAssumption DEF AdmissionInit, Expired, AdmissionAssumption
  <2>2. age \in [Requests -> 0..Expired]
    BY <2>1 DEF AdmissionInit
  <2>3. Redis \in Stores
    BY DEF Stores
  <2>4. /\ count \in [Stores -> [RateKeys -> 0..(Limit + 1)]]
        /\ left \in [Stores -> [RateKeys -> 0..(Window + 1)]]
        /\ claim \in [Stores -> [Requests -> 0..Expired]]
    BY Times DEF AdmissionInit
  <2>5. /\ limiter \in [Processes -> Stores] /\ guard \in [Processes -> Stores]
        /\ call \in [Calls -> {Idle} \cup InProgress]
        /\ queue \subseteq Messages /\ accepted \subseteq Requests
        /\ granted \subseteq Stores \X Requests /\ handled \subseteq Requests
    BY <2>3 DEF AdmissionInit
  <2> QED BY <2>2, <2>4, <2>5 DEF AdmissionTypeOK, InProgress
<1>2. Places /\ BatchSoFar
  BY DEF AdmissionInit, Places, BatchSoFar, PlaceOK, SoFar, Idle
<1>3. AcceptedIsEnqueued /\ Remembers
  BY DEF AdmissionInit, AcceptedIsEnqueued, Remembers
<1> QED BY <1>1, <1>2, <1>3 DEF IInv

\* What is answered 202 has been in a loop that reached its end.
LEMMA AcceptedInv ==
  ASSUME IInv, [AdmissionNext]_admissionVars
  PROVE  AcceptedIsEnqueued' /\ accepted' \subseteq Requests
<1>1. AdmissionTypeOK /\ AcceptedIsEnqueued /\ accepted \subseteq Requests
  BY DEF IInv, AdmissionTypeOK
<1>2. queue \subseteq queue'
  BY CallsInv
<1>3. CASE accepted' = accepted
  BY <1>1, <1>2, <1>3 DEF AcceptedIsEnqueued
<1>4. ASSUME NEW k \in Calls, Accept(k)
      PROVE  AcceptedIsEnqueued' /\ accepted' \subseteq Requests
  <2>1. call[k].pc = "profile" /\ call[k] \in InProgress /\ call[k].req \in Requests
    BY <1>1, <1>4, CallType DEF Accept, At, InProgress
  <2>2. \A i \in 1..Len(Batch[call[k].req]) : i < call[k].next
    <3>1. Len(Batch[call[k].req]) \in Nat
      BY <2>1, AdmissionAssumption DEF AdmissionAssumption
    <3> QED BY <1>4, <2>1, <3>1 DEF Accept, Done, InProgress
  <2>3. \A i \in 1..Len(Batch[call[k].req]) :
          Batch[call[k].req][i] \in queue /\ Batch[call[k].req][i] \notin Invalid
    BY <2>1, <2>2 DEF IInv, BatchSoFar, SoFar
  <2>4. accepted' = accepted \cup {call[k].req}
    BY <1>4 DEF Accept
  <2> QED BY <1>1, <1>2, <2>1, <2>3, <2>4 DEF AcceptedIsEnqueued
<1>5. CASE ~\E k \in Calls : Accept(k)
  <2>1. accepted' = accepted
    BY <1>5 DEF AdmissionNext, Step, admissionVars, Tick, Restart, Arrive, LimitKey, Limited, Incr,
           Pexpire, LimiterThrows, Authenticate, Refuse, SetReturns, GuardThrows,
           Handle, Validate, Enqueue, HandlerThrows
  <2> QED BY <1>3, <2>1
<1> QED BY <1>4, <1>5

\* Only messages of batches are enqueued.
LEMMA QueueInv ==
  ASSUME IInv, [AdmissionNext]_admissionVars
  PROVE  queue' \subseteq Messages
<1>1. AdmissionTypeOK /\ queue \subseteq Messages /\ Places
  BY DEF IInv, AdmissionTypeOK
<1>2. ASSUME NEW k \in Calls, At(k, "enqueue")
      PROVE  Message(k) \in Messages
  <2>1. call[k] \in InProgress /\ PlaceOK(call[k]) /\ call[k] # Idle
    BY <1>1, <1>2, CallType DEF At, Places, Idle
  <2>2. Batch[call[k].req] \in Seq(Messages)
    BY <2>1, AdmissionAssumption DEF AdmissionAssumption, InProgress
  <2>3. call[k].next \in 1..Len(Batch[call[k].req])
    BY <1>2, <2>1, <2>2 DEF PlaceOK, At, InProgress
  <2> QED BY <2>2, <2>3 DEF Message
<1>3. ASSUME NEW k \in Calls, Enqueue(k) \/ HandlerThrows(k)
      PROVE  queue' \subseteq Messages
  <2>1. queue' = queue \/ (At(k, "enqueue") /\ queue' = queue \cup {Message(k)})
    BY <1>3 DEF Enqueue, HandlerThrows
  <2> QED BY <1>1, <1>2, <2>1
<1>4. CASE ~\E k \in Calls : Enqueue(k) \/ HandlerThrows(k)
  <2>1. queue' = queue
    BY <1>4 DEF AdmissionNext, Step, admissionVars, Tick, Restart, Arrive, LimitKey, Limited, Incr,
           Pexpire, LimiterThrows, Authenticate, Refuse, SetReturns, GuardThrows,
           Handle, Validate, Accept
  <2> QED BY <1>1, <2>1
<1> QED BY <1>3, <1>4

\* Whoever is let through is remembered as such.
LEMMA HandledInv ==
  ASSUME IInv, [AdmissionNext]_admissionVars
  PROVE  handled' \subseteq Requests
<1>1. AdmissionTypeOK /\ handled \subseteq Requests
  BY DEF IInv, AdmissionTypeOK
<1>2. ASSUME NEW k \in Calls, Authenticate(k) \/ SetReturns(k) \/ GuardThrows(k)
      PROVE  handled' \subseteq Requests
  <2>1. call[k].req \in Requests
    BY <1>1, <1>2, CallType DEF Authenticate, SetReturns, GuardThrows, At, InProgress
  <2>2. handled' \in {handled, handled \cup {call[k].req}}
    BY <1>2 DEF Authenticate, SetReturns, GuardThrows, Claim
  <2> QED BY <1>1, <2>1, <2>2
<1>3. CASE ~\E k \in Calls : Authenticate(k) \/ SetReturns(k) \/ GuardThrows(k)
  <2>1. handled' = handled
    BY <1>3 DEF AdmissionNext, Step, admissionVars, Tick, Restart, Arrive, LimitKey, Limited, Incr,
           Pexpire, LimiterThrows, Refuse, Handle, Validate, Enqueue, Accept, HandlerThrows
  <2> QED BY <1>1, <2>1
<1> QED BY <1>2, <1>3

LEMMA StepInv == IInv /\ [AdmissionNext]_admissionVars => IInv'
<1> SUFFICES ASSUME IInv, [AdmissionNext]_admissionVars PROVE IInv'
  OBVIOUS
<1>1. CallsOK' /\ CountersOK' /\ ClaimsOK' /\ Remembers'
  BY CallsInv, CountersInv, ClaimsInv
<1>2. AcceptedIsEnqueued' /\ accepted' \subseteq Requests /\ queue' \subseteq Messages
  BY AcceptedInv, QueueInv
<1>3. AdmissionTypeOK'
  BY <1>1, <1>2, HandledInv DEF AdmissionTypeOK, CallsOK, CountersOK, ClaimsOK, InProgress
<1> QED BY <1>1, <1>2, <1>3 DEF IInv, CallsOK

LEMMA Invariance == AdmissionSpec => []IInv
BY InitInv, StepInv, PTL DEF AdmissionSpec

\* Every variable keeps its type.
THEOREM TypeCorrect == AdmissionSpec => []AdmissionTypeOK
<1>1. IInv => AdmissionTypeOK
  BY DEF IInv
<1> QED BY <1>1, Invariance, PTL

\* A claim is kept until the signature of its request is out of date, for
\* any skew.
THEOREM ClaimsLastLongEnough == AdmissionSpec => []ClaimOutlivesSignature
<1>1. IInv => ClaimOutlivesSignature
  <2> SUFFICES ASSUME IInv, NEW s \in Stores, NEW r \in Requests,
                      <<s, r>> \in granted, age[r] < Expired
               PROVE  claim[s][r] > 0
    BY DEF ClaimOutlivesSignature
  <2>1. claim[s][r] \in 0..Expired /\ age[r] \in 0..Expired
    BY DEF IInv, AdmissionTypeOK
  <2>2. claim[s][r] + age[r] >= Expired
    BY DEF IInv, Remembers
  <2> QED BY <2>1, <2>2, Times
<1> QED BY <1>1, Invariance, PTL

\* 202 means that every message of the batch is in the queue, and valid.
THEOREM AcceptedBatches == AdmissionSpec => []AcceptedIsEnqueued
<1>1. IInv => AcceptedIsEnqueued
  BY DEF IInv
<1> QED BY <1>1, Invariance, PTL

\* No store lets a request through twice while its signature is in date.
THEOREM OncePerStore == AdmissionSpec => SingleUsePerStore
<1> DEFINE Once == \A k \in Calls, s \in Stores :
       /\ LetThrough(k)
       /\ <<s, call[k].req>> \in granted
       /\ claim'[s][call[k].req] > claim[s][call[k].req]
       => age[call[k].req] = Expired
<1>1. IInv /\ [AdmissionNext]_admissionVars => [Once]_admissionVars
  <2> SUFFICES ASSUME IInv, [AdmissionNext]_admissionVars, NEW k \in Calls, NEW s \in Stores,
                      <<s, call[k].req>> \in granted,
                      claim'[s][call[k].req] > claim[s][call[k].req]
               PROVE  age[call[k].req] = Expired
    OBVIOUS
  <2> DEFINE r == call[k].req
  <2>1. r \in Requests
    BY DEF IInv, AdmissionTypeOK
  <2>2. claim[s][r] = 0
    BY <2>1, RaisedFromNothing
  <2>3. claim[s][r] + age[r] >= Expired
    BY DEF IInv, Remembers
  <2>4. age[r] \in 0..Expired
    BY <2>1 DEF IInv, AdmissionTypeOK
  <2> QED BY <2>2, <2>3, <2>4, Times
<1>2. [][Once]_admissionVars <=> SingleUsePerStore
  BY PTL DEF SingleUsePerStore
<1> QED BY <1>1, <1>2, Invariance, PTL DEF AdmissionSpec

-----------------------------------------------------------------------------
(***************************************************************************)
(* As long as no client throws                                             *)
(***************************************************************************)
\* Every process claims in Redis.
InRedis == \A p \in Processes : guard[p] = Redis

\* What was let through is known to Redis, which no restart empties.
RedisKnows == \A r \in handled : <<Redis, r>> \in granted

OnceInAll == \A k \in Calls :
  LetThrough(k) /\ call[k].req \in handled => age[call[k].req] = Expired

LEMMA RedisStep ==
  ASSUME IInv, InRedis, InRedis', RedisKnows, [AdmissionNext]_admissionVars
  PROVE  RedisKnows' /\ OnceInAll
<1>1. AdmissionTypeOK /\ Redis \notin Processes
  BY AdmissionAssumption DEF IInv, AdmissionAssumption
<1>2. CASE /\ handled' = handled /\ granted \subseteq granted'
           /\ \A k \in Calls : ~LetThrough(k)
  BY <1>2 DEF RedisKnows, OnceInAll
<1>3. ASSUME NEW k \in Calls, SetReturns(k)
      PROVE  RedisKnows' /\ OnceInAll
  <2> DEFINE r == call[k].req
  <2>1. r \in Requests /\ Redis \in Stores
    BY <1>1, <1>3, CallType DEF SetReturns, At, InProgress, Stores
  <2>2. RedisKnows'
    BY <1>3 DEF SetReturns, Claim, RedisKnows
  <2>3. ASSUME NEW j \in Calls, LetThrough(j), call[j].req \in handled
        PROVE  age[call[j].req] = Expired
    <3>1. call \in [Calls -> {Idle} \cup InProgress]
      BY <1>1 DEF AdmissionTypeOK, InProgress
    <3>2. j = k
      BY <1>3, <2>3, <3>1 DEF SetReturns, Claim, GoTo, Answer, LetThrough
    <3>3. claim[Redis][r] + age[r] >= Expired
      <4>1. <<Redis, r>> \in granted
        BY <2>3, <3>2 DEF RedisKnows
      <4> QED BY <4>1 DEF IInv, Remembers
    <3>4. ~(claim[Redis][r] > 0)
      <4>1. SUFFICES ASSUME claim[Redis][r] > 0 PROVE FALSE
        OBVIOUS
      <4>2. call' = [call EXCEPT ![k] = Idle]
        BY <1>3, <4>1 DEF SetReturns, Claim, Answer
      <4> QED BY <2>3, <3>1, <3>2, <4>2 DEF LetThrough, Idle
    <3>5. age[r] \in 0..Expired /\ claim[Redis][r] \in 0..Expired
      BY <1>1, <2>1 DEF AdmissionTypeOK
    <3> QED BY <3>2, <3>3, <3>4, <3>5, Times
  <2> QED BY <2>2, <2>3 DEF OnceInAll
<1>4. ASSUME NEW k \in Calls, Authenticate(k)
      PROVE  RedisKnows' /\ OnceInAll
  <2>1. call[k] \in InProgress
    BY <1>1, <1>4, CallType DEF Authenticate, At
  <2>2. guard[call[k].proc] = Redis
    BY <2>1 DEF InRedis, InProgress
  <2>3. GoTo(k, "claim") /\ UNCHANGED <<granted, handled>>
    BY <1>4, <2>2 DEF Authenticate
  <2>4. \A j \in Calls : ~LetThrough(j)
    BY <1>1, <2>3 DEF GoTo, LetThrough, AdmissionTypeOK
  <2> QED BY <1>2, <2>3, <2>4
<1>5. ASSUME NEW k \in Calls, GuardThrows(k)
      PROVE  FALSE
  <2>1. call[k] \in InProgress
    BY <1>1, <1>5, CallType DEF GuardThrows, At
  <2>2. call[k].proc \in Processes /\ guard' = [guard EXCEPT ![call[k].proc] = call[k].proc]
    BY <1>5, <2>1 DEF GuardThrows, InProgress
  <2>3. guard'[call[k].proc] = call[k].proc
    BY <1>1, <2>2 DEF AdmissionTypeOK
  <2> QED BY <1>1, <2>2, <2>3 DEF InRedis
<1>6. ASSUME NEW p \in Processes, Restart(p)
      PROVE  RedisKnows' /\ OnceInAll
  <2>1. RedisKnows'
    BY <1>1, <1>6 DEF Restart, RedisKnows
  <2>2. \A j \in Calls : ~LetThrough(j)
    BY <1>6 DEF Restart, LetThrough, Idle
  <2> QED BY <2>1, <2>2 DEF OnceInAll
<1>7. ASSUME NEW k \in Calls,
             \/ LimitKey(k) \/ Limited(k) \/ Incr(k) \/ Pexpire(k) \/ LimiterThrows(k)
      PROVE  RedisKnows' /\ OnceInAll
  <2>1. handled' = handled /\ granted' = granted
    BY <1>7 DEF LimitKey, Limited, Incr, Pexpire, LimiterThrows
  <2>2. \E stage \in {"limit", "incr", "expire", "authenticate"} :
          GoTo(k, stage) \/ Advance(k, stage) \/ Answer(k)
    BY <1>7 DEF LimitKey, Limited, Incr, Pexpire, LimiterThrows, CountInMemory, Decide
  <2>3. call[k] \in InProgress /\ call \in [Calls -> {Idle} \cup InProgress]
    BY <1>1, <1>7, CallType DEF LimitKey, Limited, Incr, Pexpire, LimiterThrows, At,
           AdmissionTypeOK, InProgress
  <2>4. call'[k].pc # "handle" /\ \A j \in Calls \ {k} : call'[j] = call[j]
    BY <2>2, <2>3 DEF GoTo, Advance, Answer, Idle, InProgress
  <2> QED BY <1>2, <2>1, <2>4 DEF LetThrough
<1>8. ASSUME NEW k \in Calls,
             \/ Refuse(k) \/ Handle(k) \/ Validate(k) \/ Enqueue(k) \/ Accept(k)
             \/ HandlerThrows(k)
      PROVE  RedisKnows' /\ OnceInAll
  <2>1. handled' = handled /\ granted' = granted
    BY <1>8 DEF Refuse, Handle, Validate, Enqueue, Accept, HandlerThrows
  <2>2. \/ GoTo(k, "enqueue") \/ Advance(k, "profile") \/ Answer(k)
        \/ call' = [call EXCEPT ![k].pc = "profile", ![k].next = 1]
    BY <1>8 DEF Refuse, Handle, Validate, Enqueue, Accept, HandlerThrows
  <2>3. call[k] \in InProgress /\ call \in [Calls -> {Idle} \cup InProgress]
    BY <1>1, <1>8, CallType DEF Refuse, Handle, Validate, Enqueue, Accept, HandlerThrows, At,
           AdmissionTypeOK, InProgress
  <2>4. call'[k].pc # "handle" /\ \A j \in Calls \ {k} : call'[j] = call[j]
    BY <2>2, <2>3 DEF GoTo, Advance, Answer, Idle, InProgress
  <2> QED BY <1>2, <2>1, <2>4 DEF LetThrough
<1>9. CASE Tick \/ UNCHANGED admissionVars
  <2>1. UNCHANGED <<call, granted, handled>>
    BY <1>9 DEF Tick, admissionVars
  <2> QED BY <1>2, <2>1 DEF LetThrough
<1>10. CASE \E k \in Calls, p \in Processes, q \in Requests : Arrive(k, p, q)
  <2>1. PICK k \in Calls, p \in Processes, q \in Requests : Arrive(k, p, q)
    BY <1>10
  <2>2. UNCHANGED <<granted, handled>> /\ \A j \in Calls : ~LetThrough(j)
    BY <1>1, <2>1 DEF Arrive, LetThrough, AdmissionTypeOK
  <2> QED BY <1>2, <2>2
<1> QED BY <1>3, <1>4, <1>5, <1>6, <1>7, <1>8, <1>9, <1>10 DEF AdmissionNext, Step

(***************************************************************************)
(* While no Redis client of the replay guard has thrown, a request is let  *)
(* through once by all the processes together: the condition under which   *)
(* the documented claim holds.                                             *)
(***************************************************************************)
THEOREM OnceWhileInRedis == AdmissionSpec /\ []InRedis => SingleUse
<1>1. AdmissionInit => RedisKnows
  BY DEF AdmissionInit, RedisKnows
<1>2. IInv /\ InRedis /\ InRedis' /\ RedisKnows /\ [AdmissionNext]_admissionVars
        => RedisKnows' /\ [OnceInAll]_admissionVars
  BY RedisStep
<1>3. [][OnceInAll]_admissionVars <=> SingleUse
  BY PTL DEF SingleUse, OnceInAll
<1> QED BY <1>1, <1>2, <1>3, Invariance, PTL DEF AdmissionSpec
=============================================================================
