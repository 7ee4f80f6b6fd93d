------------------------- MODULE FairnessGate_proofs -------------------------
(***************************************************************************)
(* Proofs about FairnessGate for any tenants, any finite set of slots and  *)
(* any limit of at least one.                                              *)
(***************************************************************************)
EXTENDS FairnessGate, FiniteSetTheorems, SequenceTheorems, TLAPS

Elems(q) == {q[i] : i \in DOMAIN q}
Distinct(q) == \A i, j \in DOMAIN q : q[i] = q[j] => i = j

(***************************************************************************)
(* A slot has a tenant exactly while it is inside run(): the tie between   *)
(* the two per-slot variables that InState relies on.                      *)
(***************************************************************************)
TenantWhileInRun == \A s \in Slots : tenant[s] = NoTenant <=> pc[s] = "idle"

IInv ==
  /\ TypeOK
  /\ TenantWhileInRun
  /\ QueueHoldsTheParked
  /\ ActiveCountsRunning
  /\ WorkConserving

-----------------------------------------------------------------------------
(***************************************************************************)
(* Lemmas about queues and sets of slots                                   *)
(***************************************************************************)
\* Appending an element that is not there keeps a queue free of duplicates.
LEMMA AppendElems ==
  ASSUME NEW S, NEW q \in Seq(S), NEW e \in S, e \notin Elems(q), Distinct(q)
  PROVE  /\ Append(q, e) \in Seq(S)
         /\ Append(q, e) # << >>
         /\ Elems(Append(q, e)) = Elems(q) \cup {e}
         /\ Distinct(Append(q, e))
<1> DEFINE p == Append(q, e)
<1>1. /\ p \in Seq(S) /\ p # << >>
      /\ Len(p) = Len(q) + 1
      /\ \A i \in 1..Len(q) : p[i] = q[i]
      /\ p[Len(q) + 1] = e
  BY AppendProperties
<1>2. DOMAIN q = 1..Len(q) /\ Len(q) \in Nat /\ DOMAIN p = 1..Len(p)
  BY <1>1, LenProperties
<1>3. DOMAIN p = DOMAIN q \cup {Len(q) + 1}
  BY <1>1, <1>2
<1>4. Elems(p) = Elems(q) \cup {e}
  BY <1>1, <1>2, <1>3 DEF Elems
<1>5. Distinct(p)
  BY <1>1, <1>2, <1>3 DEF Distinct, Elems
<1> QED BY <1>1, <1>4, <1>5

\* Dropping the head of a queue without duplicates removes just that element.
LEMMA TailElems ==
  ASSUME NEW S, NEW q \in Seq(S), q # << >>, Distinct(q)
  PROVE  /\ Head(q) \in Elems(q)
         /\ Tail(q) \in Seq(S)
         /\ Elems(Tail(q)) = Elems(q) \ {Head(q)}
         /\ Distinct(Tail(q))
<1> DEFINE p == Tail(q)
<1>1. /\ p \in Seq(S)
      /\ Len(p) = Len(q) - 1
      /\ \A i \in 1..Len(p) : p[i] = q[i + 1]
  BY HeadTailProperties
<1>2. /\ DOMAIN q = 1..Len(q) /\ Len(q) \in Nat /\ Len(q) > 0
      /\ DOMAIN p = 1..Len(p) /\ Len(p) \in Nat
  BY <1>1, LenProperties, EmptySeq
<1>3. Head(q) = q[1]
  OBVIOUS
<1>4. Head(q) \in Elems(q)
  BY <1>2, <1>3 DEF Elems
<1>5. Elems(p) \subseteq Elems(q) \ {Head(q)}
  <2> SUFFICES ASSUME NEW i \in DOMAIN p PROVE p[i] \in Elems(q) \ {q[1]}
    BY <1>3 DEF Elems
  <2>1. p[i] = q[i + 1] /\ i + 1 \in DOMAIN q /\ 1 \in DOMAIN q /\ i + 1 # 1
    BY <1>1, <1>2
  <2> QED BY <2>1 DEF Elems, Distinct
<1>6. Elems(q) \ {Head(q)} \subseteq Elems(p)
  <2> SUFFICES ASSUME NEW i \in DOMAIN q, q[i] # q[1] PROVE q[i] \in Elems(p)
    BY <1>3 DEF Elems
  <2>1. i - 1 \in DOMAIN p /\ p[i - 1] = q[i]
    BY <1>1, <1>2
  <2> QED BY <2>1 DEF Elems
<1>7. Distinct(p)
  <2> SUFFICES ASSUME NEW i \in DOMAIN p, NEW j \in DOMAIN p, p[i] = p[j]
               PROVE  i = j
    BY DEF Distinct
  <2>1. i + 1 \in DOMAIN q /\ j + 1 \in DOMAIN q /\ q[i + 1] = q[j + 1]
    BY <1>1, <1>2
  <2>2. i + 1 = j + 1
    BY <2>1 DEF Distinct
  <2> QED BY <1>2, <2>2
<1> QED BY <1>1, <1>4, <1>5, <1>6, <1>7

\* The slots of a tenant that are in a given place can be counted.
LEMMA InStateFinite ==
  ASSUME NEW t, NEW where
  PROVE  /\ IsFiniteSet(InState(t, where))
         /\ Cardinality(InState(t, where)) \in Nat
<1>1. InState(t, where) \subseteq Slots
  BY DEF InState
<1> QED BY <1>1, FS_Subset, FS_CardinalityType, GateAssumption DEF GateAssumption

\* The limit is a positive number.
LEMMA LimitType == maximumPerTenant \in Nat /\ maximumPerTenant > 0
BY GateAssumption DEF GateAssumption
-----------------------------------------------------------------------------
LEMMA InitInv == Init => IInv
<1> SUFFICES ASSUME Init PROVE IInv
  OBVIOUS
<1>1. TypeOK /\ TenantWhileInRun
  BY EmptySeq DEF Init, TypeOK, TenantWhileInRun
<1>2. \A t \in Tenants, where \in {"waiting", "resolved", "running"} :
        InState(t, where) = {}
  BY GateAssumption DEF Init, InState, GateAssumption
<1>3. \A t \in Tenants : waiters[t] = << >> /\ active[t] = 0
  BY DEF Init
<1>4. QueueHoldsTheParked
  BY <1>2, <1>3 DEF QueueHoldsTheParked
<1>5. ActiveCountsRunning
  BY <1>2, <1>3, FS_EmptySet DEF ActiveCountsRunning
<1>6. WorkConserving
  BY <1>3 DEF WorkConserving
<1> QED BY <1>1, <1>4, <1>5, <1>6 DEF IInv

\* The invariant at one tenant, the form in which the actions use it.
AtTenant(t) ==
  /\ active[t] \in Nat
  /\ waiters[t] \in Seq(Slots)
  /\ Elems(waiters[t]) = InState(t, "waiting")
  /\ Distinct(waiters[t])
  /\ active[t] = Cardinality(InState(t, "running"))
  /\ waiters[t] # << >> =>
       active[t] + Cardinality(InState(t, "resolved")) >= maximumPerTenant

LEMMA InvAtTenant ==
  IInv <=> /\ TypeOK
           /\ TenantWhileInRun
           /\ \A t \in Tenants : AtTenant(t)
BY DEF IInv, AtTenant, TypeOK, QueueHoldsTheParked, ActiveCountsRunning,
       WorkConserving, Elems, Distinct

\* A step that touches neither a tenant's map entries nor its slots keeps it.
LEMMA TenantUndisturbed ==
  ASSUME NEW t \in Tenants, AtTenant(t),
         active'[t] = active[t], waiters'[t] = waiters[t],
         \A w \in {"waiting", "resolved", "running"} :
           InState(t, w)' = InState(t, w)
  PROVE  AtTenant(t)'
BY DEF AtTenant, Elems, Distinct

\* The way back from the tenants to the invariant, in the next state.
LEMMA InvFromTenants ==
  ASSUME TypeOK', TenantWhileInRun', \A t \in Tenants : AtTenant(t)'
  PROVE  IInv'
BY DEF IInv, AtTenant, QueueHoldsTheParked, ActiveCountsRunning,
       WorkConserving, Elems, Distinct

LEMMA RunAdmittedInv ==
  ASSUME IInv, NEW s \in Slots, NEW t \in Tenants, RunAdmitted(s, t)
  PROVE  IInv'
<1> USE GateAssumption DEF GateAssumption
<1>1. TypeOK /\ TenantWhileInRun /\ \A u \in Tenants : AtTenant(u)
  BY InvAtTenant
<1>2. /\ pc[s] = "idle" /\ tenant[s] = NoTenant
      /\ active' = [active EXCEPT ![t] = @ + 1]
      /\ pc' = [pc EXCEPT ![s] = "running"]
      /\ tenant' = [tenant EXCEPT ![s] = t]
      /\ waiters' = waiters
  BY <1>1 DEF RunAdmitted, TenantWhileInRun
<1>3. TypeOK' /\ TenantWhileInRun'
  BY <1>1, <1>2 DEF TypeOK, TenantWhileInRun
<1>4. \A u \in Tenants : \A w : s \notin InState(u, w)
  BY <1>2 DEF InState
<1>5. ASSUME NEW u \in Tenants, u # t PROVE AtTenant(u)'
  <2>1. \A w : InState(u, w)' = InState(u, w)
    BY <1>1, <1>2, <1>5 DEF TypeOK, InState
  <2>2. active'[u] = active[u] /\ waiters'[u] = waiters[u]
    BY <1>1, <1>2, <1>5 DEF TypeOK
  <2> QED BY <1>1, <2>1, <2>2, TenantUndisturbed
<1>6. AtTenant(t)'
  <2>1. /\ InState(t, "running")' = InState(t, "running") \cup {s}
        /\ InState(t, "waiting")' = InState(t, "waiting")
        /\ InState(t, "resolved")' = InState(t, "resolved")
    BY <1>1, <1>2 DEF TypeOK, InState
  <2>2. Cardinality(InState(t, "running")') = Cardinality(InState(t, "running")) + 1
    BY <1>4, <2>1, InStateFinite, FS_AddElement
  <2>3. active'[t] = active[t] + 1 /\ waiters'[t] = waiters[t]
    BY <1>1, <1>2 DEF TypeOK
  <2>4. Cardinality(InState(t, "resolved")) \in Nat
    BY InStateFinite
  <2> QED BY <1>1, <2>1, <2>2, <2>3, <2>4, LimitType DEF AtTenant, Elems, Distinct
<1> QED BY <1>3, <1>5, <1>6, InvFromTenants

LEMMA RunQueuedInv ==
  ASSUME IInv, NEW s \in Slots, NEW t \in Tenants, RunQueued(s, t)
  PROVE  IInv'
<1> USE GateAssumption DEF GateAssumption
<1>1. TypeOK /\ TenantWhileInRun /\ \A u \in Tenants : AtTenant(u)
  BY InvAtTenant
<1>2. /\ pc[s] = "idle" /\ tenant[s] = NoTenant
      /\ active[t] >= maximumPerTenant
      /\ waiters' = [waiters EXCEPT ![t] = Append(@, s)]
      /\ pc' = [pc EXCEPT ![s] = "waiting"]
      /\ tenant' = [tenant EXCEPT ![s] = t]
      /\ active' = active
  BY <1>1 DEF RunQueued, AtLimit, TenantWhileInRun
<1>3. s \notin Elems(waiters[t]) /\ Distinct(waiters[t])
  BY <1>1, <1>2 DEF AtTenant, InState
<1>4. /\ Append(waiters[t], s) \in Seq(Slots)
      /\ Elems(Append(waiters[t], s)) = Elems(waiters[t]) \cup {s}
      /\ Distinct(Append(waiters[t], s))
  BY <1>1, <1>3, AppendElems DEF AtTenant
<1>5. TypeOK' /\ TenantWhileInRun'
  BY <1>1, <1>2, <1>4 DEF TypeOK, TenantWhileInRun
<1>6. ASSUME NEW u \in Tenants, u # t PROVE AtTenant(u)'
  <2>1. \A w : InState(u, w)' = InState(u, w)
    BY <1>1, <1>2, <1>6 DEF TypeOK, InState
  <2>2. active'[u] = active[u] /\ waiters'[u] = waiters[u]
    BY <1>1, <1>2, <1>6 DEF TypeOK
  <2> QED BY <1>1, <2>1, <2>2, TenantUndisturbed
<1>7. AtTenant(t)'
  <2>1. /\ InState(t, "running")' = InState(t, "running")
        /\ InState(t, "waiting")' = InState(t, "waiting") \cup {s}
        /\ InState(t, "resolved")' = InState(t, "resolved")
    BY <1>1, <1>2 DEF TypeOK, InState
  <2>2. active'[t] = active[t] /\ waiters'[t] = Append(waiters[t], s)
    BY <1>1, <1>2 DEF TypeOK
  <2>3. Cardinality(InState(t, "resolved")) \in Nat
    BY InStateFinite
  <2>4. active[t] + Cardinality(InState(t, "resolved")) >= maximumPerTenant
    BY <1>1, <1>2, <2>3, LimitType DEF AtTenant
  <2>5. /\ Elems(waiters'[t]) = InState(t, "waiting")'
        /\ Distinct(waiters'[t])
    BY <1>1, <1>4, <2>1, <2>2 DEF AtTenant
  <2> QED BY <1>1, <1>4, <2>1, <2>2, <2>4, <2>5 DEF AtTenant, Elems, Distinct
<1> QED BY <1>5, <1>6, <1>7, InvFromTenants

LEMMA ResumeInv ==
  ASSUME IInv, NEW s \in Slots, Resume(s)
  PROVE  IInv'
<1> USE GateAssumption DEF GateAssumption
<1>1. TypeOK /\ TenantWhileInRun /\ \A u \in Tenants : AtTenant(u)
  BY InvAtTenant
<1> PICK t \in Tenants : tenant[s] = t
  BY <1>1 DEF Resume, TenantWhileInRun, TypeOK
<1>2. /\ pc[s] = "resolved" /\ tenant[s] = t
      /\ active' = [active EXCEPT ![t] = @ + 1]
      /\ pc' = [pc EXCEPT ![s] = "running"]
      /\ waiters' = waiters /\ tenant' = tenant
  BY <1>1 DEF Resume, TenantWhileInRun, TypeOK
<1>3. TypeOK' /\ TenantWhileInRun'
  BY <1>1, <1>2 DEF TypeOK, TenantWhileInRun
<1>4. ASSUME NEW u \in Tenants, u # t PROVE AtTenant(u)'
  <2>1. \A w : InState(u, w)' = InState(u, w)
    BY <1>1, <1>2, <1>4 DEF TypeOK, InState
  <2>2. active'[u] = active[u] /\ waiters'[u] = waiters[u]
    BY <1>1, <1>2, <1>4 DEF TypeOK
  <2> QED BY <1>1, <2>1, <2>2, TenantUndisturbed
<1>5. AtTenant(t)'
  <2> DEFINE running == InState(t, "running")
             resolved == InState(t, "resolved")
  <2>1. /\ InState(t, "running")' = running \cup {s}
        /\ InState(t, "waiting")' = InState(t, "waiting")
        /\ InState(t, "resolved")' = resolved \ {s}
        /\ s \notin running /\ s \in resolved
    BY <1>1, <1>2 DEF TypeOK, InState
  <2>2. /\ Cardinality(running \cup {s}) = Cardinality(running) + 1
        /\ Cardinality(resolved \ {s}) = Cardinality(resolved) - 1
    BY <2>1, InStateFinite, FS_AddElement, FS_RemoveElement
  <2>3. active'[t] = active[t] + 1 /\ waiters'[t] = waiters[t]
    BY <1>1, <1>2 DEF TypeOK
  <2>4. Cardinality(running) \in Nat /\ Cardinality(resolved) \in Nat
    BY InStateFinite
  <2>5. waiters'[t] # << >> =>
          active'[t] + Cardinality(resolved \ {s}) >= maximumPerTenant
    BY <1>1, <1>2, <2>2, <2>3, <2>4, LimitType DEF AtTenant
  <2>6. /\ active'[t] = Cardinality(running \cup {s}) /\ active'[t] \in Nat
        /\ waiters[t] \in Seq(Slots)
        /\ Elems(waiters[t]) = InState(t, "waiting")
        /\ Distinct(waiters[t])
    BY <1>1, <2>2, <2>3, <2>4 DEF AtTenant
  <2> HIDE DEF running, resolved
  <2> QED BY <2>1, <2>3, <2>5, <2>6 DEF AtTenant
<1>6. \A u \in Tenants : AtTenant(u)'
  BY <1>4, <1>5
<1> QED BY <1>3, <1>6, InvFromTenants

LEMMA FinishInv ==
  ASSUME IInv, NEW s \in Slots, Finish(s)
  PROVE  IInv'
<1> USE GateAssumption DEF GateAssumption
<1>1. TypeOK /\ TenantWhileInRun /\ \A u \in Tenants : AtTenant(u)
  BY InvAtTenant
<1> PICK t \in Tenants : tenant[s] = t
  BY <1>1 DEF Finish, TenantWhileInRun, TypeOK
<1> DEFINE q == waiters[t]
           woken == Shift(waiters[t]).woken
           rest == Shift(waiters[t]).rest
           running == InState(t, "running")
           resolved == InState(t, "resolved")
           waiting == InState(t, "waiting")
<1>2. /\ pc[s] = "running" /\ tenant[s] = t
      /\ active' = [active EXCEPT ![t] = Decremented(@)]
      /\ waiters' = [waiters EXCEPT ![t] = rest]
      /\ pc' = [x \in Slots |-> IF x \in woken THEN "resolved"
                                ELSE IF x = s THEN "idle" ELSE pc[x]]
      /\ tenant' = [tenant EXCEPT ![s] = NoTenant]
  BY DEF Finish
\* Whom the queue wakes, and what is left of it.
<1>3. /\ q = << >> => woken = {} /\ rest = q
      /\ q # << >> => woken = {Head(q)} /\ rest = Tail(q)
  BY DEF Shift
<1>4. /\ woken \subseteq waiting
      /\ rest \in Seq(Slots)
      /\ Elems(rest) = waiting \ woken
      /\ Distinct(rest)
  <2>1. q \in Seq(Slots) /\ Elems(q) = waiting /\ Distinct(q)
    BY <1>1 DEF AtTenant
  <2>2. CASE q = << >>
    BY <1>3, <2>1, <2>2
  <2>3. CASE q # << >>
    <3> HIDE DEF q, woken, rest, waiting
    <3>1. woken = {Head(q)} /\ rest = Tail(q)
      BY <1>3, <2>3
    <3>2. /\ Head(q) \in Elems(q)
          /\ Tail(q) \in Seq(Slots)
          /\ Elems(Tail(q)) = Elems(q) \ {Head(q)}
          /\ Distinct(Tail(q))
      BY <2>1, <2>3, TailElems
    <3> QED BY <2>1, <3>1, <3>2
  <2> QED BY <2>2, <2>3
<1>5. s \in running /\ s \notin waiting
  BY <1>2 DEF InState
\* The entry of the map counts this operation, so the clamp does not act.
<1>6. /\ active[t] = Cardinality(running) /\ active[t] > 0
      /\ active'[t] = active[t] - 1
      /\ Cardinality(running \ {s}) = active[t] - 1
  <2>0. IsFiniteSet(running)
    BY InStateFinite
  <2> HIDE DEF running
  <2>1. Cardinality(running) \in Nat /\ Cardinality(running \ {s}) \in Nat
    BY <2>0, FS_RemoveElement, FS_CardinalityType
  <2>2. Cardinality(running \ {s}) = Cardinality(running) - 1
    BY <1>5, <2>0, FS_RemoveElement
  <2>3. Cardinality(running) > 0
    BY <2>1, <2>2
  <2>4. active[t] = Cardinality(running)
    BY <1>1 DEF AtTenant, running
  <2>5. active'[t] = Decremented(active[t])
    BY <1>1, <1>2 DEF TypeOK
  <2> QED BY <2>1, <2>2, <2>3, <2>4, <2>5 DEF Decremented
<1>7. TypeOK' /\ TenantWhileInRun'
  <2>1. active[t] - 1 \in Nat
    BY <1>1, <1>6 DEF AtTenant
  <2>2. active' \in [Tenants -> Nat]
    BY <1>1, <1>2, <1>6, <2>1 DEF TypeOK, Decremented
  <2>3. \A x \in woken : pc[x] # "idle" /\ x # s
    BY <1>4, <1>5 DEF InState
  <2> QED BY <1>1, <1>2, <1>4, <2>2, <2>3 DEF TypeOK, TenantWhileInRun
<1>8. ASSUME NEW u \in Tenants, u # t PROVE AtTenant(u)'
  <2>1. \A x \in woken : tenant[x] = t
    BY <1>4 DEF InState
  <2>2. \A w \in {"waiting", "resolved", "running"} :
          InState(u, w)' = InState(u, w)
    BY <1>1, <1>2, <1>8, <2>1 DEF TypeOK, InState
  <2>3. active'[u] = active[u] /\ waiters'[u] = waiters[u]
    BY <1>1, <1>2, <1>8 DEF TypeOK
  <2> QED BY <1>1, <2>2, <2>3, TenantUndisturbed
<1>9. AtTenant(t)'
  <2>1. /\ InState(t, "running")' = running \ {s}
        /\ InState(t, "waiting")' = waiting \ woken
        /\ InState(t, "resolved")' = resolved \cup woken
    <3> HIDE DEF woken, rest
    <3>1. \A x \in Slots :
            /\ x = s => tenant'[x] # t
            /\ x # s => /\ tenant'[x] = tenant[x]
                       /\ pc'[x] = IF x \in woken THEN "resolved" ELSE pc[x]
      BY <1>1, <1>2 DEF TypeOK
    <3>2. \A x \in woken : x \in Slots /\ x # s /\ tenant[x] = t /\ pc[x] = "waiting"
      BY <1>2, <1>4 DEF InState
    <3>3. InState(t, "running")' = running \ {s}
      BY <3>1, <3>2 DEF InState
    <3>4. s \notin waiting
      BY <1>2 DEF InState
    <3>5. InState(t, "waiting")' = waiting \ woken
      BY <3>1, <3>2, <3>4 DEF InState
    <3>6. InState(t, "resolved")' = resolved \cup woken
      <4>1. \A x \in Slots :
              (tenant'[x] = t /\ pc'[x] = "resolved")
                <=> ((tenant[x] = t /\ pc[x] = "resolved") \/ x \in woken)
        <5> TAKE x \in Slots
        <5>1. CASE x = s
          BY <1>2, <3>1, <3>2, <5>1
        <5>2. CASE x # s
          BY <3>1, <3>2, <5>2
        <5> QED BY <5>1, <5>2
      <4> QED BY <3>2, <4>1 DEF InState
    <3> QED BY <3>3, <3>5, <3>6
  <2>2. Cardinality(running \ {s}) = active[t] - 1
    BY <1>6
  <2>3. waiters'[t] = rest
    BY <1>1, <1>2 DEF TypeOK
  <2>4. ASSUME rest # << >>
        PROVE  Cardinality(resolved \cup woken) = Cardinality(resolved) + 1
    <3>1. PICK h : woken = {h} /\ h \in waiting
      BY <1>3, <1>4, <2>4
    <3>2. h \notin resolved
      BY <3>1 DEF InState
    <3> QED BY <3>1, <3>2, InStateFinite, FS_AddElement
  <2>5. rest # << >> =>
          (active[t] - 1) + Cardinality(resolved \cup woken) >= maximumPerTenant
    <3> SUFFICES ASSUME rest # << >>
                 PROVE  (active[t] - 1) + Cardinality(resolved \cup woken)
                          >= maximumPerTenant
      OBVIOUS
    <3>1. q # << >>
      BY <1>3
    <3>2. active[t] + Cardinality(resolved) >= maximumPerTenant
      BY <1>1, <3>1 DEF AtTenant
    <3>3. active[t] \in Nat /\ Cardinality(resolved) \in Nat
      BY <1>1, InStateFinite DEF AtTenant
    <3> QED BY <2>4, <3>2, <3>3, LimitType
  <2>6. active'[t] \in Nat
    BY <1>7 DEF TypeOK
  <2> HIDE DEF running, resolved, waiting, rest, woken
  <2> QED BY <1>4, <1>6, <2>1, <2>2, <2>3, <2>5, <2>6 DEF AtTenant
<1>10. \A u \in Tenants : AtTenant(u)'
  BY <1>8, <1>9
<1> QED BY <1>7, <1>10, InvFromTenants

LEMMA InductiveInv == IInv /\ [Next]_vars => IInv'
<1> SUFFICES ASSUME IInv, [Next]_vars PROVE IInv'
  OBVIOUS
<1>1. CASE UNCHANGED vars
  BY <1>1
     DEF vars, IInv, TypeOK, TenantWhileInRun, QueueHoldsTheParked,
         ActiveCountsRunning, WorkConserving, InState
<1> QED BY <1>1, RunAdmittedInv, RunQueuedInv, ResumeInv, FinishInv DEF Next
-----------------------------------------------------------------------------
\* The inductive invariant holds in every reachable state.
THEOREM Invariance == Spec => []IInv
BY InitInv, InductiveInv, PTL DEF Spec

\* Type correctness of the gate's maps and of the slots.
THEOREM TypeCorrect == Spec => []TypeOK
<1>1. IInv => TypeOK
  BY DEF IInv
<1> QED BY <1>1, Invariance, PTL

(***************************************************************************)
(* The active map of the gate counts the running operations exactly, for   *)
(* any number of tenants and slots.                                        *)
(***************************************************************************)
THEOREM ActiveIsExact == Spec => []ActiveCountsRunning
<1>1. IInv => ActiveCountsRunning
  BY DEF IInv
<1> QED BY <1>1, Invariance, PTL

(***************************************************************************)
(* Every parked call of run() is queued exactly once under its tenant.     *)
(***************************************************************************)
THEOREM ParkedIsQueued == Spec => []QueueHoldsTheParked
<1>1. IInv => QueueHoldsTheParked
  BY DEF IInv
<1> QED BY <1>1, Invariance, PTL

(***************************************************************************)
(* No wake-up of the gate is lost: while a call is parked the limit is     *)
(* filled by operations that run or are about to.                          *)
(***************************************************************************)
THEOREM NoLostWakeUp == Spec => []WorkConserving
<1>1. IInv => WorkConserving
  BY DEF IInv
<1> QED BY <1>1, Invariance, PTL
-----------------------------------------------------------------------------
(***************************************************************************)
(* Order among the parked: the measure that EveryCallRuns descends.        *)
(***************************************************************************)
Before(q, e) == {q[i] : i \in {k \in DOMAIN q : \E j \in DOMAIN q : k < j /\ q[j] = e}}

\* The calls parked ahead of s.
Ahead(s) == Before(waiters[tenant[s]], s)

LEMMA AppendBefore ==
  ASSUME NEW S, NEW q \in Seq(S), NEW e \in S, NEW x, x # e
  PROVE  Before(Append(q, e), x) = Before(q, x)
<1> DEFINE p == Append(q, e)
<1>1. /\ p \in Seq(S) /\ Len(p) = Len(q) + 1 /\ p[Len(q) + 1] = e
      /\ \A i \in 1 .. Len(q) : p[i] = q[i]
  BY AppendProperties
<1>2. Len(q) \in Nat /\ DOMAIN q = 1 .. Len(q) /\ DOMAIN p = 1 .. Len(p)
  BY <1>1, LenProperties
<1> HIDE DEF p
<1>3. \A j \in DOMAIN p : p[j] = x => j \in DOMAIN q
  BY <1>1, <1>2
<1>4. ASSUME NEW k \in DOMAIN p, NEW j \in DOMAIN p, k < j, p[j] = x
      PROVE  k \in DOMAIN q /\ j \in DOMAIN q /\ p[k] = q[k] /\ q[j] = x
  BY <1>1, <1>2, <1>3, <1>4
<1>5. ASSUME NEW k \in DOMAIN q, NEW j \in DOMAIN q, k < j, q[j] = x
      PROVE  k \in DOMAIN p /\ j \in DOMAIN p /\ p[k] = q[k] /\ p[j] = x
  BY <1>1, <1>2, <1>5
<1>6. Before(p, x) \subseteq Before(q, x)
  BY <1>4 DEF Before
<1>7. Before(q, x) \subseteq Before(p, x)
  BY <1>5 DEF Before
<1> QED BY <1>6, <1>7 DEF p

LEMMA TailBefore ==
  ASSUME NEW S, NEW q \in Seq(S), q # << >>, Distinct(q), NEW x \in Elems(q), x # Head(q)
  PROVE  /\ Before(Tail(q), x) \subseteq Before(q, x)
         /\ Head(q) \in Before(q, x) /\ Head(q) \notin Before(Tail(q), x)
<1> DEFINE p == Tail(q)
<1>1. /\ p \in Seq(S) /\ Len(p) = Len(q) - 1
      /\ \A i \in 1 .. Len(p) : p[i] = q[i + 1]
  BY HeadTailProperties
<1>2. /\ DOMAIN q = 1 .. Len(q) /\ Len(q) \in Nat /\ Len(q) > 0
      /\ DOMAIN p = 1 .. Len(p) /\ Head(q) = q[1]
  BY <1>1, LenProperties, EmptySeq
<1>3. Head(q) \notin Elems(p)
  BY TailElems
<1> HIDE DEF p
<1>4. ASSUME NEW k \in DOMAIN p, NEW j \in DOMAIN p, k < j, p[j] = x
      PROVE  /\ k + 1 \in DOMAIN q /\ j + 1 \in DOMAIN q /\ k + 1 < j + 1
             /\ q[k + 1] = p[k] /\ q[j + 1] = x
  BY <1>1, <1>2, <1>4
<1>5. Before(p, x) \subseteq Before(q, x)
  BY <1>4 DEF Before
<1>6. Head(q) \notin Before(p, x)
  BY <1>3 DEF Before, Elems
<1>7. PICK j \in DOMAIN q : q[j] = x
  BY DEF Elems
<1>8. 1 \in DOMAIN q /\ 1 < j
  BY <1>2, <1>7
<1>9. Head(q) \in Before(q, x)
  BY <1>2, <1>7, <1>8 DEF Before
<1> QED BY <1>5, <1>6, <1>9 DEF p

\* A call of tenant t ends.
Ends(t) == \E f \in Slots : tenant[f] = t /\ pc[f] = "running" /\ pc'[f] = "idle"

Advances(s) ==
  \/ pc'[s] = "resolved"
  \/ /\ pc'[s] = "waiting" /\ tenant'[s] = tenant[s]
     /\ Ahead(s)' \subseteq Ahead(s)
     /\ Ends(tenant[s]) => Ahead(s)' # Ahead(s)

\* While no call ends, a parked call stays where it is if its queue only gets longer.
LEMMA StaysParked ==
  ASSUME IInv, NEW s \in Slots, NEW t \in Tenants, pc[s] = "waiting", tenant[s] = t,
         pc'[s] = "waiting", tenant'[s] = t,
         \/ waiters'[t] = waiters[t]
         \/ \E e \in Slots : e # s /\ waiters'[t] = Append(waiters[t], e),
         \A f \in Slots : pc[f] = "running" => pc'[f] # "idle"
  PROVE  Advances(s)
<1>1. waiters[t] \in Seq(Slots)
  BY DEF IInv, TypeOK
<1>2. Ahead(s) = Before(waiters[t], s) /\ Ahead(s)' = Before(waiters'[t], s)
  BY DEF Ahead
<1>3. Before(waiters'[t], s) = Before(waiters[t], s)
  <2>1. CASE waiters'[t] = waiters[t]
    BY <2>1
  <2>2. ASSUME NEW e \in Slots, e # s, waiters'[t] = Append(waiters[t], e)
        PROVE  Before(waiters'[t], s) = Before(waiters[t], s)
    <3>1. Before(Append(waiters[t], e), s) = Before(waiters[t], s)
      BY <1>1, <2>2, AppendBefore
    <3> QED BY <2>2, <3>1
  <2> QED BY <2>1, <2>2
<1>4. ~Ends(tenant[s])
  BY DEF Ends
<1> QED BY <1>2, <1>3, <1>4 DEF Advances

LEMMA FinishAdvances ==
  ASSUME IInv, NEW f \in Slots, Finish(f), NEW s \in Slots, pc[s] = "waiting"
  PROVE  Advances(s)
<1>1. /\ TypeOK /\ TenantWhileInRun /\ QueueHoldsTheParked /\ s # f
      /\ tenant[s] \in Tenants /\ tenant[f] \in Tenants
  BY DEF IInv, TenantWhileInRun, TypeOK, Finish
<1> DEFINE t == tenant[f]
           q == waiters[t]
<1>2. /\ pc[f] = "running"
      /\ waiters' = [waiters EXCEPT ![t] = Shift(q).rest]
      /\ pc' = [x \in Slots |-> IF x \in Shift(q).woken THEN "resolved"
                                ELSE IF x = f THEN "idle" ELSE pc[x]]
      /\ tenant' = [tenant EXCEPT ![f] = NoTenant]
  BY DEF Finish
<1>3. tenant'[s] = tenant[s]
  BY <1>1, <1>2 DEF TypeOK
<1>4. q \in Seq(Slots) /\ Distinct(q) /\ Elems(q) = InState(t, "waiting")
  BY <1>1 DEF TypeOK, QueueHoldsTheParked, Distinct, Elems
<1>5. /\ q = << >> => Shift(q).woken = {} /\ Shift(q).rest = q
      /\ q # << >> => Shift(q).woken = {Head(q)} /\ Shift(q).rest = Tail(q)
  BY DEF Shift
<1> HIDE DEF q
<1>6. CASE tenant[s] = t
  <2>1. s \in Elems(q)
    BY <1>4, <1>6 DEF InState
  <2>2. q # << >>
    BY <2>1, EmptySeq DEF Elems
  <2>3. Shift(q).woken = {Head(q)} /\ waiters'[t] = Tail(q)
    BY <1>1, <1>2, <1>5, <2>2 DEF TypeOK
  <2>4. CASE s = Head(q)
    BY <1>2, <2>3, <2>4 DEF Advances
  <2>5. CASE s # Head(q)
    <3>1. pc'[s] = "waiting"
      BY <1>1, <1>2, <2>3, <2>5
    <3>2. Ahead(s) = Before(q, s) /\ Ahead(s)' = Before(Tail(q), s)
      BY <1>3, <1>6, <2>3 DEF Ahead, q
    <3>3. Ahead(s)' \subseteq Ahead(s) /\ Ahead(s)' # Ahead(s)
      BY <1>4, <2>1, <2>2, <2>5, <3>2, TailBefore
    <3> QED BY <1>3, <3>1, <3>3 DEF Advances
  <2> QED BY <2>4, <2>5
<1>7. CASE tenant[s] # t
  <2>1. s \notin Shift(q).woken
    <3>1. q # << >> => Head(q) \in Elems(q)
      BY <1>4, TailElems
    <3> QED BY <1>4, <1>5, <1>7, <3>1 DEF InState
  <2>2. pc'[s] = "waiting" /\ waiters'[tenant[s]] = waiters[tenant[s]]
    BY <1>1, <1>2, <1>7, <2>1 DEF TypeOK
  <2>3. Ahead(s)' = Ahead(s)
    BY <1>3, <2>2 DEF Ahead
  <2>4. ~Ends(tenant[s])
    <3>1. \A x \in Slots : pc'[x] = "idle" => x = f \/ pc[x] = "idle"
      BY <1>2
    <3> QED BY <1>7, <3>1 DEF Ends
  <2> QED BY <1>3, <2>2, <2>3, <2>4 DEF Advances
<1> QED BY <1>6, <1>7

LEMMA ParkedAdvance ==
  IInv /\ [Next]_vars => [\A s \in Slots : pc[s] = "waiting" => Advances(s)]_vars
<1> SUFFICES ASSUME IInv, Next, NEW s \in Slots, pc[s] = "waiting" PROVE Advances(s)
  OBVIOUS
<1>1. TypeOK /\ tenant[s] \in Tenants
  BY DEF IInv, TypeOK, TenantWhileInRun
<1>2. ASSUME NEW x \in Slots, NEW t \in Tenants, RunAdmitted(x, t) PROVE Advances(s)
  <2>1. /\ pc'[s] = "waiting" /\ tenant'[s] = tenant[s] /\ waiters' = waiters
        /\ \A f \in Slots : pc[f] = "running" => pc'[f] # "idle"
    BY <1>1, <1>2 DEF RunAdmitted, TypeOK
  <2> QED BY <1>1, <2>1, StaysParked
<1>3. ASSUME NEW x \in Slots, NEW t \in Tenants, RunQueued(x, t) PROVE Advances(s)
  <2>1. /\ pc'[s] = "waiting" /\ tenant'[s] = tenant[s] /\ x # s
        /\ \A f \in Slots : pc[f] = "running" => pc'[f] # "idle"
    BY <1>1, <1>3 DEF RunQueued, TypeOK
  <2>2. \/ waiters'[tenant[s]] = waiters[tenant[s]]
        \/ waiters'[tenant[s]] = Append(waiters[tenant[s]], x)
    BY <1>1, <1>3 DEF RunQueued, TypeOK
  <2> QED BY <1>1, <2>1, <2>2, StaysParked
<1>4. ASSUME NEW x \in Slots, Resume(x) PROVE Advances(s)
  <2>1. /\ pc'[s] = "waiting" /\ tenant' = tenant /\ waiters' = waiters
        /\ \A f \in Slots : pc[f] = "running" => pc'[f] # "idle"
    BY <1>1, <1>4 DEF Resume, TypeOK
  <2> QED BY <1>1, <2>1, StaysParked
<1> QED BY <1>2, <1>3, <1>4, FinishAdvances DEF Next

(***************************************************************************)
(* Among the parked calls of a tenant none overtakes another, and every    *)
(* call of the tenant that ends brings each of them nearer: the calls      *)
(* ahead of a parked call never become more, and become fewer whenever a   *)
(* call of its tenant ends.                                                *)
(***************************************************************************)
THEOREM ParkedInOrder == Spec => [][\A s \in Slots : pc[s] = "waiting" => Advances(s)]_vars
BY Invariance, ParkedAdvance, PTL DEF Spec
-----------------------------------------------------------------------------
(***************************************************************************)
(* When the limit is one: a call that enters while a waiter of its tenant  *)
(* is resolved and not yet resumed takes the place meant for the waiter.   *)
(***************************************************************************)
Barges ==
  \E s \in Slots, t \in Tenants : RunAdmitted(s, t) /\ InState(t, "resolved") # {}

Taken(t) == active[t] + Cardinality(InState(t, "resolved"))
PlacesSuffice == \A t \in Tenants : Taken(t) <= maximumPerTenant

\* A step that gives and takes no place of a tenant.
LEMMA PlacesKept ==
  ASSUME PlacesSuffice, NEW t \in Tenants, active'[t] = active[t],
         InState(t, "resolved")' = InState(t, "resolved")
  PROVE  Taken(t)' <= maximumPerTenant
BY DEF PlacesSuffice, Taken

LEMMA RunPlaces ==
  ASSUME IInv, PlacesSuffice, ~Barges, NEW s \in Slots, NEW u \in Tenants,
         RunAdmitted(s, u) \/ RunQueued(s, u)
  PROVE  PlacesSuffice'
<1>1. TypeOK /\ active[u] \in Nat
  BY DEF IInv, TypeOK
<1>2. \A t \in Tenants : InState(t, "resolved")' = InState(t, "resolved")
  BY <1>1 DEF TypeOK, InState, RunAdmitted, RunQueued
<1>3. ASSUME NEW t \in Tenants, RunQueued(s, u) PROVE Taken(t)' <= maximumPerTenant
  BY <1>2, <1>3, PlacesKept DEF RunQueued
<1>4. ASSUME NEW t \in Tenants, RunAdmitted(s, u) PROVE Taken(t)' <= maximumPerTenant
  <2>1. CASE t # u
    <3>1. active'[t] = active[t]
      BY <1>1, <1>4, <2>1 DEF RunAdmitted, TypeOK
    <3> QED BY <1>2, <3>1, PlacesKept
  <2>2. CASE t = u
    <3>1. InState(u, "resolved") = {}
      BY <1>4 DEF Barges
    <3>2. Cardinality(InState(u, "resolved")') = 0
      BY <1>2, <3>1, FS_EmptySet
    <3>3. active'[u] = active[u] + 1 /\ active[u] < maximumPerTenant
      BY <1>1, <1>4, LimitType DEF RunAdmitted, AtLimit, TypeOK
    <3> QED BY <1>1, <2>2, <3>2, <3>3, LimitType DEF Taken
  <2> QED BY <2>1, <2>2
<1> QED BY <1>3, <1>4 DEF PlacesSuffice

LEMMA ResumePlaces ==
  ASSUME IInv, PlacesSuffice, NEW s \in Slots, Resume(s)
  PROVE  PlacesSuffice'
<1>1. TypeOK /\ tenant[s] \in Tenants
  BY DEF IInv, TypeOK, TenantWhileInRun, Resume
<1> PICK u \in Tenants : tenant[s] = u
  BY <1>1
<1> DEFINE resolved == InState(u, "resolved")
<1>2. /\ pc[s] = "resolved" /\ tenant' = tenant /\ pc' = [pc EXCEPT ![s] = "running"]
      /\ active' = [active EXCEPT ![u] = @ + 1]
  BY DEF Resume
<1>3. ASSUME NEW t \in Tenants PROVE Taken(t)' <= maximumPerTenant
  <2>1. CASE t # u
    <3>1. active'[t] = active[t] /\ InState(t, "resolved")' = InState(t, "resolved")
      BY <1>1, <1>2, <2>1 DEF TypeOK, InState
    <3> QED BY <3>1, PlacesKept
  <2>2. CASE t = u
    <3>1. s \in resolved /\ InState(u, "resolved")' = resolved \ {s}
      BY <1>1, <1>2 DEF TypeOK, InState
    <3>2. IsFiniteSet(resolved) /\ Cardinality(resolved) \in Nat
      BY InStateFinite
    <3> HIDE DEF resolved
    <3>3. Cardinality(resolved \ {s}) = Cardinality(resolved) - 1
      BY <3>1, <3>2, FS_RemoveElement
    <3>4. active'[u] = active[u] + 1 /\ active[u] \in Nat
      BY <1>1, <1>2 DEF TypeOK
    <3>5. active[u] + Cardinality(resolved) <= maximumPerTenant
      BY <1>1 DEF PlacesSuffice, Taken, resolved
    <3>6. Taken(t)' = active'[u] + Cardinality(resolved \ {s})
      BY <1>2, <2>2, <3>1 DEF Taken
    <3> QED BY <3>2, <3>3, <3>4, <3>5, <3>6, LimitType
  <2> QED BY <2>1, <2>2
<1> QED BY <1>3 DEF PlacesSuffice

LEMMA FinishPlaces ==
  ASSUME IInv, PlacesSuffice, NEW s \in Slots, Finish(s)
  PROVE  PlacesSuffice'
<1>1. /\ TypeOK /\ TenantWhileInRun /\ QueueHoldsTheParked /\ ActiveCountsRunning
      /\ tenant[s] \in Tenants
  BY DEF IInv, TypeOK, TenantWhileInRun, Finish
<1> PICK u \in Tenants : tenant[s] = u
  BY <1>1
<1> DEFINE q == waiters[u]
           resolved == InState(u, "resolved")
           running == InState(u, "running")
<1>2. /\ pc[s] = "running"
      /\ active' = [active EXCEPT ![u] = Decremented(@)]
      /\ pc' = [x \in Slots |-> IF x \in Shift(q).woken THEN "resolved"
                                ELSE IF x = s THEN "idle" ELSE pc[x]]
      /\ tenant' = [tenant EXCEPT ![s] = NoTenant]
  BY DEF Finish
<1>3. \E h : Shift(q).woken \subseteq {h}
  BY DEF Shift
<1>4. Shift(q).woken \subseteq InState(u, "waiting")
  <2>1. q \in Seq(Slots) /\ Distinct(q) /\ Elems(q) = InState(u, "waiting")
    BY <1>1 DEF TypeOK, QueueHoldsTheParked, Distinct, Elems
  <2>2. q # << >> => Head(q) \in Elems(q)
    BY <2>1, TailElems
  <2> QED BY <2>1, <2>2 DEF Shift
<1>5. ASSUME NEW t \in Tenants, t # u PROVE Taken(t)' <= maximumPerTenant
  <2>1. active'[t] = active[t] /\ InState(t, "resolved")' = InState(t, "resolved")
    BY <1>1, <1>2, <1>4, <1>5 DEF TypeOK, InState
  <2> QED BY <2>1, PlacesKept
<1>6. Taken(u)' <= maximumPerTenant
  <2>1. InState(u, "resolved")' \subseteq resolved \cup Shift(q).woken
    BY <1>1, <1>2 DEF TypeOK, InState
  <2>2. /\ IsFiniteSet(resolved) /\ Cardinality(resolved) \in Nat
        /\ IsFiniteSet(running) /\ Cardinality(running) \in Nat
    BY InStateFinite
  <2>3. s \in running /\ active[u] = Cardinality(running)
    BY <1>1, <1>2 DEF InState, ActiveCountsRunning
  <2>4. active[u] + Cardinality(resolved) <= maximumPerTenant
    BY <1>1 DEF PlacesSuffice, Taken
  <2> DEFINE after == InState(u, "resolved")'
  <2> HIDE DEF resolved, running, q, after
  <2>5. PICK h : Shift(q).woken \subseteq {h}
    BY <1>3
  <2>6. after \subseteq resolved \cup {h}
    BY <2>1, <2>5 DEF after
  <2>7. /\ IsFiniteSet(resolved \cup {h})
        /\ Cardinality(resolved \cup {h}) \in Nat
        /\ Cardinality(resolved \cup {h}) <= Cardinality(resolved) + 1
    <3>1. /\ IsFiniteSet(resolved \cup {h})
          /\ Cardinality(resolved \cup {h})
               = IF h \in resolved THEN Cardinality(resolved) ELSE Cardinality(resolved) + 1
      BY <2>2, FS_AddElement
    <3> QED BY <2>2, <3>1
  <2>8. Cardinality(after) \in Nat /\ Cardinality(after) <= Cardinality(resolved) + 1
    BY <2>2, <2>6, <2>7, FS_Subset, FS_CardinalityType
  <2>9. Cardinality(running) > 0
    BY <2>2, <2>3, FS_EmptySet
  <2>10. active'[u] = active[u] - 1
    BY <1>1, <1>2, <2>2, <2>3, <2>9 DEF TypeOK, Decremented
  <2>11. Taken(u)' = active'[u] + Cardinality(after)
    BY DEF Taken, after
  <2> QED BY <2>2, <2>3, <2>4, <2>8, <2>10, <2>11, LimitType
<1> QED BY <1>5, <1>6 DEF PlacesSuffice

(***************************************************************************)
(* The limit of the gate is exceeded by barging alone: as long as no call  *)
(* enters between the resolution of a waiter of its tenant and the         *)
(* waiter's continuation, at most maximumPerTenant operations of a tenant  *)
(* run at a time.                                                          *)
(***************************************************************************)
THEOREM OnlyBargingExceeds == Spec /\ [][~Barges]_vars => []AtMostMaximumPerTenant
<1>1. Init => PlacesSuffice
  <2> SUFFICES ASSUME Init, NEW t \in Tenants PROVE Taken(t) <= maximumPerTenant
    BY DEF PlacesSuffice
  <2>1. InState(t, "resolved") = {} /\ active[t] = 0
    BY DEF Init, InState
  <2>2. Cardinality(InState(t, "resolved")) = 0
    BY <2>1, FS_EmptySet
  <2> QED BY <2>1, <2>2, LimitType DEF Taken
<1>2. IInv /\ PlacesSuffice /\ [Next]_vars /\ [~Barges]_vars => PlacesSuffice'
  <2> SUFFICES ASSUME IInv, PlacesSuffice, [Next]_vars, [~Barges]_vars PROVE PlacesSuffice'
    OBVIOUS
  <2>1. CASE UNCHANGED vars
    BY <2>1 DEF vars, PlacesSuffice, Taken, InState
  <2>2. CASE Next /\ ~Barges
    BY <2>2, RunPlaces, ResumePlaces, FinishPlaces DEF Next
  <2> QED BY <2>1, <2>2
<1>3. IInv /\ PlacesSuffice => AtMostMaximumPerTenant
  <2> SUFFICES ASSUME IInv, PlacesSuffice, NEW t \in Tenants
               PROVE  Cardinality(InState(t, "running")) <= maximumPerTenant
    BY DEF AtMostMaximumPerTenant
  <2>1. /\ Cardinality(InState(t, "running")) \in Nat
        /\ Cardinality(InState(t, "resolved")) \in Nat
    BY InStateFinite
  <2>2. active[t] = Cardinality(InState(t, "running")) /\ Taken(t) <= maximumPerTenant
    BY DEF IInv, ActiveCountsRunning, PlacesSuffice
  <2> QED BY <2>1, <2>2, LimitType DEF Taken
<1> QED BY <1>1, <1>2, <1>3, Invariance, PTL DEF Spec
=============================================================================
