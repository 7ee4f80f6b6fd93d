-------------------- MODULE RecommendationLifecycle_proofs --------------------
(***************************************************************************)
(* Proofs about RecommendationLifecycle for any sets of recommendations    *)
(* and actors and any assignment of permissions.                           *)
(***************************************************************************)
EXTENDS RecommendationLifecycle, TLAPS

(***************************************************************************)
(* What a request past its check guarantees: its actor may make the        *)
(* decision, the decision is not PROPOSED, and the row it is about exists. *)
(***************************************************************************)
RequestsChecked ==
  \A a \in Actors :
    request[a].pc # "idle" =>
      /\ request[a].rec \in Recommendations
      /\ request[a].to \in Statuses \ {"PROPOSED"}
      /\ May(a, request[a].to)
      /\ status[request[a].rec] # None
      /\ request[a].pc = "audit" => Decision(a) \in made

IInv == LifecycleTypeOK /\ RequestsChecked /\ ActorMayDecide /\ TrailMatchesDecisions

\* No status of the table has PROPOSED as a successor.
LEMMA NobodyProposes ==
  ASSUME NEW from \in Statuses, NEW to, Allowed(from, to)
  PROVE  to \in Statuses \ {"PROPOSED"}
BY DEF Allowed, transitions, Statuses

LEMMA InitInv == LifecycleInit => IInv
<1> SUFFICES ASSUME LifecycleInit PROVE IInv
  OBVIOUS
<1> USE LifecycleAssumption DEF LifecycleInit, NoPatch
<1>1. LifecycleTypeOK
  BY DEF LifecycleTypeOK
<1>2. RequestsChecked
  BY DEF RequestsChecked
<1>3. ActorMayDecide
  BY DEF ActorMayDecide, Undecided
<1>4. TrailMatchesDecisions
  BY DEF TrailMatchesDecisions
<1> QED BY <1>1, <1>2, <1>3, <1>4 DEF IInv

LEMMA InductiveInv == IInv /\ [LifecycleNext]_lifecycleVars => IInv'
<1> SUFFICES ASSUME IInv, [LifecycleNext]_lifecycleVars PROVE IInv'
  OBVIOUS
<1> USE LifecycleAssumption
<1>0. LifecycleTypeOK /\ RequestsChecked /\ ActorMayDecide /\ TrailMatchesDecisions
  BY DEF IInv
<1>1. ASSUME NEW r \in Recommendations, Save(r) PROVE IInv'
  <2>1. LifecycleTypeOK'
    BY <1>0, <1>1 DEF LifecycleTypeOK, Save, Upserted, Statuses
  <2>2. RequestsChecked'
    BY <1>0, <1>1 DEF RequestsChecked, LifecycleTypeOK, Save, Upserted, May, Decision, Statuses
  <2>3. ActorMayDecide'
    BY <1>0, <1>1 DEF ActorMayDecide, LifecycleTypeOK, Save, Upserted, May, Undecided
  <2>4. TrailMatchesDecisions'
    BY <1>0, <1>1 DEF TrailMatchesDecisions, Save, Decision
  <2> QED BY <2>1, <2>2, <2>3, <2>4 DEF IInv
<1>2. ASSUME NEW a \in Actors, NEW r \in Recommendations, NEW to \in Statuses,
             Read(a, r, to)
      PROVE  IInv'
  <2>1. status[r] \in Statuses
    BY <1>0, <1>2 DEF LifecycleTypeOK, Read
  <2>2. to # "PROPOSED"
    BY <1>2, <2>1, NobodyProposes DEF Read
  <2>3. LifecycleTypeOK'
    BY <1>0, <1>2 DEF LifecycleTypeOK, Read
  <2>4. RequestsChecked'
    BY <1>0, <1>2, <2>2 DEF RequestsChecked, LifecycleTypeOK, Read, May, Decision
  <2>5. ActorMayDecide'
    BY <1>0, <1>2 DEF ActorMayDecide, Read, May
  <2>6. TrailMatchesDecisions'
    BY <1>0, <1>2 DEF TrailMatchesDecisions, LifecycleTypeOK, Read, Decision
  <2> QED BY <2>3, <2>4, <2>5, <2>6 DEF IInv
<1>3. ASSUME NEW a \in Actors, Write(a) PROVE IInv'
  <2> DEFINE r == request[a].rec
  <2>1. /\ r \in Recommendations
        /\ request[a].to \in Statuses \ {"PROPOSED"}
        /\ May(a, request[a].to)
        /\ request[a] \in [pc : {"write", "audit"}, rec : Recommendations,
                           to : Statuses]
    BY <1>0, <1>3 DEF RequestsChecked, LifecycleTypeOK, Write, NoPatch
  <2>2. request' = [request EXCEPT ![a] =
                      [pc |-> "audit", rec |-> r, to |-> request[a].to]]
    BY <1>3 DEF Write
  <2>3. LifecycleTypeOK'
    BY <1>0, <1>3, <2>1, <2>2 DEF LifecycleTypeOK, Write, Recorded, Decision, Decisions
  <2>4. RequestsChecked'
    BY <1>0, <1>3, <2>1, <2>2 DEF RequestsChecked, LifecycleTypeOK, Write, May, Decision, Statuses
  <2>5. ActorMayDecide'
    BY <1>0, <1>3, <2>1 DEF ActorMayDecide, LifecycleTypeOK, Write, Recorded, May, Undecided
  <2>6. TrailMatchesDecisions'
    BY <1>0, <1>3, <2>1, <2>2 DEF TrailMatchesDecisions, LifecycleTypeOK, Write, Decision
  <2> QED BY <2>3, <2>4, <2>5, <2>6 DEF IInv
<1>4. ASSUME NEW a \in Actors, WriteFails(a) \/ Audit(a) \/ AuditFails(a)
      PROVE  IInv'
  <2>1. /\ request[a].pc # "idle"
        /\ request' = [request EXCEPT ![a] = NoPatch]
        /\ UNCHANGED <<status, decidedBy, made>>
    BY <1>4 DEF WriteFails, Audit, AuditFails
  <2>2. Decision(a) \in Decisions
    BY <1>0, <2>1 DEF RequestsChecked, Decision, Decisions
  <2>3. LifecycleTypeOK'
    BY <1>0, <1>4, <2>1, <2>2 DEF LifecycleTypeOK, WriteFails, Audit, AuditFails
  <2>4. RequestsChecked'
    BY <1>0, <2>1 DEF RequestsChecked, LifecycleTypeOK, NoPatch, May, Decision
  <2>5. ActorMayDecide'
    BY <1>0, <2>1 DEF ActorMayDecide, May
  <2>6. TrailMatchesDecisions'
    BY <1>0, <1>4, <2>1
       DEF TrailMatchesDecisions, RequestsChecked, LifecycleTypeOK, WriteFails, Audit,
           AuditFails, Decision, NoPatch
  <2> QED BY <2>3, <2>4, <2>5, <2>6 DEF IInv
<1>5. CASE UNCHANGED lifecycleVars
  BY <1>0, <1>5
     DEF IInv, LifecycleTypeOK, RequestsChecked, ActorMayDecide, TrailMatchesDecisions,
         lifecycleVars, May, Decision, NoPatch
<1> QED BY <1>1, <1>2, <1>3, <1>4, <1>5 DEF LifecycleNext

\* The inductive invariant holds in every reachable state.
THEOREM Invariance == LifecycleSpec => []IInv
BY InitInv, InductiveInv, PTL DEF LifecycleSpec

\* Type correctness of the row, the requests and the audit trail.
THEOREM TypeCorrect == LifecycleSpec => []LifecycleTypeOK
<1>1. IInv => LifecycleTypeOK
  BY DEF IInv
<1> QED BY <1>1, Invariance, PTL

(***************************************************************************)
(* The actor on record of a decided row may make the decision on record,   *)
(* for any permissions (PATCH /v1/recommendations/:id/status).             *)
(***************************************************************************)
THEOREM ActorOnRecord == LifecycleSpec => []ActorMayDecide
<1>1. IInv => ActorMayDecide
  BY DEF IInv
<1> QED BY <1>1, Invariance, PTL

(***************************************************************************)
(* The audit trail shows the decisions that were made, up to those in      *)
(* progress and those answered with an error.                              *)
(***************************************************************************)
THEOREM TrailIsTrue == LifecycleSpec => []TrailMatchesDecisions
<1>1. IInv => TrailMatchesDecisions
  BY DEF IInv
<1> QED BY <1>1, Invariance, PTL

(***************************************************************************)
(* No step takes a decided row back to PROPOSED: the upserts leave the     *)
(* status alone, and no transition leads there.                            *)
(***************************************************************************)
THEOREM NeverReopens == LifecycleSpec => NothingReopens
<1> DEFINE Stays == \A r \in Recommendations :
                      status[r] \notin Undecided => status'[r] \notin Undecided
<1>1. IInv /\ [LifecycleNext]_lifecycleVars => [Stays]_lifecycleVars
  <2> SUFFICES ASSUME IInv, [LifecycleNext]_lifecycleVars, lifecycleVars' # lifecycleVars,
                      NEW r \in Recommendations, status[r] \notin Undecided
               PROVE  status'[r] \notin Undecided
    OBVIOUS
  <2>1. LifecycleTypeOK /\ RequestsChecked
    BY DEF IInv
  <2>2. ASSUME NEW s \in Recommendations, Save(s)
        PROVE  status'[r] \notin Undecided
    BY <2>1, <2>2 DEF LifecycleTypeOK, Save, Upserted, Undecided
  <2>3. ASSUME NEW a \in Actors, Write(a) PROVE status'[r] \notin Undecided
    BY <2>1, <2>3, LifecycleAssumption
       DEF LifecycleTypeOK, RequestsChecked, Write, Undecided
  <2>4. ASSUME UNCHANGED status PROVE status'[r] \notin Undecided
    BY <2>4
  <2> QED BY <2>2, <2>3, <2>4
          DEF LifecycleNext, Read, WriteFails, Audit, AuditFails, lifecycleVars
<1> QED BY <1>1, Invariance, PTL DEF LifecycleSpec, NothingReopens

(***************************************************************************)
(* A terminal status with no request past its check is final: neither an   *)
(* analysis nor a later request changes it or opens a decision on it.      *)
(***************************************************************************)
THEOREM SettledIsFinal == LifecycleSpec => SettledStays
<1> DEFINE Stays == \A r \in Recommendations :
                      Settled(r) => Settled(r)' /\ status'[r] = status[r]
<1>1. IInv /\ [LifecycleNext]_lifecycleVars => [Stays]_lifecycleVars
  <2> SUFFICES ASSUME IInv, [LifecycleNext]_lifecycleVars, lifecycleVars' # lifecycleVars,
                      NEW r \in Recommendations, Settled(r)
               PROVE  Settled(r)' /\ status'[r] = status[r]
    OBVIOUS
  <2>1. LifecycleTypeOK /\ RequestsChecked
    BY DEF IInv
  <2>2. /\ status[r] # None
        /\ transitions[status[r]] = {}
        /\ \A a \in Actors : ~(request[a].pc = "write" /\ request[a].rec = r)
    BY DEF Settled, Open
  <2>3. SUFFICES /\ status'[r] = status[r]
                 /\ \A a \in Actors :
                      ~(request'[a].pc = "write" /\ request'[a].rec = r)
    BY <2>2 DEF Settled, Open, transitions
  <2> DEFINE Goal == /\ status'[r] = status[r]
                     /\ \A a \in Actors :
                          ~(request'[a].pc = "write" /\ request'[a].rec = r)
  <2>4. ASSUME NEW s \in Recommendations, Save(s) PROVE Goal
    BY <2>1, <2>2, <2>4 DEF LifecycleTypeOK, Save, Upserted
  <2>5. ASSUME NEW a \in Actors, NEW s \in Recommendations, NEW to \in Statuses,
               Read(a, s, to)
        PROVE  Goal
    BY <2>1, <2>2, <2>5 DEF LifecycleTypeOK, Read, Allowed
  <2>6. ASSUME NEW a \in Actors, Write(a) PROVE Goal
    BY <2>1, <2>2, <2>6 DEF LifecycleTypeOK, Write, NoPatch
  <2>7. ASSUME NEW a \in Actors, WriteFails(a) \/ Audit(a) \/ AuditFails(a)
        PROVE  Goal
    BY <2>1, <2>2, <2>7 DEF LifecycleTypeOK, WriteFails, Audit, AuditFails, NoPatch
  <2> QED BY <2>4, <2>5, <2>6, <2>7 DEF LifecycleNext, lifecycleVars
<1> QED BY <1>1, Invariance, PTL DEF LifecycleSpec, SettledStays
-----------------------------------------------------------------------------
(***************************************************************************)
(* When the transition table is followed.  A request checks the status it  *)
(* has read; only the write of another request on the same row can make    *)
(* that status out of date.                                                *)
(***************************************************************************)
\* No two requests are past their checks of one row.
OneByOne ==
  \A a, b \in Actors :
    request[a].pc = "write" /\ request[b].pc = "write" /\ request[a].rec = request[b].rec
      => a = b

StillAllowed ==
  \A a \in Actors :
    request[a].pc = "write" => Allowed(status[request[a].rec], request[a].to)

FollowsTable ==
  \A r \in Recommendations :
    status[r] # None /\ status'[r] # status[r] => status'[r] \in transitions[status[r]]

LEMMA StillAllowedInv ==
  IInv /\ OneByOne /\ StillAllowed /\ [LifecycleNext]_lifecycleVars
    => StillAllowed' /\ [FollowsTable]_lifecycleVars
<1> SUFFICES ASSUME IInv, OneByOne, StillAllowed, [LifecycleNext]_lifecycleVars
             PROVE  StillAllowed' /\ [FollowsTable]_lifecycleVars
  OBVIOUS
<1>0. LifecycleTypeOK /\ RequestsChecked
  BY DEF IInv
<1>1. ASSUME NEW r \in Recommendations, Save(r) PROVE StillAllowed' /\ FollowsTable
  <2>1. \A x \in Recommendations : status[x] # None => status'[x] = status[x]
    BY <1>0, <1>1 DEF LifecycleTypeOK, Save, Upserted
  <2>2. request' = request
    BY <1>1 DEF Save
  <2>3. \A a \in Actors : request[a].pc = "write" =>
          status'[request[a].rec] = status[request[a].rec]
    BY <1>0, <2>1 DEF RequestsChecked
  <2> QED BY <2>1, <2>2, <2>3 DEF StillAllowed, FollowsTable, Allowed
<1>2. ASSUME NEW a \in Actors, NEW r \in Recommendations, NEW to \in Statuses, Read(a, r, to)
      PROVE  StillAllowed' /\ FollowsTable
  <2>1. status' = status /\ Allowed(status[r], to)
    BY <1>2 DEF Read
  <2>2. \A b \in Actors :
          request'[b] = IF b = a THEN [pc |-> "write", rec |-> r, to |-> to] ELSE request[b]
    BY <1>0, <1>2 DEF LifecycleTypeOK, Read
  <2> QED BY <2>1, <2>2 DEF StillAllowed, FollowsTable, Allowed
<1>3. ASSUME NEW a \in Actors, Write(a) PROVE StillAllowed' /\ FollowsTable
  <2> DEFINE r == request[a].rec
  <2>1. /\ request[a].pc = "write" /\ r \in Recommendations
        /\ Allowed(status[r], request[a].to)
    BY <1>0, <1>3 DEF Write, RequestsChecked, StillAllowed
  <2>2. \A x \in Recommendations :
          status'[x] = IF x = r THEN request[a].to ELSE status[x]
    BY <1>0, <1>3 DEF LifecycleTypeOK, Write
  <2>3. \A b \in Actors : request'[b].pc = "write" =>
          b # a /\ request'[b] = request[b] /\ request[b].pc = "write"
    BY <1>0, <1>3 DEF LifecycleTypeOK, Write
  <2>4. ASSUME NEW b \in Actors, request'[b].pc = "write"
        PROVE  Allowed(status'[request'[b].rec], request'[b].to)
    <3>1. b # a /\ request'[b] = request[b] /\ request[b].pc = "write"
      BY <2>3, <2>4
    <3>2. request[b].rec \in Recommendations /\ request[b].rec # r
      BY <1>0, <2>1, <3>1 DEF RequestsChecked, OneByOne
    <3>3. status'[request[b].rec] = status[request[b].rec]
      BY <2>2, <3>2
    <3> QED BY <3>1, <3>3 DEF StillAllowed
  <2>5. StillAllowed'
    BY <2>4 DEF StillAllowed, Allowed
  <2>6. FollowsTable
    BY <2>1, <2>2 DEF FollowsTable, Allowed
  <2> QED BY <2>5, <2>6
<1>4. ASSUME NEW a \in Actors, WriteFails(a) \/ Audit(a) \/ AuditFails(a)
      PROVE  StillAllowed' /\ FollowsTable
  <2>1. status' = status /\ request' = [request EXCEPT ![a] = NoPatch]
    BY <1>4 DEF WriteFails, Audit, AuditFails
  <2>2. \A b \in Actors : request'[b].pc = "write" => request'[b] = request[b]
    BY <1>0, <2>1 DEF LifecycleTypeOK, NoPatch
  <2> QED BY <2>1, <2>2 DEF StillAllowed, FollowsTable, Allowed
<1>5. CASE UNCHANGED lifecycleVars
  BY <1>5 DEF lifecycleVars, StillAllowed, Allowed
<1> QED BY <1>1, <1>2, <1>3, <1>4, <1>5 DEF LifecycleNext

(***************************************************************************)
(* What the transition table says of the system is true of it as long as   *)
(* no two requests decide on one row at a time: the overlap of decisions   *)
(* is the only way out of the table, analyses are not.                     *)
(***************************************************************************)
THEOREM TableHoldsOneByOne == LifecycleSpec /\ []OneByOne => TransitionsFollowTable
<1>1. LifecycleInit => StillAllowed
  BY DEF LifecycleInit, NoPatch, StillAllowed
<1> QED BY <1>1, StillAllowedInv, Invariance, PTL
        DEF LifecycleSpec, TransitionsFollowTable, FollowsTable

(***************************************************************************)
(* Every decision written, and every event of the audit trail, is one its  *)
(* actor may make, also those that later decisions have written over.      *)
(***************************************************************************)
THEOREM DecisionsAreAuthorised ==
  LifecycleSpec => [](\A d \in made \cup trail : May(d[3], d[2]) /\ d[2] # "PROPOSED")
<1> DEFINE Authorised == \A d \in made : May(d[3], d[2]) /\ d[2] # "PROPOSED"
<1>1. LifecycleInit => Authorised
  BY DEF LifecycleInit
<1>2. IInv /\ Authorised /\ [LifecycleNext]_lifecycleVars => Authorised'
  <2> SUFFICES ASSUME IInv, Authorised, [LifecycleNext]_lifecycleVars PROVE Authorised'
    OBVIOUS
  <2>1. ASSUME NEW a \in Actors, Write(a) PROVE Authorised'
    <3>1. May(a, request[a].to) /\ request[a].to # "PROPOSED"
      BY <2>1 DEF IInv, RequestsChecked, Write
    <3>2. made' = made \cup {<<request[a].rec, request[a].to, a>>}
      BY <2>1 DEF Write, Decision
    <3> QED BY <3>1, <3>2 DEF May
  <2>2. CASE ~\E a \in Actors : Write(a)
    <3>1. made' = made
      BY <2>2 DEF LifecycleNext, Save, Read, WriteFails, Audit, AuditFails, lifecycleVars
    <3> QED BY <3>1 DEF May
  <2> QED BY <2>1, <2>2
<1>3. IInv /\ Authorised
        => \A d \in made \cup trail : May(d[3], d[2]) /\ d[2] # "PROPOSED"
  BY DEF IInv, TrailMatchesDecisions
<1> QED BY <1>1, <1>2, <1>3, Invariance, PTL DEF LifecycleSpec
=============================================================================
