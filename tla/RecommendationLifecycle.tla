----------------------- MODULE RecommendationLifecycle -----------------------
(***************************************************************************)
(* The life of a recommendation row: analyses upsert it, people decide on  *)
(* it (packages/core/src/index.ts, packages/database/src/repositories/     *)
(* recommendations.ts, PATCH /v1/recommendations/:id/status of the API).   *)
(*                                                                         *)
(* The id of a recommendation is a hash of installation, skill, type and   *)
(* rule version, so every analysis of an installation upserts the same     *)
(* rows; analyses run in the workers and in POST /v1/analyse, all          *)
(* concurrent with decisions.                                              *)
(*                                                                         *)
(* A decision reads the row, checks the transition, and writes the row by  *)
(* its id alone: each is a step of its own, because each is an await.      *)
(*                                                                         *)
(* Abstractions: one tenant (boundIdentity refuses others); Actors are     *)
(* principals with access to the installations, each with one request in   *)
(* progress; the content of a row is left out.  archiveExpired-            *)
(* Recommendations (PROPOSED to EXPIRED in bulk) has no caller in the      *)
(* repository and is not a step of the system.                             *)
(***************************************************************************)
EXTENDS FiniteSets

CONSTANTS
  Recommendations,   \* recommendation ids
  Actors,            \* principals that decide
  Permissions,       \* Permissions[a]: what principal a may do
  None               \* no row, no request, no actor

Statuses == {"PROPOSED", "ACKNOWLEDGED", "APPROVED", "REJECTED", "EXPIRED",
             "SUPERSEDED", "RESOLVED"}

PermissionNames == {"recommendation:read", "recommendation:acknowledge",
                    "recommendation:approve", "recommendation:reject",
                    "admin:manage"}

ASSUME LifecycleAssumption ==
  /\ Permissions \in [Actors -> SUBSET PermissionNames]
  /\ None \notin Actors \cup Recommendations \cup Statuses

\* The table of packages/core.
transitions ==
  [s \in Statuses |->
     CASE s = "PROPOSED" -> {"ACKNOWLEDGED", "APPROVED", "REJECTED", "EXPIRED",
                             "SUPERSEDED"}
       [] s = "ACKNOWLEDGED" -> {"APPROVED", "REJECTED", "EXPIRED", "RESOLVED"}
       [] s = "APPROVED" -> {"EXPIRED", "RESOLVED"}
       [] OTHER -> {}]

\* The permission the route asks for.
Permission(to) ==
  CASE to = "ACKNOWLEDGED" -> "recommendation:acknowledge"
    [] to = "APPROVED" -> "recommendation:approve"
    [] to = "REJECTED" -> "recommendation:reject"
    [] OTHER -> "recommendation:read"

\* The route's permission check.
May(a, to) == {Permission(to), "admin:manage"} \cap Permissions[a] # {}

VARIABLES
  status,      \* status[r]: status column, None where there is no row
  decidedBy,   \* decidedBy[r]: decisionActorId
  request,     \* request[a]: where the PATCH of actor a is
  made,        \* history: <<r, to, a>> written to the row
  trail,       \* <<r, to, a>>: RECOMMENDATION_STATUS_CHANGED events
  unaudited    \* history: <<r, to, a>> whose audit event could not be written

lifecycleVars == <<status, decidedBy, request, made, trail, unaudited>>

Decisions == Recommendations \X Statuses \X Actors
NoPatch == [pc |-> "idle", rec |-> None, to |-> None]

LifecycleTypeOK ==
  /\ status \in [Recommendations -> Statuses \cup {None}]
  /\ decidedBy \in [Recommendations -> Actors \cup {None}]
  /\ request \in [Actors -> {NoPatch} \cup
                    [pc : {"write", "audit"}, rec : Recommendations,
                     to : Statuses]]
  /\ made \subseteq Decisions
  /\ trail \subseteq Decisions
  /\ unaudited \subseteq Decisions

LifecycleInit ==
  /\ status = [r \in Recommendations |-> None]
  /\ decidedBy = [r \in Recommendations |-> None]
  /\ request = [a \in Actors |-> NoPatch]
  /\ made = {} /\ trail = {} /\ unaudited = {}

\* Mutant: the update branch of the upsert writes the status as well.
UpsertedAfresh(s) == "PROPOSED"
\* The status column after the upsert: create writes PROPOSED, update leaves
\* the column out.
Upserted(s) == IF s = None THEN "PROPOSED" ELSE s

\* saveRecommendations for one recommendation of an analysis.
Save(r) ==
  /\ status' = [status EXCEPT ![r] = Upserted(@)]
  /\ UNCHANGED <<decidedBy, request, made, trail, unaudited>>

\* Mutant: the check is made by the console only.
AnyMove(from, to) == TRUE
\* assertTransition(from, to) does not throw.
Allowed(from, to) == to \in transitions[from]

(***************************************************************************)
(* A PATCH is admitted, finds the row, and its transition is allowed from  *)
(* the status it read.  Refused requests (403, 404, 409) change nothing.   *)
(***************************************************************************)
Read(a, r, to) ==
  /\ request[a].pc = "idle"
  /\ May(a, to)
  /\ status[r] # None
  /\ Allowed(status[r], to)
  /\ request' = [request EXCEPT ![a] = [pc |-> "write", rec |-> r, to |-> to]]
  /\ UNCHANGED <<status, decidedBy, made, trail, unaudited>>

Decision(a) == <<request[a].rec, request[a].to, a>>

\* Mutant: the first actor of a row stays on record.
RecordFirst(first, a) == IF first = None THEN a ELSE first
\* decisionActorId is overwritten together with the status.
Recorded(first, a) == a

\* The update by id: status, actor and comment in one statement.
Write(a) ==
  LET r == request[a].rec
      to == request[a].to
  IN
  /\ request[a].pc = "write"
  /\ status' = [status EXCEPT ![r] = to]
  /\ decidedBy' = [decidedBy EXCEPT ![r] = Recorded(@, a)]
  /\ made' = made \cup {Decision(a)}
  /\ request' = [request EXCEPT ![a] = [pc |-> "audit", rec |-> r, to |-> to]]
  /\ UNCHANGED <<trail, unaudited>>

\* The database refuses or loses the update: the API answers 500.
WriteFails(a) ==
  /\ request[a].pc = "write"
  /\ request' = [request EXCEPT ![a] = NoPatch]
  /\ UNCHANGED <<status, decidedBy, made, trail, unaudited>>

\* writeAuditEvent, and the route answers {updated: true}.
Audit(a) ==
  /\ request[a].pc = "audit"
  /\ trail' = trail \cup {Decision(a)}
  /\ request' = [request EXCEPT ![a] = NoPatch]
  /\ UNCHANGED <<status, decidedBy, made, unaudited>>

\* Mutant: the failed audit event is swallowed, nobody is told.
AuditSwallowed(a) ==
  /\ request[a].pc = "audit"
  /\ request' = [request EXCEPT ![a] = NoPatch]
  /\ UNCHANGED <<status, decidedBy, made, trail, unaudited>>

\* writeAuditEvent rejects, or the API dies before it: the status is written
\* and the caller gets an error.
AuditFails(a) ==
  /\ request[a].pc = "audit"
  /\ unaudited' = unaudited \cup {Decision(a)}
  /\ request' = [request EXCEPT ![a] = NoPatch]
  /\ UNCHANGED <<status, decidedBy, made, trail>>

LifecycleNext ==
  \/ \E r \in Recommendations : Save(r)
  \/ \E a \in Actors, r \in Recommendations, to \in Statuses : Read(a, r, to)
  \/ \E a \in Actors : Write(a) \/ WriteFails(a) \/ Audit(a) \/ AuditFails(a)

LifecycleSpec == LifecycleInit /\ [][LifecycleNext]_lifecycleVars
-----------------------------------------------------------------------------
Undecided == {None, "PROPOSED"}

(***************************************************************************)
(* However often an installation is analysed again, and whatever decisions *)
(* are in progress, a recommendation somebody has decided on never goes    *)
(* back to PROPOSED.                                                       *)
(***************************************************************************)
NothingReopens ==
  [][\A r \in Recommendations :
       status[r] \notin Undecided => status'[r] \notin Undecided]_lifecycleVars

(***************************************************************************)
(* The actor on record may make the decision on record: no interleaving of *)
(* decisions, upserts and failures leaves a row whose decisionActorId      *)
(* lacks the permission the row's status requires.                         *)
(***************************************************************************)
ActorMayDecide ==
  \A r \in Recommendations :
    status[r] \notin Undecided =>
      /\ decidedBy[r] # None
      /\ May(decidedBy[r], status[r])

(***************************************************************************)
(* The audit trail shows decisions that were made, and all of them, except *)
(* those still between the update and the audit event and those whose      *)
(* caller was answered with an error after the update.                     *)
(***************************************************************************)
TrailMatchesDecisions ==
  /\ trail \subseteq made
  /\ \A d \in made \ (trail \cup unaudited) :
       \E a \in Actors : request[a].pc = "audit" /\ Decision(a) = d

Open(r) == {a \in Actors : request[a].pc = "write" /\ request[a].rec = r}

(***************************************************************************)
(* A decision that is settled stays: a terminal status with no other       *)
(* request past its check never changes, not by an upsert and not by a     *)
(* request that arrives later.                                             *)
(***************************************************************************)
Settled(r) == status[r] # None /\ transitions[status[r]] = {} /\ Open(r) = {}

SettledStays ==
  [][\A r \in Recommendations :
       Settled(r) => Settled(r)' /\ status'[r] = status[r]]_lifecycleVars

(***************************************************************************)
(* What the transition table says of the system: the status column only    *)
(* makes the moves the table lists, terminal statuses are final.           *)
(***************************************************************************)
TransitionsFollowTable ==
  [][\A r \in Recommendations :
       status[r] # None /\ status'[r] # status[r]
         => status'[r] \in transitions[status[r]]]_lifecycleVars
=============================================================================
