------------------------------ MODULE Incidents ------------------------------
(***************************************************************************)
(* SLA incidents (packages/database/src/repositories/incidents.ts, routes  *)
(* /v1/incidents of the API).                                              *)
(*                                                                         *)
(* An update reads the row, checks the transition, and writes the whole    *)
(* row back by its id: status, assignee, the comments column with its own  *)
(* comment appended, and the three dates.  The audit event is a statement  *)
(* of its own.  Updates interleave at every await.                         *)
(*                                                                         *)
(* Abstractions: one tenant; each member of Updates is one POST or PATCH   *)
(* and stands for its comment and for the date it would write; title,      *)
(* severity and links are left out.                                        *)
(***************************************************************************)
EXTENDS FiniteSets

CONSTANTS
  IncidentIds,   \* ids the database may give
  Updates,       \* requests
  Users,         \* whom an incident may be assigned to
  NoValue         \* no row, no field

IncidentStatuses == {"OPEN", "ACKNOWLEDGED", "ASSIGNED", "INVESTIGATING",
                     "MITIGATED", "RESOLVED", "POST_INCIDENT_REVIEW"}

\* ALLOWED_TRANSITIONS.
AllowedTransitions ==
  [s \in IncidentStatuses |->
     CASE s = "OPEN" -> {"ACKNOWLEDGED", "ASSIGNED", "INVESTIGATING"}
       [] s = "ACKNOWLEDGED" -> {"ASSIGNED", "INVESTIGATING", "MITIGATED"}
       [] s = "ASSIGNED" -> {"INVESTIGATING", "MITIGATED"}
       [] s = "INVESTIGATING" -> {"MITIGATED", "RESOLVED", "ASSIGNED"}
       [] s = "MITIGATED" -> {"RESOLVED", "INVESTIGATING"}
       [] s = "RESOLVED" -> {"POST_INCIDENT_REVIEW"}
       [] OTHER -> {}]

UpdateDates == Updates \cup {NoValue}
IncidentRows == [status : IncidentStatuses, assignee : Users \cup {NoValue},
         comments : SUBSET Updates,
         acknowledgedAt : UpdateDates, mitigatedAt : UpdateDates, resolvedAt : UpdateDates]

ASSUME IncidentAssumption ==
  NoValue \notin IncidentIds \cup Updates \cup Users \cup IncidentRows

VARIABLES
  incident,   \* incident[i]: the row, NoValue where there is none
  update,     \* update[u]: where request u is, and the row it read
  unseen,     \* history: unseen[u]: updates of the row since u read it
  written,    \* history: <<u, i>>, u has written incident i
  log         \* <<u, i>>: INCIDENT_OPENED and INCIDENT_UPDATED events

incidentVars == <<incident, update, unseen, written, log>>

Unsent == [pc |-> "idle"]
Answered == [pc |-> "done"]
Writing == [pc : {"write"}, inc : IncidentIds, row : IncidentRows, to : IncidentStatuses,
            assignee : Users \cup {NoValue}, comment : BOOLEAN]
Auditing == [pc : {"audit"}, inc : IncidentIds]

IncidentTypeOK ==
  /\ incident \in [IncidentIds -> IncidentRows \cup {NoValue}]
  /\ update \in [Updates -> {Unsent, Answered} \cup Writing \cup Auditing]
  /\ unseen \in [Updates -> SUBSET Updates]
  /\ written \subseteq Updates \X IncidentIds
  /\ log \subseteq Updates \X IncidentIds

IncidentInit ==
  /\ incident = [i \in IncidentIds |-> NoValue]
  /\ update = [u \in Updates |-> Unsent]
  /\ unseen = [u \in Updates |-> {}]
  /\ written = {} /\ log = {}

UpdateAt(u, pc) == update[u].pc = pc

\* createIncident: the row, then (IncidentAudit) its event.
CreateIncident(u, i) ==
  /\ UpdateAt(u, "idle")
  /\ incident[i] = NoValue
  /\ incident' = [incident EXCEPT ![i] =
       [status |-> "OPEN", assignee |-> NoValue, comments |-> {},
        acknowledgedAt |-> NoValue, mitigatedAt |-> NoValue, resolvedAt |-> NoValue]]
  /\ update' = [update EXCEPT ![u] = [pc |-> "audit", inc |-> i]]
  /\ UNCHANGED <<unseen, written, log>>

\* input.status ?? existing.status, when the transition is one of the table's.
MoveAllowed(row, to) == to = row.status \/ to \in AllowedTransitions[row.status]

(***************************************************************************)
(* updateIncident up to its update: the row is found and the move allowed  *)
(* (404 and 409 otherwise, and nothing changes).                           *)
(***************************************************************************)
ReadIncident(u, i, to, who, comment) ==
  /\ UpdateAt(u, "idle")
  /\ incident[i] # NoValue
  /\ MoveAllowed(incident[i], to)
  /\ update' = [update EXCEPT ![u] =
       [pc |-> "write", inc |-> i, row |-> incident[i], to |-> to,
        assignee |-> who, comment |-> comment]]
  /\ unseen' = [unseen EXCEPT ![u] = {}]
  /\ UNCHANGED <<incident, written, log>>

\* Mutant: the column is replaced, not appended to.
OwnCommentOnly(u) == IF update[u].comment THEN {u} ELSE {}
\* [...existing.comments] and the update's own.
Comments(u) ==
  update[u].row.comments \cup IF update[u].comment THEN {u} ELSE {}

\* existing.xAt ?? new Date(), when the status asks for a date.
Stamped(u, field, statuses) ==
  IF update[u].to \in statuses /\ update[u].row[field] = NoValue
  THEN u ELSE update[u].row[field]

\* The data of the update.
NextRow(u) ==
  [status |-> update[u].to,
   assignee |-> IF update[u].assignee = NoValue THEN update[u].row.assignee
                ELSE update[u].assignee,
   comments |-> Comments(u),
   acknowledgedAt |-> Stamped(u, "acknowledgedAt", {"ACKNOWLEDGED"}),
   mitigatedAt |-> Stamped(u, "mitigatedAt", {"MITIGATED"}),
   resolvedAt |-> Stamped(u, "resolvedAt", {"RESOLVED", "POST_INCIDENT_REVIEW"})]

Holds(u, i) == UpdateAt(u, "write") /\ update[u].inc = i

\* The update by id.
WriteIncident(u) ==
  LET i == update[u].inc IN
  /\ UpdateAt(u, "write")
  /\ incident' = [incident EXCEPT ![i] = NextRow(u)]
  /\ written' = IF update[u].comment THEN written \cup {<<u, i>>} ELSE written
  /\ unseen' = [v \in Updates |->
                  IF v # u /\ Holds(v, i) THEN unseen[v] \cup {u} ELSE unseen[v]]
  /\ update' = [update EXCEPT ![u] = [pc |-> "audit", inc |-> i]]
  /\ UNCHANGED log

\* writeAuditEvent, and the route answers.
IncidentAudit(u) ==
  /\ UpdateAt(u, "audit")
  /\ log' = log \cup {<<u, update[u].inc>>}
  /\ update' = [update EXCEPT ![u] = Answered]
  /\ UNCHANGED <<incident, unseen, written>>

\* An await rejects or the API dies: what is written stays.
UpdateFails(u) ==
  /\ UpdateAt(u, "write") \/ UpdateAt(u, "audit")
  /\ unseen' = IF UpdateAt(u, "write") THEN [unseen EXCEPT ![u] = {}] ELSE unseen
  /\ update' = [update EXCEPT ![u] = Answered]
  /\ UNCHANGED <<incident, written, log>>

IncidentNext ==
  \E u \in Updates :
    \/ \E i \in IncidentIds : CreateIncident(u, i)
    \/ \E i \in IncidentIds, to \in IncidentStatuses,
          who \in Users \cup {NoValue}, comment \in BOOLEAN :
         ReadIncident(u, i, to, who, comment)
    \/ WriteIncident(u)
    \/ IncidentAudit(u)
    \/ UpdateFails(u)

IncidentSpec == IncidentInit /\ [][IncidentNext]_incidentVars
-----------------------------------------------------------------------------
\* Somebody who had read the incident before u wrote it has written it since.
Overwritten(u) == \E v \in Updates : u \in unseen[v] /\ ~UpdateAt(v, "write")

(***************************************************************************)
(* A comment that was written is on the incident, unless another update    *)
(* had read the row before and wrote it after: comments are lost by        *)
(* overlapping updates and by nothing else.                                *)
(***************************************************************************)
CommentsKept ==
  \A w \in written :
    \/ w[1] \in incident[w[2]].comments
    \/ Overwritten(w[1])
=============================================================================
