-------------------------- MODULE InstallationAccess --------------------------
(***************************************************************************)
(* What a user's requests reach: roles and installation access             *)
(* (packages/database/src/repositories/users.ts, fleet.ts), and the routes *)
(* of apps/api/src/server.ts that check them before, or in, their query.   *)
(*                                                                         *)
(* A request takes its permissions from the roles of its session's tenant  *)
(* when it authenticates and keeps them, whatever administrators change    *)
(* meanwhile; check and query are awaits of their own.                     *)
(*                                                                         *)
(* Abstractions: a site (installation) is the record of its tenant,        *)
(* product and external key, and stands for its id; a device, a message or *)
(* a recommendation is the site it belongs to.  Of the roles, "manager"    *)
(* holds admin:manage or installation:manage and "viewer" the permissions  *)
(* to read.  Memberships do not change here (Tenancy), and API keys, bound *)
(* to their product and installation, have no installation access.         *)
(***************************************************************************)
CONSTANTS
  Plants,         \* records [tenant, product, key]
  manager, viewer,\* roles
  NoRef,          \* a parameter left out
  Members,        \* <<t, u>>: tenantMembership
  PlatformUsers,  \* users for whom userIsPlatformOperator
  Changes,        \* administrators' requests
  Requests        \* requests of users

ASSUME AccessAssumption ==
  /\ manager # viewer
  /\ \A m \in Members : m = <<m[1], m[2]>>

VARIABLES
  roles,    \* <<t, u, r>>: membershipRole
  access,   \* <<u, s>>: installationAccess
  trail,    \* audit events
  change,   \* change[c]: the call of an administrator
  route,    \* route[q]: where a request is and what it knows
  reached,  \* reached[q]: sites whose rows it has returned or written
  lost      \* history: events whose write failed after their change

administration == <<roles, access, trail, change, lost>>
accessVars == <<administration, route, reached>>

Roles == {manager, viewer}
Tenants == {m[1] : m \in Members} \cup {s.tenant : s \in Plants}
Refs == Plants \cup {s.key : s \in Plants}  \* an id or an external key
Grants == [kind : {"ROLE_ASSIGNED", "ROLE_REMOVED"}, of : {<<m, r>> : m \in Members, r \in Roles}]
          \cup [kind : {"ACCESS_GRANTED"}, of : {<<m, s>> : m \in Members, s \in Plants}]
NoChange == [pc |-> "idle"]
NewRequest == [pc |-> "new"]

AccessTypeOK ==
  /\ roles \subseteq {<<m[1], m[2], r>> : m \in Members, r \in Roles}
  /\ access \subseteq {<<m[2], s>> : m \in Members, s \in Plants}
  /\ trail \subseteq Grants /\ lost \subseteq Grants
  /\ \A c \in Changes : change[c] # NoChange =>
       change[c].pc \in {"write", "audit"} /\ change[c].event \in Grants
  /\ \A q \in Requests : route[q] # NewRequest =>
       /\ route[q].pc \in {"routed", "check", "site", "stream", "installations", "devices",
                             "recommendations", "feedback", "done"}
       /\ <<route[q].tenant, route[q].user>> \in Members
       /\ route[q].all \in BOOLEAN
       /\ route[q].asked \in Tenants /\ route[q].ref \in Refs \cup {NoRef}
  /\ reached \in [Requests -> SUBSET Plants]

AccessInit ==
  /\ roles = {<<m[1], m[2], viewer>> : m \in Members}
  /\ access = {} /\ trail = {} /\ lost = {}
  /\ change = [c \in Changes |-> NoChange]
  /\ route = [q \in Requests |-> NewRequest]
  /\ reached = [q \in Requests |-> {}]
-----------------------------------------------------------------------------
(***************************************************************************)
(* Administration: the rows it needs are read, its own is written, the     *)
(* event is written.                                                       *)
(***************************************************************************)
Begin(c, event) ==
  /\ change[c] = NoChange
  /\ change' = [change EXCEPT ![c] = [pc |-> "write", event |-> event]]
  /\ UNCHANGED <<roles, access, trail, lost, route, reached>>

\* assignUserRole: the membership and the role exist.
AssignRole(c, m, r) == Begin(c, [kind |-> "ROLE_ASSIGNED", of |-> <<m, r>>])

\* removeUserRole looks at the role only; there may be nothing to remove.
RemoveRole(c, m, r) == Begin(c, [kind |-> "ROLE_REMOVED", of |-> <<m, r>>])

\* grantInstallationAccess: the membership and an installation of its tenant exist.
GrantAccess(c, m, s) ==
  /\ s.tenant = m[1]
  /\ Begin(c, [kind |-> "ACCESS_GRANTED", of |-> <<m, s>>])

WriteRow(c) ==
  LET event == change[c].event
      m == event.of[1]
      role == <<m[1], m[2], event.of[2]>> IN
  /\ change[c].pc = "write"
  /\ change' = [change EXCEPT ![c].pc = "audit"]
  /\ roles' = CASE event.kind = "ROLE_ASSIGNED" -> roles \cup {role}
                [] event.kind = "ROLE_REMOVED" -> roles \ {role}
                [] OTHER -> roles
  /\ access' = IF event.kind = "ACCESS_GRANTED" THEN access \cup {<<m[2], event.of[2]>>}
               ELSE access
  /\ UNCHANGED <<trail, lost, route, reached>>

\* writeAuditEvent.
WriteEvent(c) ==
  /\ change[c].pc = "audit"
  /\ trail' = trail \cup {change[c].event}
  /\ change' = [change EXCEPT ![c] = NoChange]
  /\ UNCHANGED <<roles, access, lost, route, reached>>

\* The write of the row, or of the event, is rejected.
ChangeFails(c) ==
  /\ change[c] # NoChange
  /\ lost' = IF change[c].pc = "audit" THEN lost \cup {change[c].event} ELSE lost
  /\ change' = [change EXCEPT ![c] = NoChange]
  /\ UNCHANGED <<roles, access, trail, route, reached>>
-----------------------------------------------------------------------------
\* Roles of a session: those of its tenant only.
RolesIn(t, u) == {r \in Roles : <<t, u, r>> \in roles}

\* Mutant: a manager of one tenant is one everywhere.
ManagerAnywhere(t, u) ==
  u \in PlatformUsers \/ \E m \in Members : m[2] = u /\ manager \in RolesIn(m[1], u)
\* unrestrictedInstallationAccess
Unrestricted(t, u) == u \in PlatformUsers \/ manager \in RolesIn(t, u)

\* resolveSession and requirePermission, for a route that reads.
Authenticate(q, m) ==
  LET t == m[1] u == m[2] IN
  /\ route[q] = NewRequest
  /\ u \in PlatformUsers \/ RolesIn(t, u) # {}
  /\ route' = [route EXCEPT ![q] =
       [pc |-> "routed", tenant |-> t, user |-> u, all |-> Unrestricted(t, u),
        asked |-> t, product |-> NoRef, ref |-> NoRef, next |-> "done"]]
  /\ UNCHANGED <<administration, reached>>

\* assertIdentityBinding, for a session.
Bound(q, t) == route[q].user \in PlatformUsers \/ route[q].tenant = t

\* boundIdentity; the routes of the principal's own tenant pass.
Routes(q, pc, t, product, ref, next) ==
  /\ route[q].pc = "routed"
  /\ Bound(q, t)
  /\ route' = [route EXCEPT ![q].pc = pc, ![q].asked = t, ![q].product = product,
                                ![q].ref = ref, ![q].next = next]
  /\ UNCHANGED <<administration, reached>>

\* GET /v1/telemetry
Telemetry(q, t, product, key) == Routes(q, "check", t, product, key, "site")

\* POST /v1/analysis reads, and saves, the rows of a site.
Analysis(q, t, product, key) == Routes(q, "check", t, product, key, "site")

\* GET /v1/telemetry/stream
Stream(q, t, product, key) == Routes(q, "check", t, product, key, "stream")

\* GET /v1/installations, of the principal's tenant.
Installations(q) ==
  Routes(q, "installations", route[q].tenant, NoRef, NoRef, "installations")

\* GET /v1/devices and /v1/assets, with or without an installation.
Devices(q, ref) ==
  Routes(q, IF ref = NoRef THEN "devices" ELSE "check", route[q].tenant, NoRef, ref, "devices")

\* GET /v1/recommendations: a key is refused without its product.
Recommendations(q, t, product, key) ==
  /\ product = NoRef => key = NoRef
  /\ Routes(q, "recommendations", t, product, key, "recommendations")

\* POST /v1/recommendations/:id/feedback
Feedback(q, t, s) == Routes(q, "check", t, NoRef, s, "feedback")
-----------------------------------------------------------------------------
\* hasInstallationAccess, by id or by external key.
HasAccess(t, u, ref) ==
  \E s \in Plants : <<u, s>> \in access /\ s.tenant = t /\ ref \in {s, s.key}

\* hasRecommendationAccess
HasRecommendationAccess(t, u, s) == <<u, s>> \in access /\ s.tenant = t

\* canAccessInstallation
Check(q) ==
  LET r == route[q] IN
  /\ r.pc = "check" /\ r.next # "feedback"
  /\ route' = [route EXCEPT ![q].pc =
       IF r.all \/ HasAccess(r.tenant, r.user, r.ref) THEN r.next ELSE "done"]
  /\ UNCHANGED <<administration, reached>>

\* canAccessRecommendation
CheckRecommendation(q) ==
  LET r == route[q] IN
  /\ r.pc = "check" /\ r.next = "feedback"
  /\ route' = [route EXCEPT ![q].pc =
       IF r.all \/ HasRecommendationAccess(r.tenant, r.user, r.ref)
       THEN "feedback" ELSE "done"]
  /\ UNCHANGED <<administration, reached>>

Reaches(q, sites, pc) ==
  /\ reached' = [reached EXCEPT ![q] = @ \cup sites]
  /\ route' = [route EXCEPT ![q].pc = pc]
  /\ UNCHANGED administration

Named(q) == {s \in Plants : /\ s.tenant = route[q].asked
                           /\ s.product = route[q].product /\ s.key = route[q].ref}

\* listTelemetryForInstallation: by tenant, product and key.
ReadSite(q) == route[q].pc = "site" /\ Reaches(q, Named(q), "done")

\* The stream reads every five seconds until the client closes it.
Sends(q) == route[q].pc = "stream" /\ \E pc \in {"stream", "done"} : Reaches(q, Named(q), pc)

Tenantwide(q) == {s \in Plants : s.tenant = route[q].asked}
\* The filter on accessScopes of every list.
InScope(q) ==
  {s \in Tenantwide(q) : route[q].all \/ <<route[q].user, s>> \in access}

\* listInstallations
ListInstallations(q) == route[q].pc = "installations" /\ Reaches(q, InScope(q), "done")

\* listDevices and listAssets filter on the id; a key finds nothing.
ListDevices(q) ==
  /\ route[q].pc = "devices"
  /\ Reaches(q, {s \in InScope(q) : route[q].ref \in {NoRef, s}}, "done")

\* listRecommendations
ListRecommendations(q) ==
  LET r == route[q] IN
  /\ r.pc = "recommendations"
  /\ Reaches(q, {s \in InScope(q) : r.product \in {NoRef, s.product} /\ r.ref \in {NoRef, s.key}},
             "done")

\* recordRecommendationFeedback: the recommendation must be of the tenant asked for.
RecordFeedback(q) ==
  /\ route[q].pc = "feedback"
  /\ Reaches(q, {route[q].ref} \cap Tenantwide(q), "done")

RouteNext(q) ==
  \/ Installations(q)
  \/ \E ref \in Refs \cup {NoRef} : Devices(q, ref)
  \/ \E t \in Tenants, site \in Plants :
       \/ Telemetry(q, t, site.product, site.key)
       \/ Analysis(q, t, site.product, site.key)
       \/ Stream(q, t, site.product, site.key)
       \/ Feedback(q, t, site)
       \/ \E product \in {site.product, NoRef}, key \in {site.key, NoRef} :
            Recommendations(q, t, product, key)

AccessNext ==
  \/ \E c \in Changes, m \in Members :
       \/ \E r \in Roles : AssignRole(c, m, r) \/ RemoveRole(c, m, r)
       \/ \E s \in Plants : GrantAccess(c, m, s)
  \/ \E c \in Changes : WriteRow(c) \/ WriteEvent(c) \/ ChangeFails(c)
  \/ \E q \in Requests, m \in Members : Authenticate(q, m)
  \/ \E q \in Requests :
       \/ RouteNext(q) \/ Check(q) \/ CheckRecommendation(q) \/ ReadSite(q) \/ Sends(q)
       \/ ListInstallations(q) \/ ListDevices(q) \/ ListRecommendations(q)
       \/ RecordFeedback(q)

AccessSpec == AccessInit /\ [][AccessNext]_accessVars
-----------------------------------------------------------------------------
\* Events on record, about to be, or reported as failed.
OnRecord == trail \cup lost \cup {change[c].event : c \in {d \in Changes : change[d].pc = "audit"}}

\* u was once made a manager of the site's tenant, or given access to the site.
Explained(u, s) ==
  \/ [kind |-> "ROLE_ASSIGNED", of |-> <<<<s.tenant, u>>, manager>>] \in OnRecord
  \/ [kind |-> "ACCESS_GRANTED", of |-> <<<<s.tenant, u>>, s>>] \in OnRecord

Accounted(q, s) == route[q].user \in PlatformUsers \/ Explained(route[q].user, s)

(***************************************************************************)
(* The audit trail explains what the lists and the feedback route reach:   *)
(* whoever was returned, or wrote, rows of a site there is a platform      *)
(* operator, or was made a manager of that site's tenant, or was given     *)
(* access to that very site.  However changes, checks and queries          *)
(* interleave, only an event whose own write was rejected is missing.      *)
(* The routes that check an external key are not among them: see           *)
(* ReachedIsGranted.                                                       *)
(***************************************************************************)
ReachedIsExplained ==
  \A q \in Requests : \A s \in reached[q] :
    route[q].next \notin {"site", "stream"} => Accounted(q, s)

(***************************************************************************)
(* The same of every route, as docs/API.md has it: product, installation   *)
(* and the user's grants are checked before lookup.  The code breaks it:   *)
(* hasInstallationAccess compares the tenant and the external key, which   *)
(* is unique within a product only, and the rows are then looked up with   *)
(* the product the request names; a grant on the site of one product       *)
(* reads the site of another with the same key.                            *)
(***************************************************************************)
ReachedIsGranted == \A q \in Requests : \A s \in reached[q] : Accounted(q, s)
=============================================================================
