------------------------------- MODULE Tenancy -------------------------------
(***************************************************************************)
(* Tenants from provisioning to hard deletion: operations.ts,              *)
(* platform-operators.ts, the provisioning of installations.ts and the     *)
(* memberships of users.ts (packages/database/src/repositories).           *)
(*                                                                         *)
(* Offboarding is an audit event and then a transaction; deletion reads    *)
(* roles and members, deletes everything in a transaction, and then the    *)
(* users in a statement of its own; the grants of a platform operator are  *)
(* three upserts per tenant.  All of it interleaves at every await.        *)
(*                                                                         *)
(* Abstractions: of a tenant's rows, those that other steps look at: its   *)
(* product and installation in one, its platform role, memberships, grants *)
(* and TENANT_OFFBOARDED events.  The database's foreign keys refuse a row *)
(* without its parent, and a deletion that leaves one.                     *)
(***************************************************************************)
EXTENDS Naturals

CONSTANTS
  TenantIds, Persons,
  TenantCalls    \* requests and jobs in progress at once

VARIABLES
  tenant,        \* tenant[t]: "none", "live" or "archived" (archivedAt)
  installation,  \* installation[t]: "none", "ACTIVE" or "ARCHIVED"
  identity,      \* tenants in the identity cache of the process
  person,        \* person[u]: "none" (not yet invited), "there" or "deleted"
  member,        \* <<t, u>>: tenantMembership
  role,          \* tenants with the platform role
  grant,         \* <<t, u>>: u has the platform role of t
  offboarded,    \* offboarded[t]: its TENANT_OFFBOARDED events, "young" or "old"
  work,          \* work[k]: where a call is and what it has read
  owed,          \* history: users that a deletion left without a tenant
  unlisted,      \* history: those of them who joined after it had listed its members
  overtaken      \* history: tenants deleted between the statements of an offboarding

places == <<tenant, installation, identity>>
people == <<person, member, role, grant>>
history == <<owed, unlisted, overtaken>>
tenancyVars == <<places, people, offboarded, work, history>>

Pairs == TenantIds \X Persons
Steps == {"idle", "installation", "provision", "install", "sync", "each", "join", "grant",
          "invite", "offboard", "roles", "members", "drop", "users", "retain"}

TenancyTypeOK ==
  /\ tenant \in [TenantIds -> {"none", "live", "archived"}]
  /\ installation \in [TenantIds -> {"none", "ACTIVE", "ARCHIVED"}]
  /\ identity \subseteq TenantIds
  /\ person \in [Persons -> {"none", "there", "deleted"}]
  /\ member \subseteq Pairs /\ role \subseteq TenantIds /\ grant \subseteq Pairs
  /\ offboarded \in [TenantIds -> SUBSET {"young", "old"}]
  /\ work \in [TenantCalls ->
       [pc : Steps, on : TenantIds \cup {0}, deletes : BOOLEAN, todo : SUBSET Pairs,
        old : SUBSET TenantIds, roles : BOOLEAN, members : SUBSET Persons,
        before : SUBSET Persons]]
  /\ owed \subseteq Persons /\ unlisted \subseteq Persons /\ overtaken \subseteq TenantIds

NoWork == [pc |-> "idle", on |-> 0, deletes |-> FALSE, todo |-> {}, old |-> {},
           roles |-> FALSE, members |-> {}, before |-> {}]

\* A seeded database: a person operates the tenants there are.
TenancyInit ==
  \E seeded \in SUBSET TenantIds, u \in Persons :
    /\ tenant = [t \in TenantIds |-> IF t \in seeded THEN "live" ELSE "none"]
    /\ installation = [t \in TenantIds |-> IF t \in seeded THEN "ACTIVE" ELSE "none"]
    /\ identity = {}
    /\ person = [v \in Persons |-> IF v = u THEN "there" ELSE "none"]
    /\ member = seeded \X {u} /\ role = seeded /\ grant = seeded \X {u}
    /\ offboarded = [t \in TenantIds |-> {}]
    /\ work = [k \in TenantCalls |-> NoWork]
    /\ owed = {} /\ unlisted = {} /\ overtaken = {}

Is(k, pc) == work[k].pc = pc
Sets(k, w) == work' = [work EXCEPT ![k] = w]
Moves(k, pc) == Sets(k, [work[k] EXCEPT !.pc = pc])
Ends(k) == Sets(k, NoWork)

\* A read finds nothing, a constraint refuses, the connection fails: the call is over.
WorkFails(k) ==
  /\ ~Is(k, "idle")
  /\ owed' = IF Is(k, "users") THEN owed \ work[k].before ELSE owed
  /\ Ends(k)
  /\ UNCHANGED <<places, people, offboarded, unlisted, overtaken>>
-----------------------------------------------------------------------------
(***************************************************************************)
(* resolveInstallationIdentity: an identity in the cache answers; else the *)
(* tenant must be live, and then the installation not archived.            *)
(***************************************************************************)
ResolveTenant(k, t) ==
  /\ Is(k, "idle") /\ t \notin identity
  /\ Sets(k, [NoWork EXCEPT !.on = t,
       !.pc = IF tenant[t] = "live" THEN "installation" ELSE "provision"])
  /\ UNCHANGED <<places, people, history, offboarded>>

ResolveInstallation(k) ==
  LET t == work[k].on IN
  /\ Is(k, "installation")
  /\ IF installation[t] = "ACTIVE"
     THEN identity' = identity \cup {t} /\ Ends(k)
     ELSE identity' = identity /\ Moves(k, "provision")
  /\ UNCHANGED <<people, history, tenant, installation, offboarded>>

\* IDENTITY_CACHE_MS later.
ForgetIdentity(t) ==
  /\ t \in identity
  /\ identity' = identity \ {t}
  /\ UNCHANGED <<people, history, tenant, installation, offboarded, work>>

\* ensureInstallationIdentity, where identities are provisioned: the tenant...
ProvisionTenant(k) ==
  LET t == work[k].on IN
  /\ Is(k, "provision")
  /\ tenant' = [tenant EXCEPT ![t] = IF @ = "none" THEN "live" ELSE @]
  /\ Moves(k, "install")
  /\ UNCHANGED <<people, history, installation, identity, offboarded>>

\* ...its installation, ACTIVE again if it was archived...
ProvisionInstallation(k) ==
  LET t == work[k].on IN
  /\ Is(k, "install") /\ tenant[t] # "none"
  /\ installation' = [installation EXCEPT ![t] = "ACTIVE"]
  /\ Moves(k, "sync")
  /\ UNCHANGED <<people, history, tenant, identity, offboarded>>

Operators == {p[2] : p \in grant}

\* ...and syncPlatformOperatorsToTenant, which lists the operators.
SyncOperators(k) ==
  /\ Is(k, "sync")
  /\ Sets(k, [work[k] EXCEPT !.pc = "each", !.todo = {work[k].on} \X Operators])
  /\ UNCHANGED <<places, people, history, offboarded>>
-----------------------------------------------------------------------------
Live == {t \in TenantIds : tenant[t] = "live"}

\* grantPlatformOperatorOnAllTenants, at an operator's login and in the seed.
GrantAll(k, u) ==
  /\ Is(k, "idle") /\ person[u] = "there" /\ u \in Operators
  /\ Sets(k, [NoWork EXCEPT !.pc = "each", !.todo = Live \X {u}])
  /\ UNCHANGED <<places, people, history, offboarded>>

\* grantPlatformOperatorOnTenant for an operator who logs in at, or switches to, a
\* tenant: archived or not.
GrantOne(k, u, t) ==
  /\ Is(k, "idle") /\ person[u] = "there" /\ u \in Operators
  /\ Sets(k, [NoWork EXCEPT !.pc = "each", !.todo = {<<t, u>>}])
  /\ UNCHANGED <<places, people, history, offboarded>>

\* The loop of grants ends.
GrantsDone(k) ==
  /\ Is(k, "each") /\ work[k].todo = {}
  /\ Ends(k)
  /\ UNCHANGED <<places, people, history, offboarded>>

\* grantPlatformOperatorOnTenant: the role with its permissions...
EnsureRole(k, p) ==
  /\ Is(k, "each") /\ p \in work[k].todo /\ tenant[p[1]] # "none"
  /\ role' = role \cup {p[1]}
  /\ Moves(k, "join")
  /\ UNCHANGED <<places, history, person, member, grant, offboarded>>

\* Rows of a membership: the tenant and the user are there.
Joins(p) ==
  /\ tenant[p[1]] # "none" /\ person[p[2]] = "there"
  /\ member' = member \cup {p}
  /\ owed' = owed \ {p[2]} /\ unlisted' = unlisted \ {p[2]}

\* ...the membership...
EnsureMember(k, p) ==
  /\ Is(k, "join") /\ p \in work[k].todo /\ p[1] \in role
  /\ Joins(p)
  /\ Moves(k, "grant")
  /\ UNCHANGED <<places, person, role, grant, offboarded, overtaken>>

\* ...and the member's role.
EnsureGrant(k, p) ==
  /\ Is(k, "grant") /\ p \in work[k].todo
  /\ p \in member /\ p[1] \in role
  /\ grant' = grant \cup {p}
  /\ Sets(k, [work[k] EXCEPT !.pc = "each", !.todo = @ \ {p}])
  /\ UNCHANGED <<places, history, person, member, role, offboarded>>

\* inviteUser: the user...
InvitePerson(k, t, u) ==
  /\ Is(k, "idle") /\ person[u] # "deleted"
  /\ person' = [person EXCEPT ![u] = "there"]
  /\ Sets(k, [NoWork EXCEPT !.pc = "invite", !.todo = {<<t, u>>}])
  /\ UNCHANGED <<places, history, member, role, grant, offboarded>>

\* ...and the membership.
InviteMember(k, p) ==
  /\ Is(k, "invite") /\ p \in work[k].todo
  /\ Joins(p)
  /\ Ends(k)
  /\ UNCHANGED <<places, person, role, grant, offboarded, overtaken>>

\* removeUserRole.
RemoveGrant(p) ==
  /\ grant' = grant \ {p} /\ p \in grant
  /\ UNCHANGED <<places, history, person, member, role, offboarded, work>>
-----------------------------------------------------------------------------
(***************************************************************************)
(* offboardTenant: the audit event...                                      *)
(***************************************************************************)
OffboardAudit(k, t, deletes) ==
  /\ Is(k, "idle") /\ tenant[t] # "none"
  /\ offboarded' = [offboarded EXCEPT ![t] = @ \cup {"young"}]
  /\ overtaken' = overtaken \ {t}
  /\ Sets(k, [NoWork EXCEPT !.pc = "offboard", !.on = t, !.deletes = deletes])
  /\ UNCHANGED <<places, people, owed, unlisted>>

\* ...and the transaction.  DELETE /v1/tenant goes on with the deletion.
OffboardCommit(k) ==
  LET t == work[k].on IN
  /\ Is(k, "offboard") /\ tenant[t] # "none"
  /\ tenant' = [tenant EXCEPT ![t] = "archived"]
  /\ installation' = [installation EXCEPT ![t] = IF @ = "none" THEN @ ELSE "ARCHIVED"]
  /\ IF work[k].deletes THEN Moves(k, "roles") ELSE Ends(k)
  /\ UNCHANGED <<people, history, identity, offboarded>>

\* deleteOffboardedTenant: the tenant is archived, its roles are read...
ReadRoles(k) ==
  LET t == work[k].on IN
  /\ Is(k, "roles") /\ tenant[t] = "archived"
  /\ Sets(k, [work[k] EXCEPT !.pc = "members", !.roles = t \in role])
  /\ UNCHANGED <<places, people, history, offboarded>>

BelongsElsewhere(t, u) == \E s \in TenantIds \ {t} : <<s, u>> \in member

\* Those who are in no other tenant at this moment; as a mutant, all that is read.
ExclusiveMembers(t) == {u \in Persons : <<t, u>> \in member /\ ~BelongsElsewhere(t, u)}
\* tenantMembership.findMany: userIds.
MembersRead(t) == {u \in Persons : <<t, u>> \in member}

\* ...its members...
ReadMembers(k) ==
  /\ Is(k, "members")
  /\ Sets(k, [work[k] EXCEPT !.pc = "drop", !.members = MembersRead(work[k].on),
                             !.before = {u \in Persons : <<work[k].on, u>> \in member}])
  /\ UNCHANGED <<places, people, history, offboarded>>

Without(pairs, t) == {p \in pairs : p[1] # t}

\* ...all its rows go in a transaction, which a role that came since refuses...
DropTenant(k) ==
  LET t == work[k].on IN
  /\ Is(k, "drop") /\ tenant[t] # "none"
  /\ t \in role => work[k].roles
  /\ tenant' = [tenant EXCEPT ![t] = "none"]
  /\ installation' = [installation EXCEPT ![t] = "none"]
  /\ offboarded' = [offboarded EXCEPT ![t] = {}]
  /\ member' = Without(member, t) /\ grant' = Without(grant, t)
  /\ role' = role \ {t}
  /\ owed' = owed \cup ExclusiveMembers(t)
  /\ unlisted' = unlisted \cup (ExclusiveMembers(t) \ work[k].before)
  /\ overtaken' = IF \E j \in TenantCalls : Is(j, "offboard") /\ work[j].on = t
                  THEN overtaken \cup {t} ELSE overtaken
  /\ Moves(k, "users")
  /\ UNCHANGED <<identity, person>>

\* ...and then the users who have no membership left.
DeleteUsers(k) ==
  /\ Is(k, "users")
  /\ person' = [u \in Persons |->
       IF u \in work[k].members /\ \A t \in TenantIds : <<t, u>> \notin member
       THEN "deleted" ELSE person[u]]
  /\ Ends(k)
  /\ UNCHANGED <<places, history, member, role, grant, offboarded>>
-----------------------------------------------------------------------------
\* Mutant: every tenant, archived or not.
EveryTenant == {t \in TenantIds : tenant[t] # "none"}
\* tenant.findMany with archivedAt: null.
RetainedTenants == Live

\* runRetentionJobs: the tenants, and what is older than the cut-off now...
StartRetention(k) ==
  /\ Is(k, "idle")
  /\ Sets(k, [NoWork EXCEPT !.pc = "retain",
                !.old = {t \in RetainedTenants : "old" \in offboarded[t]}])
  /\ UNCHANGED <<places, people, history, offboarded>>

\* ...goes tenant by tenant.  Rows of telemetry and recommendations are archived with it.
Retain(k, t) ==
  /\ Is(k, "retain") /\ t \in work[k].old
  /\ offboarded' = [offboarded EXCEPT ![t] = @ \ {"old"}]
  /\ Sets(k, [work[k] EXCEPT !.old = @ \ {t}])
  /\ UNCHANGED <<places, people, history>>

RetentionDone(k) ==
  /\ Is(k, "retain") /\ work[k].old = {}
  /\ Ends(k)
  /\ UNCHANGED <<places, people, history, offboarded>>

\* auditRetentionDays pass: far longer than an offboarding or a job takes.
EventsAge(t) ==
  /\ offboarded[t] # {}
  /\ \A k \in TenantCalls : ~Is(k, "retain") /\ ~(Is(k, "offboard") /\ work[k].on = t)
  /\ offboarded' = [offboarded EXCEPT ![t] = {"old"}]
  /\ UNCHANGED <<places, people, history, work>>

\* Telemetry arrives: saveTelemetryEnvelope and the ingest routes ask for the identity.
IdentityCalls(k) ==
  \/ \E t \in TenantIds : ResolveTenant(k, t)
  \/ ResolveInstallation(k)
  \/ ProvisionTenant(k) \/ ProvisionInstallation(k) \/ SyncOperators(k)

MembershipCalls(k) ==
  \/ \E u \in Persons : GrantAll(k, u)
  \/ GrantsDone(k)
  \/ \E p \in Pairs : EnsureRole(k, p) \/ EnsureMember(k, p) \/ EnsureGrant(k, p)
  \/ \E t \in TenantIds, u \in Persons : GrantOne(k, u, t) \/ InvitePerson(k, t, u)
  \/ \E p \in Pairs : InviteMember(k, p)

OffboardingCalls(k) ==
  \/ \E t \in TenantIds, deletes \in BOOLEAN : OffboardAudit(k, t, deletes)
  \/ OffboardCommit(k)
  \/ ReadRoles(k) \/ ReadMembers(k) \/ DropTenant(k) \/ DeleteUsers(k)

RetentionCalls(k) ==
  StartRetention(k) \/ (\E t \in TenantIds : Retain(k, t)) \/ RetentionDone(k)

TenancyNext ==
  \/ \E k \in TenantCalls :
       \/ IdentityCalls(k) \/ MembershipCalls(k) \/ OffboardingCalls(k)
       \/ RetentionCalls(k) \/ WorkFails(k)
  \/ \E t \in TenantIds : ForgetIdentity(t) \/ EventsAge(t)
  \/ \E p \in Pairs : RemoveGrant(p)

TenancySpec == TenancyInit /\ [][TenancyNext]_tenancyVars
-----------------------------------------------------------------------------
(***************************************************************************)
(* An offboarded tenant has its TENANT_OFFBOARDED event for as long as it  *)
(* has rows: whatever fails between the event and the transaction, and     *)
(* whatever retention was doing meanwhile; unless the tenant was deleted   *)
(* and provisioned again between the two.                                  *)
(***************************************************************************)
OffboardingIsOnRecord ==
  \A t \in TenantIds : tenant[t] = "archived" => offboarded[t] # {} \/ t \in overtaken

(***************************************************************************)
(* A user whose last membership goes with a deleted tenant goes with it,   *)
(* also when two of a user's tenants are deleted at once; with two         *)
(* exceptions.  The deletion may fail between its transaction and its last *)
(* statement; and it deletes only users it had listed, so whoever became a *)
(* member between that read and the transaction loses the membership and   *)
(* stays, in no tenant (operations.ts:194-232).                            *)
(***************************************************************************)
UsersLeaveWithTenant ==
  \A u \in owed \ unlisted :
    \/ person[u] = "deleted"
    \/ \E k \in TenantCalls : Is(k, "users") /\ u \in work[k].members
=============================================================================
